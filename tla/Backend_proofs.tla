---------------------------- MODULE Backend_proofs ----------------------------
(***************************************************************************)
(* Theorems about Backend for any hardware, any configurations committed,  *)
(* any users beside it and any number of VPP's and the backend's restarts. *)
(***************************************************************************)
EXTENDS Backend, VppFacts_proofs

-----------------------------------------------------------------------------
(* Types.                                                                  *)

RpcSteps == {"connect", "command", "index", "reply"}
InterfaceSteps == {"flags", "set-flags", "mtu", "set-mtu", "add"}
SettingSteps == {"set-flags", "set-mtu"}

\* What belongs to a step is there during the step, and the commands of a create
\* make interfaces.
Shape ==
  /\ pc \notin RpcSteps => command = NoCommand /\ outcome = "none"
  /\ rpc \in Creating => /\ command.do = "add"
                         /\ \A f \in command.facts : f.kind = "exists"
  /\ command.facts \cap Boot = {}
  /\ pc \in InterfaceSteps => cur \in Ifs /\ idx # NoIndex
  /\ pc \in SettingSteps => byIndex \in Ifs

\* The variables of the dataplane.
DataType ==
  vpp \in SUBSET Fact /\ vppUp \in BOOLEAN /\ index \in [Ifs -> Index]

\* The variables of a request and of a transaction.
RequestType ==
  /\ rpc \in Rpcs /\ asked \in Ifs \cup {None} /\ command \in Command
  /\ outcome \in {"none", "true", "error"}
  /\ made \in Ifs \cup {None} /\ madeIndex \in Index

WorkType ==
  /\ target \in SUBSET Fact /\ left \in SUBSET Ifs /\ todo \in SUBSET Fact
  /\ cur \in Ifs \cup {None} /\ idx \in Index /\ byIndex \in Ifs \cup {None}

RestType ==
  /\ connected \in BOOLEAN /\ running \in SUBSET Fact /\ pc \in Steps
  /\ rows \in SUBSET Row

HistoryType ==
  quiet \in BOOLEAN /\ moved \in BOOLEAN /\ before \in SUBSET Fact

\* No index is NoIndex.
LEMMA Indexes == NoIndex \in Index /\ NoIndex \notin 1..MaxIndex
  BY BackendAssumption DEF Index, NoIndex

\* Types are kept by VPP, whatever its new facts are.
LEMMA BecomesType ==
  ASSUME DataType, NEW v \in SUBSET Fact, Becomes(v), vppUp' \in BOOLEAN
  PROVE  DataType'
<1>1. vpp' = v
  BY DEF Becomes
<1>2. PICK n \in Index :
        index' = [i \in Ifs |-> IF ~Present(v, i) THEN NoIndex
                                ELSE IF index[i] # NoIndex THEN index[i] ELSE n]
  BY Indexes DEF Becomes, Index
<1>3. index' \in [Ifs -> Index]
  BY <1>2, Indexes DEF DataType
<1> QED
  BY <1>1, <1>3 DEF DataType

\* So are they by the command that makes a fact false ...
LEMMA WithoutType ==
  ASSUME NEW v \in SUBSET Fact, NEW f
  PROVE  Without(v, f) \in SUBSET Fact
BY DeleteType DEF Without

\* ... and by any command of an RPC.
LEMMA ObeyedType ==
  ASSUME NEW v \in SUBSET Fact, NEW c \in Command
  PROVE  Obeyed(v, c) \in SUBSET SUBSET Fact
<1>1. c.facts \in SUBSET Fact
  BY DEF Command
<1>2. \A f \in c.facts : Establish(v, f) \in SUBSET Fact /\ Without(v, f) \in SUBSET Fact
  BY <1>1, EstablishType, WithoutType
<1> QED
  BY <1>2 DEF Obeyed

\* The commands are commands, and none removes hardware.
LEMMA NamedType ==
  ASSUME NEW S \in SUBSET (Ifs \ Phys)
  PROVE  /\ Add(Named(S)) \in Command /\ Del(Named(S)) \in Command
         /\ Named(S) \cap Boot = {}
         /\ \A f \in Named(S) : f.kind = "exists"
BY FactConstructors DEF Add, Del, Named, Command, Boot, Exists

\* A fact of another kind is no hardware.
LEMMA OtherCommands ==
  /\ \A F \in SUBSET Fact : Add(F) \in Command /\ Del(F) \in Command
  /\ \A F \in SUBSET Fact : (\A f \in F : f.kind # "exists") => F \cap Boot = {}
  /\ NoCommand \in Command /\ NoCommand.facts \cap Boot = {}
  /\ LcpSetDefaultNetns \in Command /\ LcpSetDefaultNetns.facts \cap Boot = {}
BY DEF Add, Del, Command, Boot, Exists, NoCommand, LcpSetDefaultNetns

\* A request is well formed if its command is.
LEMMA RequestOK ==
  ASSUME TypeOK, Shape, NEW r \in Rpcs, NEW n \in Ifs \cup {None}, NEW c \in Command,
         c.facts \cap Boot = {},
         r \in Creating => c.do = "add" /\ \A f \in c.facts : f.kind = "exists",
         Request(r, n, c)
  PROVE  DataType' /\ RequestType' /\ WorkType' /\ RestType' /\ Shape'
<1> USE DEF TypeOK
<1>1. DataType' /\ WorkType'
  BY DEF Request, DataType, WorkType, dataplane, work
<1>2. RequestType'
  BY DEF Request, RequestType
<1>3. pc' \in RpcSteps
  BY DEF Request, RpcSteps
<1>4. RestType'
  BY <1>3 DEF Request, RestType, Steps, RpcSteps
<1>5. Shape'
  BY <1>3 DEF Request, Shape, RpcSteps, InterfaceSteps, SettingSteps
<1> QED
  BY <1>1, <1>2, <1>4, <1>5

\* Every RPC handler starts well.
LEMMA RpcOK ==
  ASSUME TypeOK, Shape, Rpc
  PROVE  DataType' /\ RequestType' /\ WorkType' /\ RestType' /\ Shape'
<1>1. /\ Loops \subseteq Ifs \ Phys /\ Bonds \subseteq Ifs \ Phys /\ Subs \subseteq Ifs \ Phys
      /\ None \in Ifs \cup {None}
  BY NamesAssumption DEF Ifs
<1>2. CASE RpcCreateLoopback
  <2>1. "create-loopback" \in Rpcs /\ "create-loopback" \in Creating
    BY DEF Rpcs, Creating
  <2>2. /\ CreateLoopback \in Command /\ CreateLoopback.facts \cap Boot = {}
        /\ CreateLoopback.do = "add" /\ \A f \in CreateLoopback.facts : f.kind = "exists"
    BY <1>1, NamedType DEF CreateLoopback, Add
  <2> QED
    BY <1>1, <1>2, <2>1, <2>2, RequestOK DEF RpcCreateLoopback
<1>3. CASE RpcLcpSetNetns
  <2>1. "lcp-set-netns" \in Rpcs \ Creating
    BY DEF Rpcs, Creating
  <2> QED
    BY <1>1, <1>3, <2>1, OtherCommands, RequestOK DEF RpcLcpSetNetns
<1>4. ASSUME NEW b \in Bonds \cup {None}, RpcCreateBond(b)
      PROVE  DataType' /\ RequestType' /\ WorkType' /\ RestType' /\ Shape'
  <2>1. "create-bond" \in Rpcs /\ "create-bond" \in Creating
    BY DEF Rpcs, Creating
  <2> DEFINE S == IF b \in {None, Bond0} THEN Bonds ELSE {b}
  <2>2. S \in SUBSET (Ifs \ Phys)
    BY <1>1
  <2>3. CreateBond(b, Bond0) = Add(Named(S))
    BY DEF CreateBond
  <2>4. /\ CreateBond(b, Bond0) \in Command /\ CreateBond(b, Bond0).facts \cap Boot = {}
        /\ CreateBond(b, Bond0).do = "add"
        /\ \A f \in CreateBond(b, Bond0).facts : f.kind = "exists"
    <3> HIDE DEF S
    <3> QED
      BY <2>2, <2>3, NamedType DEF Add
  <2>5. b \in Ifs \cup {None}
    BY <1>1
  <2> QED
    BY <1>4, <2>1, <2>4, <2>5, RequestOK DEF RpcCreateBond
<1>5. ASSUME NEW b \in Bonds, NEW p \in Phys, RpcBondAddMember(b, p)
      PROVE  DataType' /\ RequestType' /\ WorkType' /\ RestType' /\ Shape'
  <2>1. "bond-add-member" \in Rpcs \ Creating
    BY DEF Rpcs, Creating
  <2>2. {Member(p, b)} \in SUBSET Fact /\ \A f \in {Member(p, b)} : f.kind # "exists"
    BY DEF Member, Fact
  <2>3. BondAddMember(b, p) \in Command /\ BondAddMember(b, p).facts \cap Boot = {}
    BY <2>2, OtherCommands DEF BondAddMember, Add
  <2> QED
    BY <1>1, <1>5, <2>1, <2>3, RequestOK DEF RpcBondAddMember
<1>6. ASSUME NEW i \in Ifs, RpcDeleteLoopback(i) \/ RpcDeleteSubif(i) \/ RpcDeleteBond(i)
      PROVE  DataType' /\ RequestType' /\ WorkType' /\ RestType' /\ Shape'
  <2>1. {"delete-loopback", "delete-sub-interface", "delete-bond"} \subseteq Rpcs \ Creating
    BY DEF Rpcs, Creating
  <2>2. \A S \in SUBSET (Ifs \ Phys) :
          Del(Named(S)) \in Command /\ Del(Named(S)).facts \cap Boot = {}
    BY NamedType DEF Del
  <2>3. {i} \cap Loops \subseteq Ifs \ Phys /\ {i} \cap Subs \subseteq Ifs \ Phys
        /\ {i} \cap Bonds \subseteq Ifs \ Phys
    BY <1>1
  <2>4. /\ DeleteLoopback(i) \in Command /\ DeleteLoopback(i).facts \cap Boot = {}
        /\ DeleteSubif(i) \in Command /\ DeleteSubif(i).facts \cap Boot = {}
        /\ DeleteBond(i) \in Command /\ DeleteBond(i).facts \cap Boot = {}
    BY <2>2, <2>3 DEF DeleteLoopback, DeleteSubif, DeleteBond
  <2> QED
    BY <1>1, <1>6, <2>1, <2>4, RequestOK DEF RpcDeleteLoopback, RpcDeleteSubif, RpcDeleteBond
<1>7. ASSUME NEW i \in Ifs, RpcCreateSubif(i)
      PROVE  DataType' /\ RequestType' /\ WorkType' /\ RestType' /\ Shape'
  <2>1. "create-sub-interface" \in Rpcs /\ "create-sub-interface" \in Creating
    BY DEF Rpcs, Creating
  <2>2. {i} \in SUBSET (Ifs \ Phys)
    BY <1>1, <1>7 DEF RpcCreateSubif
  <2>3. /\ CreateSubif(i) \in Command /\ CreateSubif(i).facts \cap Boot = {}
        /\ CreateSubif(i).do = "add" /\ \A f \in CreateSubif(i).facts : f.kind = "exists"
    BY <2>2, NamedType DEF CreateSubif, Add
  <2> QED
    BY <1>7, <2>1, <2>3, RequestOK DEF RpcCreateSubif
<1>8. ASSUME NEW i \in Ifs, RpcBondDelMember(i) \/ RpcLcpDelete(i)
      PROVE  DataType' /\ RequestType' /\ WorkType' /\ RestType' /\ Shape'
  <2>1. {"bond-del-member", "lcp-delete"} \subseteq Rpcs \ Creating
    BY DEF Rpcs, Creating
  <2>2. \A b \in IF i \in Phys THEN Bonds ELSE {} :
          Member(i, b) \in Fact /\ Member(i, b).kind # "exists"
    BY DEF Member, Fact
  <2>3. \A l \in Links : Pair(i, l) \in Fact /\ Pair(i, l).kind # "exists"
    BY FactConstructors DEF Pair
  <2>4. /\ BondDelMember(i) \in Command /\ BondDelMember(i).facts \cap Boot = {}
        /\ LcpDelete(i) \in Command /\ LcpDelete(i).facts \cap Boot = {}
    BY <2>2, <2>3, OtherCommands DEF BondDelMember, LcpDelete, Del
  <2> QED
    BY <1>1, <1>8, <2>1, <2>4, RequestOK DEF RpcBondDelMember, RpcLcpDelete
<1>9. ASSUME NEW i \in Ifs, NEW l \in Links, RpcLcpCreate(i, l)
      PROVE  DataType' /\ RequestType' /\ WorkType' /\ RestType' /\ Shape'
  <2>1. "lcp-create" \in Rpcs \ Creating
    BY DEF Rpcs, Creating
  <2>2. {Pair(i, l)} \in SUBSET Fact /\ \A f \in {Pair(i, l)} : f.kind # "exists"
    BY FactConstructors DEF Pair
  <2>3. LcpCreate(i, l) \in Command /\ LcpCreate(i, l).facts \cap Boot = {}
    BY <2>2, OtherCommands DEF LcpCreate, Add
  <2> QED
    BY <1>1, <1>9, <2>1, <2>3, RequestOK DEF RpcLcpCreate
<1> QED
  BY <1>2, <1>3, <1>4, <1>5, <1>6, <1>7, <1>8, <1>9 DEF Rpc

\* When a request is over nothing of it is left.
LEMMA DoneOK ==
  ASSUME Done
  PROVE  RequestType' /\ WorkType' /\ Shape' /\ rows' \in SUBSET Row /\ pc' = "idle"
BY OtherCommands, Indexes
   DEF Done, RequestType, WorkType, Shape, RpcSteps, InterfaceSteps, SettingSteps,
       Rpcs, Creating

\* The search for an interface with an index returns one, or None.
LEMMA LookupType ==
  ASSUME NEW n PROVE NameOf(n) \in Ifs \cup {None}
BY DEF NameOf, List

\* An index that is found is one.
LEMMA NameToIndexType ==
  ASSUME DataType, NEW i \in Ifs \cup {None}
  PROVE  NameToIndex(i) \in Index
BY Indexes DEF NameToIndex, List, DataType

\* After a create something is there that was not.
LEMMA MadeExists ==
  ASSUME NEW v \in SUBSET Fact, NEW c \in Command, NEW w \in Obeyed(v, c),
         c.do = "add", \A f \in c.facts : f.kind = "exists"
  PROVE  \E i \in Ifs : Present(w, i) /\ ~Present(v, i)
<1>1. PICK f \in c.facts \ v : w = Establish(v, f) /\ Accepts(v, f)
  BY DEF Obeyed
<1>2. f \in Fact /\ f.kind = "exists"
  BY <1>1 DEF Command
<1>3. f = Exists(f.of) /\ f.of \in Ifs
  BY <1>2, FactIs, FactOf
<1>4. f \in w
  BY <1>1 DEF Establish
<1> QED
  BY <1>1, <1>3, <1>4 DEF Present

\* The command of a request.
LEMMA RunCommandOK ==
  ASSUME TypeOK, Shape, RunCommand
  PROVE  DataType' /\ RequestType' /\ WorkType' /\ RestType' /\ Shape'
<1>1. /\ DataType /\ command \in Command /\ rpc \in Rpcs /\ asked \in Ifs \cup {None}
      /\ vppUp' = vppUp /\ vppUp' \in BOOLEAN
  BY DEF TypeOK, DataType, RunCommand
<1>2. Obeyed(vpp, command) \in SUBSET SUBSET Fact
  BY <1>1, ObeyedType DEF DataType
<1>3. DataType'
  <2>1. CASE \E v \in Obeyed(vpp, command) : Becomes(v)
    BY <1>1, <1>2, <2>1, BecomesType
  <2>2. CASE UNCHANGED dataplane
    BY <1>1, <2>2 DEF dataplane, DataType
  <2> QED
    BY <2>1, <2>2 DEF RunCommand
<1>4. outcome' \in {"true", "error"}
  BY DEF RunCommand
<1>5. made' \in Ifs \cup {None}
  <2>1. ASSUME NEW v \in Obeyed(vpp, command), Becomes(v), rpc \in Creating
        PROVE  \E i \in Ifs : Present(vpp', i) /\ ~Present(vpp, i)
    <3>1. vpp' = v
      BY <2>1 DEF Becomes
    <3>2. \E i \in Ifs : Present(v, i) /\ ~Present(vpp, i)
      BY <1>1, <2>1, MadeExists DEF Shape, DataType
    <3> QED
      BY <3>1, <3>2
  <2> QED
    BY <1>1, <2>1 DEF RunCommand
<1>6. pc' \in {"index", "reply"}
  BY DEF RunCommand
<1>7. UNCHANGED <<rpc, asked, command, madeIndex>> /\ UNCHANGED <<connected, running, rows>>
  BY DEF RunCommand
<1>8. WorkType'
  BY DEF RunCommand, work, WorkType, TypeOK
<1>9. RequestType'
  BY <1>4, <1>5, <1>7 DEF RequestType, TypeOK
<1>10. RestType'
  BY <1>6, <1>7 DEF RestType, TypeOK, Steps
<1>11. Shape'
  BY <1>6, <1>7 DEF Shape, RpcSteps, InterfaceSteps, SettingSteps
<1> QED
  BY <1>3, <1>8, <1>9, <1>10, <1>11

\* The other steps of a request.
LEMMA RequestStepOK ==
  ASSUME TypeOK, Shape, ConnectForRpc \/ IndexOfMade \/ Reply
  PROVE  DataType' /\ RequestType' /\ WorkType' /\ RestType' /\ Shape'
<1>1. DataType' /\ DataType
  BY DEF ConnectForRpc, IndexOfMade, Reply, dataplane, DataType, TypeOK
<1>2. CASE ConnectForRpc
  <2>1. /\ pc' \in {"command", "reply"} /\ connected' = vppUp
        /\ outcome' \in {outcome, "error"}
        /\ UNCHANGED <<running, rpc, asked, command, made, madeIndex, work, rows>>
    BY <1>2 DEF ConnectForRpc
  <2>2. RequestType' /\ WorkType' /\ RestType'
    BY <2>1 DEF RequestType, WorkType, RestType, work, TypeOK, Steps
  <2>3. Shape'
    BY <2>1 DEF Shape, RpcSteps, InterfaceSteps, SettingSteps
  <2> QED
    BY <1>1, <2>2, <2>3
<1>3. CASE IndexOfMade
  <2>1. /\ pc' = "reply" /\ madeIndex' = NameToIndex(made)
        /\ UNCHANGED <<connected, running, rpc, asked, command, outcome, made, work, rows>>
    BY <1>3 DEF IndexOfMade
  <2>2. madeIndex' \in Index
    BY <1>1, <2>1, NameToIndexType DEF TypeOK
  <2>3. RequestType' /\ WorkType' /\ RestType'
    BY <2>1, <2>2 DEF RequestType, WorkType, RestType, work, TypeOK, Steps
  <2>4. Shape'
    BY <2>1 DEF Shape, RpcSteps, InterfaceSteps, SettingSteps
  <2> QED
    BY <1>1, <2>3, <2>4
<1>4. CASE Reply
  BY <1>1, <1>4, DoneOK DEF Reply, RestType, TypeOK, Steps
<1> QED
  BY <1>2, <1>3, <1>4

\* One vppctl of a transaction.
LEMMA RunType ==
  ASSUME DataType, NEW v \in SUBSET Fact, Run(v), vppUp' = vppUp
  PROVE  DataType'
<1>1. (IF vppUp THEN v ELSE vpp) \in SUBSET Fact /\ vppUp' \in BOOLEAN
  BY DEF DataType
<1> QED
  BY <1>1, BecomesType DEF Run

\* What a transaction gives an interface is an MTU.
LEMMA MtuGivenType ==
  ASSUME target \in SUBSET Fact, NEW i
  PROVE  MtuGiven(i) \in SUBSET (Mtus \cup {None})
<1>1. \A g \in Of(target, {"mtu"}) : g.val \in Mtus \cup {None}
  BY DEF Of, Fact
<1> QED
  BY <1>1, DefaultsAssumption DEF MtuGiven

\* The beginning and the end of a transaction.
LEMMA TransactionEndsOK ==
  ASSUME TypeOK, Shape,
         \/ \E t \in Targets : Transaction(t)
         \/ ConnectForTransaction \/ EndTransaction
  PROVE  DataType' /\ RequestType' /\ WorkType' /\ RestType' /\ Shape'
<1>1. DataType'
  BY DEF Transaction, ConnectForTransaction, EndTransaction, dataplane, DataType, TypeOK
<1>2. CASE \E t \in Targets : Transaction(t)
  <2>1. PICK t \in Targets : Transaction(t)
    BY <1>2
  <2>2. target' \in SUBSET Fact /\ todo' \in SUBSET Fact
    BY <2>1, BackendAssumption DEF Transaction, DeletedAddresses, Of, TypeOK
  <2>3. /\ pc' \in {"delete", "begin"} /\ pc = "idle"
        /\ UNCHANGED <<connected, running, request, left, cur, idx, byIndex, rows>>
    BY <2>1 DEF Transaction
  <2>4. RequestType' /\ WorkType' /\ RestType'
    BY <2>2, <2>3 DEF RequestType, WorkType, RestType, request, TypeOK, Steps
  <2>5. Shape'
    BY <2>3 DEF Shape, request, RpcSteps, InterfaceSteps, SettingSteps
  <2> QED
    BY <1>1, <2>4, <2>5
<1>3. CASE ConnectForTransaction
  <2>1. connected' \in BOOLEAN /\ running' = running
    BY <1>3 DEF ConnectForTransaction, TypeOK
  <2>2. CASE Done
    BY <1>1, <2>1, <2>2, DoneOK DEF RestType, TypeOK, Steps
  <2>3. CASE pc' = "delete" /\ UNCHANGED <<request, work, rows>>
    <3>1. pc = "begin"
      BY <1>3 DEF ConnectForTransaction
    <3>2. RequestType' /\ WorkType' /\ RestType'
      BY <2>1, <2>3 DEF RequestType, WorkType, RestType, request, work, TypeOK, Steps
    <3>3. Shape'
      BY <2>3, <3>1 DEF Shape, request, work, RpcSteps, InterfaceSteps, SettingSteps
    <3> QED
      BY <1>1, <3>2, <3>3
  <2> QED
    BY <1>3, <2>2, <2>3 DEF ConnectForTransaction
<1>4. CASE EndTransaction
  BY <1>1, <1>4, DoneOK DEF EndTransaction, RestType, TypeOK, Steps
<1> QED
  BY <1>2, <1>3, <1>4

\* The steps of a transaction that run a command.
LEMMA TransactionCommandOK ==
  ASSUME TypeOK, Shape, DeleteAddress \/ SetFlags \/ SetMtu \/ AddAddress
  PROVE  DataType' /\ RequestType' /\ WorkType' /\ RestType' /\ Shape'
<1>0. DataType /\ vppUp' = vppUp
  BY DEF DataType, TypeOK, DeleteAddress, SetFlags, SetMtu, AddAddress, SetByIndex, dataplane
<1>1. RequestType' /\ UNCHANGED <<command, outcome, rpc>>
  BY DEF DeleteAddress, SetFlags, SetMtu, AddAddress, SetByIndex, request, RequestType, TypeOK
<1>2. CASE DeleteAddress
  <2>1. DataType'
    <3>1. \A f : vpp \ {f} \in SUBSET Fact
      BY <1>0 DEF DataType
    <3>2. CASE UNCHANGED dataplane
      BY <1>0, <3>2 DEF DataType, dataplane
    <3>3. CASE \E f \in todo : Run(vpp \ {f})
      BY <1>0, <3>1, <3>3, RunType
    <3> QED
      BY <1>2, <3>2, <3>3 DEF DeleteAddress
  <2>2. /\ todo' \in SUBSET Fact /\ left' \in SUBSET Ifs
        /\ pc = "delete" /\ pc' \in {"delete", "next"}
        /\ UNCHANGED <<connected, running, target, cur, idx, byIndex, rows>>
    <3>1. target \in SUBSET Fact /\ todo \in SUBSET Fact /\ left \in SUBSET Ifs
      BY DEF TypeOK
    <3>2. {f.of : f \in target} \in SUBSET Ifs
      BY <3>1, FactOf
    <3>3. \A f \in todo : todo \ {f} \in SUBSET Fact
      BY <3>1
    <3> QED
      BY <1>2, <3>1, <3>2, <3>3 DEF DeleteAddress
  <2> QED
    BY <1>1, <2>1, <2>2
       DEF WorkType, RestType, TypeOK, Steps, Shape, RpcSteps, InterfaceSteps, SettingSteps
<1>3. CASE SetFlags \/ SetMtu
  <2>1. byIndex \in Ifs /\ cur \in Ifs /\ idx # NoIndex
    BY <1>3 DEF Shape, SetFlags, SetMtu, SetByIndex, SettingSteps, InterfaceSteps
  <2>2. DataType'
    <3>1. CASE SetFlags
      <4>1. /\ Establish(vpp, Up(byIndex)) \in SUBSET Fact
            /\ vpp \ {Up(byIndex)} \in SUBSET Fact
        BY <1>0, <2>1, FactConstructors, EstablishType DEF DataType
      <4>2. \E v \in {Establish(vpp, Up(byIndex)), vpp \ {Up(byIndex)}} : Run(v)
        BY <3>1 DEF SetFlags, SetByIndex
      <4> QED
        BY <1>0, <4>1, <4>2, RunType
    <3>2. CASE SetMtu
      <4>1. PICK m \in MtuGiven(cur) : Run(Establish(vpp, Mtu(byIndex, m)))
        BY <3>2 DEF SetMtu, SetByIndex
      <4>2. Establish(vpp, Mtu(byIndex, m)) \in SUBSET Fact
        <5>1. m \in Mtus \cup {None}
          BY MtuGivenType DEF TypeOK
        <5>2. Mtu(byIndex, m) \in Fact
          BY <2>1, <5>1, FactConstructors
        <5> QED
          BY <1>0, <5>2, EstablishType DEF DataType
      <4> QED
        BY <1>0, <4>1, <4>2, RunType
    <3> QED
      BY <1>3, <3>1, <3>2
  <2>3. /\ byIndex' = None /\ pc \in SettingSteps /\ pc' \in {"mtu", "add"}
        /\ UNCHANGED <<target, left, cur, idx, todo, connected, running, rows>>
    BY <1>3 DEF SetFlags, SetMtu, SetByIndex, SettingSteps
  <2> QED
    BY <1>1, <2>1, <2>2, <2>3
       DEF WorkType, RestType, TypeOK, Steps, Shape, RpcSteps, InterfaceSteps, SettingSteps
<1>4. CASE AddAddress
  <2>1. DataType'
    <3>1. \A f \in todo : Establish(vpp, f) \in SUBSET Fact
      BY <1>0, EstablishType DEF DataType, TypeOK
    <3>2. CASE UNCHANGED dataplane
      BY <1>0, <3>2 DEF DataType, dataplane
    <3>3. CASE \E f \in todo : Run(Establish(vpp, f))
      BY <1>0, <3>1, <3>3, RunType
    <3> QED
      BY <1>4, <3>2, <3>3 DEF AddAddress
  <2>2. \/ pc' = "next" /\ cur' = None /\ idx' = NoIndex
        \/ UNCHANGED <<pc, cur, idx>>
    BY <1>4 DEF AddAddress
  <2>3. /\ todo' \in SUBSET Fact /\ pc = "add"
        /\ UNCHANGED <<connected, running, target, left, byIndex, rows>>
    BY <1>4 DEF AddAddress, TypeOK
  <2> QED
    BY <1>1, <2>1, <2>2, <2>3, Indexes
       DEF WorkType, RestType, TypeOK, Steps, Shape, RpcSteps, InterfaceSteps, SettingSteps
<1> QED
  BY <1>2, <1>3, <1>4

\* The steps of a transaction that read.
LEMMA TransactionReadOK ==
  ASSUME TypeOK, Shape, NextInterface \/ LookupForFlags \/ LookupForMtu
  PROVE  DataType' /\ RequestType' /\ WorkType' /\ RestType' /\ Shape'
<1>1. DataType /\ DataType' /\ RequestType' /\ UNCHANGED <<command, outcome, rpc>>
  BY DEF NextInterface, LookupForFlags, LookupForMtu, Lookup, dataplane, request,
         DataType, RequestType, TypeOK
<1>2. CASE NextInterface
  <2>1. PICK i \in left :
          /\ left' = left \ {i}
          /\ IF NameToIndex(i) = NoIndex THEN UNCHANGED <<pc, cur, idx>>
             ELSE pc' = "flags" /\ cur' = i /\ idx' = NameToIndex(i)
    BY <1>2 DEF NextInterface
  <2>2. i \in Ifs /\ NameToIndex(i) \in Index
    BY <1>1, NameToIndexType DEF TypeOK
  <2>3. /\ pc = "next"
        /\ UNCHANGED <<connected, running, target, todo, byIndex, rows>>
    BY <1>2 DEF NextInterface
  <2> QED
    BY <1>1, <2>1, <2>2, <2>3
       DEF WorkType, RestType, TypeOK, Steps, Shape, RpcSteps, InterfaceSteps, SettingSteps
<1>3. CASE LookupForFlags \/ LookupForMtu
  <2>1. byIndex' \in Ifs \cup {None}
    BY <1>3, LookupType DEF LookupForFlags, LookupForMtu, Lookup
  <2>2. /\ pc \in InterfaceSteps /\ pc' \in InterfaceSteps
        /\ pc' \in SettingSteps => byIndex' # None
        /\ UNCHANGED <<target, left, cur, idx, connected, running, rows>>
    BY <1>3 DEF LookupForFlags, LookupForMtu, Lookup, InterfaceSteps, SettingSteps
  <2>3. todo' \in SUBSET Fact
    BY <1>3 DEF LookupForFlags, LookupForMtu, Addresses, Of, TypeOK
  <2> QED
    BY <1>1, <2>1, <2>2, <2>3
       DEF WorkType, RestType, TypeOK, Steps, Shape, RpcSteps, InterfaceSteps, SettingSteps
<1> QED
  BY <1>2, <1>3

\* State data.
LEMMA StateStepOK ==
  ASSUME TypeOK, Shape,
         Statedata \/ ConnectForState \/ Show \/ ReadMac \/ EndShow \/ SendState
  PROVE  DataType' /\ RequestType' /\ WorkType' /\ RestType' /\ Shape'
<1>1. DataType'
  BY DEF Statedata, ConnectForState, Show, ReadMac, EndShow, SendState, dataplane,
         DataType, TypeOK
<1>2. CASE SendState
  BY <1>1, <1>2, DoneOK DEF SendState, RestType, TypeOK, Steps
<1>3. CASE ~SendState
  <2>1. UNCHANGED <<request, work, running>>
    BY <1>3 DEF Statedata, ConnectForState, Show, ReadMac, EndShow
  <2>2. /\ pc \notin RpcSteps /\ pc' \notin RpcSteps \cup InterfaceSteps
        /\ pc' \in Steps /\ connected' \in BOOLEAN
    BY <1>3 DEF Statedata, ConnectForState, Show, ReadMac, EndShow, RpcSteps,
                InterfaceSteps, TypeOK, Steps
  <2>3. rows' \in SUBSET Row
    <3>1. CASE Show
      <4>1. \A i \in List :
              [name |-> i, index |-> index[i], up |-> Up(i) \in vpp, mac |-> "unread"] \in Row
        BY DEF List, Row, TypeOK
      <4> QED
        BY <3>1, <4>1 DEF Show
    <3>2. CASE ReadMac
      <4>1. \A r \in rows, m \in {"read", "zero"} : [r EXCEPT !.mac = m] \in Row
        BY DEF TypeOK, Row
      <4> QED
        BY <3>2, <4>1 DEF ReadMac, TypeOK
    <3> QED
      BY <1>3, <3>1, <3>2 DEF Statedata, ConnectForState, EndShow, TypeOK
  <2>4. RequestType' /\ WorkType' /\ RestType'
    BY <2>1, <2>2, <2>3 DEF request, work, RequestType, WorkType, RestType, TypeOK
  <2>5. Shape'
    BY <2>1, <2>2 DEF request, work, Shape, RpcSteps, InterfaceSteps, SettingSteps
  <2> QED
    BY <1>1, <2>4, <2>5
<1> QED
  BY <1>2, <1>3

\* Everybody else.
LEMMA OthersOK ==
  ASSUME TypeOK, Shape, Others \/ BackendRestart
  PROVE  DataType' /\ RequestType' /\ WorkType' /\ RestType' /\ Shape'
<1>1. DataType
  BY DEF DataType, TypeOK
<1>2. CASE BackendRestart
  BY <1>1, <1>2, DoneOK DEF BackendRestart, dataplane, DataType, RestType, TypeOK, Steps
<1>3. CASE Others
  <2>1. DataType'
    <3>1. CASE \E f \in Meddled : Meddle(f)
      <4>0. PICK f \in Meddled : Meddle(f)
        BY <3>1
      <4>1. PICK v \in {Establish(vpp, f), Without(vpp, f)} :
              Becomes(v) /\ vppUp' = vppUp
        BY <4>0 DEF Meddle
      <4>2. f \in Fact
        BY BackendAssumption
      <4>3. v \in SUBSET Fact /\ vppUp' \in BOOLEAN
        BY <1>1, <4>1, <4>2, EstablishType, WithoutType DEF DataType
      <4> QED
        BY <1>1, <4>1, <4>3, BecomesType
    <3>2. CASE VppCrash
      BY <1>1, <3>2, BootType, BecomesType DEF VppCrash
    <3>3. CASE VppStart
      BY <1>1, <3>3 DEF VppStart, DataType
    <3> QED
      BY <1>3, <3>1, <3>2, <3>3 DEF Others
  <2>2. UNCHANGED <<connected, running, pc, request, work, rows>>
    BY <1>3 DEF Others, Meddle, VppCrash, VppStart
  <2>3. RequestType' /\ WorkType' /\ RestType'
    BY <2>2 DEF request, work, RequestType, WorkType, RestType, TypeOK
  <2>4. Shape'
    BY <2>2 DEF request, work, Shape
  <2> QED
    BY <2>1, <2>3, <2>4
<1> QED
  BY <1>2, <1>3

\* The history variables record.
LEMMA ObserveType ==
  ASSUME TypeOK, Observe PROVE HistoryType'
<1>1. quiet' \in BOOLEAN
  BY DEF Observe, TypeOK
<1>2. moved' \in BOOLEAN
  BY DEF Observe, TypeOK
<1>3. before' \in SUBSET Fact
  BY DEF Observe, TypeOK
<1> QED
  BY <1>1, <1>2, <1>3 DEF HistoryType

\* Types and shape are inductive.
LEMMA ShapeInductive == TypeOK /\ Shape /\ [Next]_vars => TypeOK' /\ Shape'
<1> SUFFICES ASSUME TypeOK, Shape, [Next]_vars PROVE TypeOK' /\ Shape'
  OBVIOUS
<1>1. CASE Next
  <2>1. HistoryType'
    BY <1>1, ObserveType DEF Next
  <2>2. DataType' /\ RequestType' /\ WorkType' /\ RestType' /\ Shape'
    BY <1>1, RpcOK, RunCommandOK, RequestStepOK, TransactionEndsOK, TransactionCommandOK,
       TransactionReadOK, StateStepOK, OthersOK DEF Next, Serve
  <2> QED
    BY <2>1, <2>2
       DEF TypeOK, DataType, RequestType, WorkType, RestType, HistoryType
<1>2. CASE UNCHANGED vars
  BY <1>2 DEF vars, dataplane, request, work, TypeOK, Shape
<1> QED
  BY <1>1, <1>2

\* They hold at the start.
LEMMA ShapeInit == Init => TypeOK /\ Shape
<1> SUFFICES ASSUME Init PROVE TypeOK /\ Shape
  OBVIOUS
<1>1. index \in [Ifs -> Index]
  BY BackendAssumption, Indexes DEF Init, Index
<1>2. Shape
  BY OtherCommands DEF Init, Shape, RpcSteps, InterfaceSteps, SettingSteps, Creating
<1> QED
  BY <1>1, <1>2, BootType, OtherCommands, Indexes DEF Init, TypeOK, Rpcs, Steps

\* Whatever VPP answers and whoever changes it, the backend holds names, indexes
\* and facts.
THEOREM BackendTypeCorrect == Spec => []TypeOK
<1>1. TypeOK /\ Shape /\ [Next]_vars => TypeOK' /\ Shape'
  BY ShapeInductive
<1> QED
  BY <1>1, ShapeInit, PTL DEF Spec

-----------------------------------------------------------------------------
(* The RPCs keep what RpcService promises.                                 *)

\* RpcService has its own copy of VPP's facts and commands: they are these.
LEMMA PromiseWords ==
  /\ Promise!Boot = Boot /\ Promise!Fact = Fact
  /\ Promise!Command = Command /\ Promise!NoCommand = NoCommand
  /\ \A v, f : Promise!Establish(v, f) = Establish(v, f)
  /\ \A v, f : Promise!Without(v, f) = Without(v, f)
  /\ \A v, c : Promise!Obeyed(v, c) = Obeyed(v, c)
<1>1. Promise!Boot = Boot
  BY DEF Promise!Boot, Boot, Promise!Exists, Exists
<1>2. Promise!Fact = Fact
  BY DEF Promise!Fact, Fact, Promise!Ifs, Ifs, Promise!Addrs, Addrs, Promise!Links, Links
<1>3. Promise!Command = Command
  BY <1>2 DEF Promise!Command, Command
<1>4. Promise!NoCommand = NoCommand
  BY DEF Promise!NoCommand, NoCommand
<1>5. \A v, f : Promise!Accepts(v, f) = Accepts(v, f)
  BY DEF Promise!Accepts, Accepts, Promise!Present, Present, Promise!Exists, Exists,
         Promise!Of, Of
<1>6. \A v, f : Promise!Establish(v, f) = Establish(v, f)
  BY <1>5 DEF Promise!Establish, Establish, Promise!Superseded, Superseded
<1>7. \A v, f : Promise!Without(v, f) = Without(v, f)
  BY DEF Promise!Without, Without, Promise!Delete, Delete, Promise!Tree, Tree
<1>8. ASSUME NEW v, NEW c PROVE Promise!Obeyed(v, c) = Obeyed(v, c)
  BY <1>5, <1>6, <1>7 DEF Promise!Obeyed, Obeyed
<1> QED
  BY <1>1, <1>2, <1>3, <1>4, <1>6, <1>7, <1>8

\* The stage by the step.
LEMMA Stages ==
  /\ pc \in {"connect", "command"} => Stage = "asked"
  /\ pc \in {"index", "reply"} => Stage = "decided"
  /\ pc \notin RpcSteps => Stage = "idle"
  /\ Stage = "idle" => pc \notin RpcSteps
BY DEF Stage, RpcSteps

\* What is done when there is no request is no step of a request, or one of a
\* transaction.
LEMMA NoRequestStep ==
  ASSUME TypeOK', pc \notin RpcSteps, pc' \notin RpcSteps,
         UNCHANGED <<vppUp, command, outcome>>
  PROVE  Promise!Next
<1>1. Stage = "idle" /\ Stage' = "idle"
  BY Stages DEF RpcSteps, Stage
<1>2. vpp' \in SUBSET Promise!Fact
  BY PromiseWords DEF TypeOK
<1> QED
  BY <1>1, <1>2 DEF Promise!Next, Promise!Transaction

\* A request, dropped or answered, is over.
LEMMA DoneStep ==
  ASSUME TypeOK, TypeOK', Shape, Done, UNCHANGED dataplane
  PROVE  Promise!Next
<1>1. /\ pc' = "idle" /\ command' = NoCommand /\ outcome' = "none"
      /\ UNCHANGED <<vpp, vppUp>>
  BY DEF Done, dataplane
<1>2. Stage' = "idle"
  BY <1>1 DEF Stage
<1>3. CASE pc \in RpcSteps
  <2>1. Stage # "idle"
    BY <1>3, Stages
  <2>2. Promise!NoCommand = NoCommand
    BY PromiseWords
  <2> QED
    BY <1>1, <1>2, <2>1, <2>2 DEF Promise!Next, Promise!Finish
<1>4. CASE pc \notin RpcSteps
  <2>1. command = NoCommand /\ outcome = "none"
    BY <1>4 DEF Shape
  <2>2. pc' \notin RpcSteps
    BY <1>1 DEF RpcSteps
  <2> QED
    BY <1>1, <1>4, <2>1, <2>2, NoRequestStep
<1> QED
  BY <1>3, <1>4

\* Asking.
LEMMA RequestRefines ==
  ASSUME TypeOK', NEW r, NEW n, NEW c, Request(r, n, c)
  PROVE  Promise!Next
<1>1. /\ pc = "idle" /\ pc' \in {"connect", "command"}
      /\ UNCHANGED <<vpp, vppUp, outcome>>
  BY DEF Request, dataplane
<1>2. Stage = "idle" /\ Stage' = "asked"
  BY <1>1 DEF Stage
<1>3. command' \in Promise!Command
  BY PromiseWords DEF TypeOK
<1> QED
  BY <1>1, <1>2, <1>3 DEF Promise!Next, Promise!Ask

\* Deciding: VPP carries the command out, or cannot.
LEMMA DecisionRefines ==
  ASSUME TypeOK, TypeOK', ConnectForRpc \/ RunCommand \/ IndexOfMade
  PROVE  Promise!Next \/ UNCHANGED Promise!vars
<1>1. UNCHANGED <<vppUp, command>>
  BY DEF ConnectForRpc, RunCommand, IndexOfMade, dataplane
<1>2. CASE ConnectForRpc
  <2>1. pc = "connect" /\ Stage = "asked" /\ UNCHANGED vpp
    BY <1>2 DEF ConnectForRpc, Stage, dataplane
  <2>2. CASE vppUp
    <3>1. UNCHANGED outcome /\ pc' = "command"
      BY <1>2, <2>2 DEF ConnectForRpc
    <3>2. Stage' = "asked"
      BY <3>1 DEF Stage
    <3> QED
      BY <1>1, <2>1, <3>1, <3>2 DEF Promise!vars
  <2>3. CASE ~vppUp
    <3>1. outcome' = "error" /\ pc' = "reply"
      BY <1>2, <2>3 DEF ConnectForRpc
    <3>2. Stage' = "decided"
      BY <3>1 DEF Stage
    <3> QED
      BY <1>1, <2>1, <2>3, <3>1, <3>2
         DEF Promise!Next, Promise!Refuse, Promise!Impossible, Promise!Decide
  <2> QED
    BY <2>2, <2>3
<1>3. CASE RunCommand
  <2>1. pc = "command" /\ pc' \in {"index", "reply"}
    BY <1>3 DEF RunCommand
  <2>2. Stage = "asked" /\ Stage' = "decided"
    BY <2>1 DEF Stage
  <2>3. CASE vppUp /\ outcome' = "true" /\ \E v \in Obeyed(vpp, command) : Becomes(v)
    <3>1. vpp' \in Promise!Obeyed(vpp, command)
      BY <2>3, PromiseWords DEF Becomes
    <3> QED
      BY <1>1, <2>2, <2>3, <3>1 DEF Promise!Next, Promise!CarryOut, Promise!Decide
  <2>4. CASE /\ ~vppUp \/ Obeyed(vpp, command) = {}
             /\ UNCHANGED vpp /\ outcome' \in {"true", "error"}
    <3>1. Promise!Impossible
      BY <2>4, PromiseWords DEF Promise!Impossible
    <3> QED
      BY <1>1, <2>2, <2>4, <3>1
         DEF Promise!Next, Promise!Refuse, Promise!Misjudge, Promise!Decide
  <2> QED
    BY <1>3, <2>3, <2>4 DEF RunCommand, dataplane
<1>4. CASE IndexOfMade
  <2>1. pc = "index" /\ pc' = "reply" /\ UNCHANGED <<vpp, outcome>>
    BY <1>4 DEF IndexOfMade, dataplane
  <2>2. Stage = "decided" /\ Stage' = "decided"
    BY <2>1 DEF Stage
  <2> QED
    BY <1>1, <2>1, <2>2 DEF Promise!vars
<1> QED
  BY <1>2, <1>3, <1>4

\* The others are the others.
LEMMA OthersRefine ==
  ASSUME Others PROVE Promise!Next
<1>1. UNCHANGED <<pc, command, outcome>>
  BY DEF Others, Meddle, VppCrash, VppStart, request
<1>2. Stage' = Stage
  BY <1>1 DEF Stage
<1>3. \/ vpp' = Promise!Boot /\ vppUp' = FALSE
      \/ vppUp' = TRUE /\ UNCHANGED vpp
      \/ /\ \E f \in Meddled :
              vpp' \in {Promise!Establish(vpp, f), Promise!Without(vpp, f)}
         /\ UNCHANGED vppUp
  <2>1. CASE VppCrash
    BY <2>1, PromiseWords DEF VppCrash, Becomes
  <2>2. CASE VppStart
    BY <2>2 DEF VppStart
  <2>3. CASE \E f \in Meddled : Meddle(f)
    <3>1. PICK f \in Meddled : Meddle(f)
      BY <2>3
    <3>2. vpp' \in {Establish(vpp, f), Without(vpp, f)} /\ UNCHANGED vppUp
      BY <3>1 DEF Meddle, Becomes
    <3> QED
      BY <3>2, PromiseWords
  <2> QED
    BY <2>1, <2>2, <2>3 DEF Others
<1> QED
  BY <1>1, <1>2, <1>3 DEF Promise!Next, Promise!Others

\* Transactions and state data leave requests alone.
LEMMA OtherStepsRefine ==
  ASSUME TypeOK', \/ \E t \in Targets : Transaction(t)
                  \/ DeleteAddress \/ NextInterface \/ LookupForFlags \/ SetFlags
                  \/ LookupForMtu \/ SetMtu \/ AddAddress
                  \/ Statedata \/ ConnectForState \/ Show \/ ReadMac \/ EndShow
  PROVE  Promise!Next
<1>1. UNCHANGED <<vppUp, command, outcome>>
  BY DEF Transaction, DeleteAddress, NextInterface, LookupForFlags, SetFlags, LookupForMtu,
         SetMtu, AddAddress, Lookup, SetByIndex, Statedata, ConnectForState, Show, ReadMac,
         EndShow, dataplane, request
<1>2. pc \notin RpcSteps /\ pc' \notin RpcSteps
  BY DEF Transaction, DeleteAddress, NextInterface, LookupForFlags, SetFlags, LookupForMtu,
         SetMtu, AddAddress, Lookup, SetByIndex, Statedata, ConnectForState, Show, ReadMac,
         EndShow, RpcSteps
<1> QED
  BY <1>1, <1>2, NoRequestStep

\* Every step of the backend is a step of RpcService, or none.
LEMMA StepRefines ==
  TypeOK /\ Shape /\ [Next]_vars /\ TypeOK' => [Promise!Next]_Promise!vars
<1> SUFFICES ASSUME TypeOK, Shape, [Next]_vars, TypeOK'
             PROVE  Promise!Next \/ UNCHANGED Promise!vars
  OBVIOUS
<1>1. CASE Rpc
  BY <1>1, RequestRefines
     DEF Rpc, RpcCreateLoopback, RpcLcpSetNetns, RpcCreateBond, RpcBondAddMember,
         RpcDeleteLoopback, RpcCreateSubif, RpcDeleteSubif, RpcDeleteBond,
         RpcBondDelMember, RpcLcpDelete, RpcLcpCreate
<1>2. CASE Reply \/ EndTransaction \/ SendState \/ BackendRestart
  <2>1. Done /\ UNCHANGED dataplane
    BY <1>2 DEF Reply, EndTransaction, SendState, BackendRestart
  <2> QED
    BY <2>1, DoneStep
<1>3. CASE ConnectForTransaction
  <2>1. CASE Done
    BY <1>3, <2>1, DoneStep DEF ConnectForTransaction, dataplane
  <2>2. CASE pc' = "delete" /\ UNCHANGED request
    BY <1>3, <2>2, NoRequestStep DEF ConnectForTransaction, RpcSteps, dataplane, request
  <2> QED
    BY <1>3, <2>1, <2>2 DEF ConnectForTransaction
<1>4. CASE UNCHANGED vars
  BY <1>4 DEF vars, dataplane, request, Promise!vars, Stage
<1> QED
  BY <1>1, <1>2, <1>3, <1>4, OthersRefine, DecisionRefines, OtherStepsRefine
     DEF Next, Serve

\* The backend implements RpcService: between a request and its reply VPP carries
\* out one command, or cannot carry it out, and a negative reply means the latter.
THEOREM RpcsKeepTheirPromise == Spec => KeepsPromise
<1>1. Init => Promise!Init
  BY PromiseWords DEF Init, Promise!Init, Stage
<1>2. TypeOK /\ Shape /\ [Next]_vars => TypeOK' /\ Shape'
  BY ShapeInductive
<1>3. TypeOK /\ Shape /\ [Next]_vars /\ TypeOK' => [Promise!Next]_Promise!vars
  BY StepRefines
<1> QED
  BY <1>1, <1>2, <1>3, ShapeInit, PTL DEF Spec, KeepsPromise, Promise!Spec

-----------------------------------------------------------------------------
(* Names and indexes.                                                      *)

\* What has an index is what exists, no two interfaces have the same, and VPP
\* never loses its hardware.
IndexesHold ==
  /\ Boot \subseteq vpp
  /\ \A i \in Ifs : Present(vpp, i) <=> index[i] # NoIndex
  /\ \A i, j \in Ifs : index[i] # NoIndex /\ index[i] = index[j] => i = j

\* The interface looked up is found again, unless its index has changed hands.
Found ==
  /\ pc \in InterfaceSteps /\ ~moved => index[cur] = idx
  /\ pc \in SettingSteps /\ ~moved => byIndex = cur
  /\ pc \in {"begin", "delete"} => \A f \in todo : f.kind = "addr"

\* Configurations that have the hardware and at most one new interface.
Modest(v) ==
  /\ v \in SUBSET Fact /\ Boot \subseteq v
  /\ \A i, j \in Ifs : Present(v, i) /\ ~Present(vpp, i) /\ Present(v, j)
                        /\ ~Present(vpp, j) => i = j

\* VPP's indexes stay in order.
LEMMA BecomesKeeps ==
  ASSUME DataType, IndexesHold, NEW v, Modest(v), Becomes(v)
  PROVE  IndexesHold'
<1>1. vpp' = v
  BY DEF Becomes
<1> DEFINE isNew == \E i \in Ifs : Present(v, i) /\ index[i] = NoIndex
<1>2. PICK n \in IF isNew THEN 1..MaxIndex \ {index[i] : i \in Ifs} ELSE {NoIndex} :
        index' = [i \in Ifs |-> IF ~Present(v, i) THEN NoIndex
                                ELSE IF index[i] # NoIndex THEN index[i] ELSE n]
  BY DEF Becomes
<1>3. isNew => n # NoIndex /\ \A i \in Ifs : index[i] # n
  BY <1>2, Indexes
<1>4. \A i \in Ifs : Present(v, i) /\ index[i] = NoIndex => isNew
  OBVIOUS
<1>5. \A i \in Ifs : index'[i] = IF ~Present(v, i) THEN NoIndex
                                 ELSE IF index[i] # NoIndex THEN index[i] ELSE n
  BY <1>2
<1> HIDE DEF isNew
<1>6. \A i \in Ifs : Present(v, i) <=> index'[i] # NoIndex
  BY <1>3, <1>4, <1>5
<1>7. ASSUME NEW i \in Ifs, NEW j \in Ifs, index'[i] # NoIndex, index'[i] = index'[j]
      PROVE  i = j
  <2>1. Present(v, i) /\ Present(v, j)
    BY <1>6, <1>7
  <2>2. CASE index[i] = NoIndex /\ index[j] = NoIndex
    BY <2>1, <2>2 DEF IndexesHold, Modest
  <2>3. CASE index[i] # NoIndex /\ index[j] # NoIndex
    BY <1>5, <1>7, <2>1, <2>3 DEF IndexesHold
  <2>4. CASE index[i] = NoIndex /\ index[j] # NoIndex
    BY <1>3, <1>4, <1>5, <1>7, <2>1, <2>4
  <2>5. CASE index[i] # NoIndex /\ index[j] = NoIndex
    BY <1>3, <1>4, <1>5, <1>7, <2>1, <2>5
  <2> QED
    BY <2>2, <2>3, <2>4, <2>5
<1>8. \A i \in Ifs : Present(vpp', i) <=> index'[i] # NoIndex
  BY <1>1, <1>6
<1>9. Boot \subseteq vpp'
  BY <1>1 DEF Modest
<1> QED
  BY <1>7, <1>8, <1>9 DEF IndexesHold

\* Making a fact true touches facts of one interface only ...
LEMMA EstablishLocal ==
  ASSUME NEW v, NEW f, NEW g \in (v \ Establish(v, f)) \cup (Establish(v, f) \ v)
  PROVE  g.of = f.of /\ (g \in v => g.kind = "mtu")
BY DEF Establish, Superseded

\* ... and is modest.
LEMMA EstablishModest ==
  ASSUME DataType, IndexesHold, NEW f \in Fact
  PROVE  Modest(Establish(vpp, f))
<1>1. Establish(vpp, f) \in SUBSET Fact
  BY EstablishType DEF DataType
<1>2. \A g \in Boot : g.kind = "exists"
  BY DEF Boot, Exists
<1>3. Boot \subseteq Establish(vpp, f)
  BY <1>2, EstablishLocal DEF IndexesHold
<1>4. \A i \in Ifs : Present(Establish(vpp, f), i) /\ ~Present(vpp, i) => f.of = i
  BY EstablishLocal DEF Present, Exists
<1> QED
  BY <1>1, <1>3, <1>4 DEF Modest

\* So is making one false, if it is not about hardware being there.
LEMMA SubsetModest ==
  ASSUME DataType, NEW v \in SUBSET vpp, Boot \subseteq v
  PROVE  Modest(v)
BY DEF Modest, DataType, Present

LEMMA WithoutModest ==
  ASSUME DataType, IndexesHold, NEW f \in Fact, f \notin Boot
  PROVE  Modest(Without(vpp, f))
<1>1. CASE f.kind = "exists"
  <2>1. f = Exists(f.of) /\ f.of \in Ifs
    BY <1>1 DEF Fact, Exists
  <2>2. f.of \notin Phys
    BY <2>1 DEF Boot
  <2>3. \A p \in Phys : p \notin Tree(f.of)
    BY <2>2, NamesAssumption DEF Tree
  <2>4. \A g \in Boot : g.kind = "exists" /\ g.of \in Phys
    BY DEF Boot, Exists
  <2>5. Boot \subseteq Delete(vpp, f.of)
    BY <2>3, <2>4 DEF Delete, IndexesHold
  <2>6. Delete(vpp, f.of) \subseteq vpp
    BY DEF Delete
  <2> QED
    BY <1>1, <2>5, <2>6, SubsetModest DEF Without
<1>2. CASE f.kind # "exists"
  BY <1>2, SubsetModest DEF Without, IndexesHold
<1> QED
  BY <1>1, <1>2

\* And so is what VPP makes of any command of an RPC.
LEMMA ObeyedModest ==
  ASSUME DataType, IndexesHold, NEW c \in Command, c.facts \cap Boot = {},
         NEW v \in Obeyed(vpp, c)
  PROVE  Modest(v)
<1>1. c.facts \subseteq Fact
  BY DEF Command
<1>2. CASE \E f \in c.facts : v = Establish(vpp, f)
  BY <1>1, <1>2, EstablishModest
<1>3. CASE \E f \in c.facts : v = Without(vpp, f)
  BY <1>1, <1>3, WithoutModest
<1>4. CASE v = vpp
  BY <1>4, SubsetModest DEF IndexesHold
<1> QED
  BY <1>2, <1>3, <1>4 DEF Obeyed

\* A command of a transaction.
LEMMA RunKeeps ==
  ASSUME DataType, IndexesHold, NEW v, Modest(v), Run(v)
  PROVE  IndexesHold'
<1>1. Modest(vpp)
  BY SubsetModest DEF IndexesHold
<1>2. Modest(IF vppUp THEN v ELSE vpp)
  BY <1>1
<1> QED
  BY <1>2, BecomesKeeps DEF Run

\* Nothing else the backend does touches VPP.
LEMMA IndexesInductive ==
  ASSUME TypeOK, Shape, IndexesHold, Found, [Next]_vars
  PROVE  IndexesHold'
<1>1. DataType
  BY DEF DataType, TypeOK
<1>2. CASE UNCHANGED dataplane
  BY <1>2 DEF dataplane, IndexesHold, Present
<1>3. CASE RunCommand
  <2>1. CASE \E v \in Obeyed(vpp, command) : Becomes(v)
    <3>1. PICK v \in Obeyed(vpp, command) : Becomes(v)
      BY <2>1
    <3>2. command \in Command /\ command.facts \cap Boot = {}
      BY DEF TypeOK, Shape
    <3> QED
      BY <1>1, <3>1, <3>2, ObeyedModest, BecomesKeeps
  <2> QED
    BY <1>2, <1>3, <2>1 DEF RunCommand
<1>4. CASE DeleteAddress
  <2>1. ASSUME NEW f \in todo, Run(vpp \ {f}) PROVE IndexesHold'
    <3>1. f.kind = "addr"
      BY <1>4, <2>1 DEF DeleteAddress, Found
    <3>2. f \notin Boot
      BY <3>1 DEF Boot, Exists
    <3>3. Modest(vpp \ {f})
      BY <1>1, <3>2, SubsetModest DEF IndexesHold
    <3> QED
      BY <1>1, <2>1, <3>3, RunKeeps
  <2> QED
    BY <1>2, <1>4, <2>1 DEF DeleteAddress
<1>5. CASE SetFlags
  <2>1. Up(byIndex) \in Fact
    BY <1>5, FactConstructors DEF SetFlags, SetByIndex, Shape, SettingSteps
  <2>2. Up(byIndex) \notin Boot
    BY DEF Boot, Exists, Up
  <2>3. Modest(Establish(vpp, Up(byIndex))) /\ Modest(vpp \ {Up(byIndex)})
    BY <1>1, <2>1, <2>2, EstablishModest, SubsetModest DEF IndexesHold
  <2> QED
    BY <1>1, <1>5, <2>3, RunKeeps DEF SetFlags, SetByIndex
<1>6. CASE SetMtu
  <2>1. PICK m \in MtuGiven(cur) : Run(Establish(vpp, Mtu(byIndex, m)))
    BY <1>6 DEF SetMtu, SetByIndex
  <2>2. byIndex \in Ifs
    BY <1>6 DEF SetMtu, SetByIndex, Shape, SettingSteps
  <2>3. m \in Mtus \cup {None}
    BY MtuGivenType DEF TypeOK
  <2>4. Mtu(byIndex, m) \in Fact
    BY <2>2, <2>3 DEF Mtu, Fact
  <2> QED
    BY <1>1, <2>1, <2>4, EstablishModest, RunKeeps
<1>7. CASE AddAddress
  <2>1. ASSUME NEW f \in todo, Run(Establish(vpp, f)) PROVE IndexesHold'
    <3>1. f \in Fact
      BY DEF TypeOK
    <3> QED
      BY <1>1, <2>1, <3>1, EstablishModest, RunKeeps
  <2> QED
    BY <1>2, <1>7, <2>1 DEF AddAddress
<1>8. CASE Others
  <2>1. CASE \E f \in Meddled : Meddle(f)
    <3>1. PICK f \in Meddled : Meddle(f)
      BY <2>1
    <3>2. f \in Fact /\ f \notin Boot
      BY BackendAssumption
    <3>3. Becomes(Establish(vpp, f)) \/ Becomes(Without(vpp, f))
      BY <3>1 DEF Meddle
    <3> QED
      BY <1>1, <3>2, <3>3, EstablishModest, WithoutModest, BecomesKeeps
  <2>2. CASE VppCrash
    BY <1>1, <2>2, SubsetModest, BecomesKeeps DEF VppCrash, IndexesHold
  <2>3. CASE VppStart
    BY <2>3 DEF VppStart, IndexesHold, Present
  <2> QED
    BY <1>8, <2>1, <2>2, <2>3 DEF Others
<1>9. CASE Rpc
  BY <1>2, <1>9
     DEF Rpc, RpcCreateLoopback, RpcLcpSetNetns, RpcCreateBond, RpcBondAddMember,
         RpcDeleteLoopback, RpcCreateSubif, RpcDeleteSubif, RpcDeleteBond,
         RpcBondDelMember, RpcLcpDelete, RpcLcpCreate, Request
<1>10. CASE \/ (\E t \in Targets : Transaction(t)) \/ Statedata \/ BackendRestart
            \/ ConnectForRpc \/ IndexOfMade \/ Reply \/ ConnectForTransaction
            \/ NextInterface \/ LookupForFlags \/ LookupForMtu \/ EndTransaction
            \/ ConnectForState \/ Show \/ ReadMac \/ EndShow \/ SendState
  BY <1>2, <1>10
     DEF Transaction, Statedata, BackendRestart, ConnectForRpc, IndexOfMade, Reply,
         ConnectForTransaction, NextInterface, LookupForFlags, LookupForMtu, Lookup,
         EndTransaction, ConnectForState, Show, ReadMac, EndShow, SendState, dataplane
<1> QED
  BY <1>2, <1>3, <1>4, <1>5, <1>6, <1>7, <1>8, <1>9, <1>10 DEF Next, Serve, vars

\* The name found for an index is the one that has it.
LEMMA NameOfIndex ==
  ASSUME IndexesHold, NEW i \in Ifs, index[i] # NoIndex, NameOf(index[i]) # None
  PROVE  NameOf(index[i]) = i
BY DEF NameOf, List, IndexesHold

\* What becomes of the interface looked up, step by step.
LEMMA FoundSteps ==
  ASSUME TypeOK, Shape, Next
  PROVE  \/ pc' \notin InterfaceSteps \cup {"begin", "delete"}
         \/ UNCHANGED <<pc, cur, idx, byIndex, todo>>
         \/ /\ pc' \in InterfaceSteps \ SettingSteps /\ cur' # None
         \/ /\ pc \in InterfaceSteps /\ pc' \in SettingSteps /\ UNCHANGED <<cur, idx>>
            /\ byIndex' = NameOf(idx) /\ byIndex' # None
         \/ /\ pc' \in {"begin", "delete"}
            /\ todo' \subseteq todo /\ pc \in {"begin", "delete"}
         \/ /\ pc' \in {"begin", "delete"}
            /\ \A f \in todo' : f.kind = "addr"
<1>1. CASE Rpc \/ Statedata
  BY <1>1
     DEF Rpc, RpcCreateLoopback, RpcLcpSetNetns, RpcCreateBond, RpcBondAddMember,
         RpcDeleteLoopback, RpcCreateSubif, RpcDeleteSubif, RpcDeleteBond,
         RpcBondDelMember, RpcLcpDelete, RpcLcpCreate, Request, Statedata, InterfaceSteps
<1>2. CASE \E t \in Targets : Transaction(t)
  BY <1>2 DEF Transaction, DeletedAddresses, Of
<1>3. CASE ConnectForRpc \/ RunCommand \/ IndexOfMade \/ Reply \/ EndTransaction
           \/ ConnectForState \/ Show \/ ReadMac \/ EndShow \/ SendState \/ BackendRestart
  BY <1>3 DEF ConnectForRpc, RunCommand, IndexOfMade, Reply, EndTransaction, ConnectForState,
              Show, ReadMac, EndShow, SendState, BackendRestart, Done, InterfaceSteps, work
<1>4. CASE Others
  BY <1>4 DEF Others, Meddle, VppCrash, VppStart, work
<1>5. CASE ConnectForTransaction
  BY <1>5 DEF ConnectForTransaction, Done, InterfaceSteps, work
<1>6. CASE DeleteAddress
  BY <1>6 DEF DeleteAddress, InterfaceSteps
<1>7. CASE NextInterface
  <2>1. None \notin Ifs
    BY NamesAssumption DEF Ifs
  <2> QED
    BY <1>7, <2>1 DEF NextInterface, InterfaceSteps, SettingSteps, TypeOK
<1>8. CASE LookupForFlags \/ LookupForMtu
  <2>1. pc \in InterfaceSteps /\ UNCHANGED <<cur, idx>> /\ cur \in Ifs /\ cur # None
    BY <1>8, NamesAssumption DEF LookupForFlags, LookupForMtu, Lookup, InterfaceSteps, Shape, Ifs
  <2>2. \/ byIndex' # None /\ byIndex' = NameOf(idx) /\ pc' \in SettingSteps
        \/ pc' \in InterfaceSteps \ SettingSteps
    BY <1>8 DEF LookupForFlags, LookupForMtu, Lookup, InterfaceSteps, SettingSteps
  <2> QED
    BY <2>1, <2>2
<1>9. CASE SetFlags \/ SetMtu \/ AddAddress
  <2>1. pc \in InterfaceSteps /\ cur \in Ifs /\ cur # None
    BY <1>9, NamesAssumption
       DEF SetFlags, SetMtu, AddAddress, SetByIndex, InterfaceSteps, Shape, Ifs
  <2>2. \/ pc' \notin InterfaceSteps \cup {"begin", "delete"}
        \/ pc' \in InterfaceSteps \ SettingSteps /\ UNCHANGED cur
    BY <1>9 DEF SetFlags, SetMtu, AddAddress, SetByIndex, InterfaceSteps, SettingSteps
  <2> QED
    BY <2>1, <2>2
<1> QED
  BY <1>1, <1>2, <1>3, <1>4, <1>5, <1>6, <1>7, <1>8, <1>9 DEF Next, Serve

\* So the interface looked up is found again.
LEMMA FoundInductive ==
  ASSUME TypeOK, Shape, IndexesHold, Found, [Next]_vars, Shape'
  PROVE  Found'
<1>1. CASE UNCHANGED vars
  BY <1>1 DEF vars, dataplane, work, Found
<1>2. CASE Next
  <2>1. moved' = (cur' # None /\ (moved \/ index'[cur'] # idx'))
    BY <1>2 DEF Next, Observe
  <2>2. None \notin Ifs
    BY NamesAssumption DEF Ifs
  <2>3. pc' \in InterfaceSteps => cur' \in Ifs /\ cur' # None
    BY <2>2 DEF Shape
  <2>4. pc' \in InterfaceSteps /\ ~moved' => index'[cur'] = idx' /\ ~moved
    BY <2>1, <2>3
  <2>5. SettingSteps \subseteq InterfaceSteps /\ InterfaceSteps \cap {"begin", "delete"} = {}
    BY DEF SettingSteps, InterfaceSteps
  <2>6. pc' \in SettingSteps /\ ~moved' => byIndex' = cur'
    <3> SUFFICES ASSUME pc' \in SettingSteps, ~moved' PROVE byIndex' = cur'
      OBVIOUS
    <3>1. ~moved
      BY <2>4, <2>5
    <3>2. CASE UNCHANGED <<pc, cur, idx, byIndex, todo>>
      BY <3>1, <3>2 DEF Found
    <3>3. CASE /\ pc \in InterfaceSteps /\ UNCHANGED <<cur, idx>>
               /\ byIndex' = NameOf(idx) /\ byIndex' # None
      <4>1. cur \in Ifs /\ idx # NoIndex /\ index[cur] = idx
        BY <3>1, <3>3 DEF Shape, Found
      <4> QED
        BY <3>3, <4>1, NameOfIndex
    <3> QED
      BY <1>2, <2>5, <3>2, <3>3, FoundSteps
  <2>7. pc' \in {"begin", "delete"} => \A f \in todo' : f.kind = "addr"
    BY <1>2, <2>5, FoundSteps DEF Found
  <2> QED
    BY <2>4, <2>6, <2>7 DEF Found
<1> QED
  BY <1>1, <1>2

\* A step that sets something by an index found again touches that interface only.
LEMMA SettingLocal ==
  ASSUME TypeOK, Shape, Found, Next,
         pc \in {"set-flags", "set-mtu"}, pc' \in {"mtu", "add"}, ~moved
  PROVE  \A f \in (vpp \ vpp') \cup (vpp' \ vpp) : f.of = cur
<1>1. byIndex = cur
  BY DEF Found, SettingSteps
<1>2. SetFlags \/ SetMtu
  BY DEF Next, Serve, Rpc, RpcCreateLoopback, RpcLcpSetNetns, RpcCreateBond,
         RpcBondAddMember, RpcDeleteLoopback, RpcCreateSubif, RpcDeleteSubif,
         RpcDeleteBond, RpcBondDelMember, RpcLcpDelete, RpcLcpCreate, Request,
         Transaction, Statedata, BackendRestart, Done,
         ConnectForRpc, RunCommand, IndexOfMade, Reply, ConnectForTransaction,
         DeleteAddress, NextInterface, LookupForFlags, LookupForMtu, Lookup, AddAddress,
         EndTransaction, ConnectForState, Show, ReadMac, EndShow, SendState,
         Others, Meddle, VppCrash, VppStart
<1>3. \A v : Run(v) => vpp' = v \/ vpp' = vpp
  BY DEF Run, Becomes
<1>4. ASSUME NEW f, f.of = cur, vpp' = Establish(vpp, f)
      PROVE  \A g \in (vpp \ vpp') \cup (vpp' \ vpp) : g.of = cur
  BY <1>4, EstablishLocal
<1>5. CASE SetFlags
  <2>1. Up(cur).of = cur
    BY DEF Up
  <2>2. vpp' \in {vpp, Establish(vpp, Up(cur)), vpp \ {Up(cur)}}
    BY <1>1, <1>3, <1>5 DEF SetFlags, SetByIndex
  <2> QED
    BY <1>4, <2>1, <2>2
<1>6. CASE SetMtu
  <2>1. PICK m \in MtuGiven(cur) : Run(Establish(vpp, Mtu(cur, m)))
    BY <1>1, <1>6 DEF SetMtu, SetByIndex
  <2>2. Mtu(cur, m).of = cur
    BY DEF Mtu
  <2> QED
    BY <1>3, <1>4, <2>1, <2>2
<1> QED
  BY <1>2, <1>5, <1>6

\* A VPP that has just started has its hardware in order.
LEMMA IndexesInit == Init => IndexesHold /\ Found
<1> SUFFICES ASSUME Init PROVE IndexesHold /\ Found
  OBVIOUS
<1>1. IndexesHold
  <2>1. vpp = Boot
        /\ index = [i \in Ifs |-> IF i \in Phys THEN Hardware[i] ELSE NoIndex]
    BY DEF Init
  <2>2. \A i \in Ifs : Present(Boot, i) <=> i \in Phys
    BY DEF Present, Boot, Exists
  <2> QED
    BY <2>1, <2>2, Indexes, BackendAssumption DEF IndexesHold
<1>2. Found
  BY DEF Init, Found, InterfaceSteps, SettingSteps
<1> QED
  BY <1>1, <1>2

\* set_flags and set_mtu touch another interface only if an index has changed hands
\* since it was looked up, whatever else happens between their two commands.
THEOREM StraysOnlyOnReuseAlways == Spec => StraysOnlyOnReuse
<1> DEFINE IInv == TypeOK /\ Shape /\ IndexesHold /\ Found
<1>1. Init => IInv
  BY ShapeInit, IndexesInit
<1>2. IInv /\ [Next]_vars => IInv'
  BY ShapeInductive, IndexesInductive, FoundInductive
<1>3. IInv /\ [Next]_vars =>
        [(pc \in {"set-flags", "set-mtu"} /\ pc' \in {"mtu", "add"} /\ ~moved)
           => \A f \in (vpp \ vpp') \cup (vpp' \ vpp) : f.of = cur]_vars
  BY SettingLocal
<1> QED
  BY <1>1, <1>2, <1>3, PTL DEF Spec, StraysOnlyOnReuse

-----------------------------------------------------------------------------
(* Requests nobody disturbs.                                               *)

\* The command of a create makes the one interface asked for, if one is.
AskedAlone ==
  pc \in {"connect", "command"} /\ rpc \in Creating /\ asked \notin {None, Bond0}
    => command.facts = {Exists(asked)}

\* The interface of the reply is new, and the one asked for.
NewlyMade ==
  /\ made \in Ifs /\ Present(vpp, made) /\ ~Present(before, made)
  /\ asked \notin {None, Bond0} => made = asked

QuietRequest ==
  /\ pc # "idle" /\ quiet => vppUp
  /\ pc \in {"connect", "command"} /\ quiet => before = vpp
  /\ pc \in {"index", "reply"} /\ quiet /\ rpc \in Creating /\ outcome = "true"
       => \/ vpp = before
          \/ NewlyMade /\ (pc = "reply" => madeIndex = index[made])

\* What is found as the MAC address of an interface VPP has.
MacOf(i) == IF i \in Subs THEN "zero" ELSE "read"

\* While state data is read its rows are VPP's interfaces.
RowsMatch ==
  /\ \A r \in rows : /\ Present(vpp, r.name) /\ r.index = index[r.name]
                     /\ r.up = (Up(r.name) \in vpp) /\ r.mac \in {"unread", MacOf(r.name)}
  /\ \A i \in Ifs : Present(vpp, i) => \E r \in rows : r.name = i

QuietShow ==
  /\ pc \in {"macs", "shown"} /\ quiet => RowsMatch
  /\ pc = "shown" /\ quiet => \A r \in rows : r.mac = MacOf(r.name)

\* A request is asked alone because its handler says so.
LEMMA AskedAloneInductive ==
  ASSUME AskedAlone, [Next]_vars
  PROVE  AskedAlone'
<1>1. CASE UNCHANGED <<pc, request>>
  BY <1>1 DEF request, AskedAlone
<1>2. CASE pc' \notin {"connect", "command"}
  BY <1>2 DEF AskedAlone
<1>3. CASE Rpc
  <2>1. CASE RpcCreateLoopback
    BY <2>1 DEF RpcCreateLoopback, Request, AskedAlone
  <2>2. CASE \E b \in Bonds \cup {None} : RpcCreateBond(b)
    BY <2>2 DEF RpcCreateBond, Request, CreateBond, Add, Named, AskedAlone
  <2>3. CASE \E i \in Ifs : RpcCreateSubif(i)
    BY <2>3 DEF RpcCreateSubif, Request, CreateSubif, Add, Named, AskedAlone
  <2>4. CASE rpc' \notin Creating
    BY <2>4 DEF AskedAlone
  <2> QED
    BY <1>3, <2>1, <2>2, <2>3, <2>4
       DEF Rpc, RpcLcpSetNetns, RpcBondAddMember, RpcDeleteLoopback, RpcDeleteSubif,
           RpcDeleteBond, RpcBondDelMember, RpcLcpDelete, RpcLcpCreate, Request, Creating
<1>4. CASE ConnectForRpc
  BY <1>4 DEF ConnectForRpc, AskedAlone
<1> QED
  BY <1>1, <1>2, <1>3, <1>4
     DEF Next, Serve, Transaction, Statedata, BackendRestart, Done, RunCommand,
         IndexOfMade, Reply, ConnectForTransaction, DeleteAddress, NextInterface,
         LookupForFlags, SetFlags, LookupForMtu, SetMtu, Lookup, SetByIndex, AddAddress,
         EndTransaction, ConnectForState, Show, ReadMac, EndShow, SendState,
         Others, Meddle, VppCrash, VppStart, vars

\* What a quiet step of a request has behind it.
LEMMA QuietStep ==
  ASSUME TypeOK, Observe, quiet', pc' # "idle"
  PROVE  \/ pc = "idle" /\ vppUp /\ before' = vpp
         \/ /\ pc # "idle" /\ quiet /\ before' = before
            /\ dataplane' = dataplane \/ <<pc, request, work, rows>>' # <<pc, request, work, rows>>
BY DEF Observe

\* The others keep quiet if they do nothing.
LEMMA OthersDisturb ==
  ASSUME TypeOK, Observe, Others, quiet', pc' # "idle"
  PROVE  quiet /\ UNCHANGED <<dataplane, pc, request, work, rows, before>>
<1>1. UNCHANGED <<pc, request, work, rows>>
  BY DEF Others, Meddle, VppCrash, VppStart
<1>2. pc # "idle"
  BY <1>1
<1> QED
  BY <1>1, <1>2, QuietStep

\* VPP is up, and what it has is known, until the reply.
LEMMA QuietRequestInductive ==
  ASSUME TypeOK, Shape, IndexesHold, AskedAlone, QuietRequest, [Next]_vars
  PROVE  QuietRequest'
<1>1. CASE UNCHANGED vars
  BY <1>1 DEF vars, dataplane, request, QuietRequest, NewlyMade, Present
<1>2. CASE Next /\ (~quiet' \/ pc' = "idle")
  BY <1>2 DEF QuietRequest
<1>3. CASE Next /\ quiet' /\ pc' # "idle"
  <2>1. Observe
    BY <1>3 DEF Next
  <2>2. CASE Others
    BY <1>3, <2>1, <2>2, OthersDisturb
       DEF dataplane, request, QuietRequest, NewlyMade, Present
  <2>3. CASE ~Others
    <3>1. vppUp' = vppUp
      BY <1>3, <2>3
         DEF Next, Serve, Rpc, RpcCreateLoopback, RpcLcpSetNetns, RpcCreateBond,
             RpcBondAddMember, RpcDeleteLoopback, RpcCreateSubif, RpcDeleteSubif,
             RpcDeleteBond, RpcBondDelMember, RpcLcpDelete, RpcLcpCreate, Request,
             Transaction, Statedata, BackendRestart, RunCommand, ConnectForRpc,
             IndexOfMade, Reply, ConnectForTransaction, DeleteAddress, NextInterface,
             LookupForFlags, SetFlags, LookupForMtu, SetMtu, Lookup, SetByIndex,
             AddAddress, EndTransaction, ConnectForState, Show, ReadMac, EndShow,
             SendState, dataplane
    <3>2. vppUp /\ vppUp'
      BY <1>3, <2>1, <3>1, QuietStep DEF QuietRequest
    <3>3. CASE Rpc
      <4>1. pc = "idle" /\ pc' \in {"connect", "command"} /\ UNCHANGED vpp
        BY <3>3 DEF Rpc, RpcCreateLoopback, RpcLcpSetNetns, RpcCreateBond,
             RpcBondAddMember, RpcDeleteLoopback, RpcCreateSubif, RpcDeleteSubif,
             RpcDeleteBond, RpcBondDelMember, RpcLcpDelete, RpcLcpCreate, Request, dataplane
      <4> QED
        BY <1>3, <2>1, <3>2, <4>1, QuietStep DEF QuietRequest
    <3>4. CASE ConnectForRpc
      BY <1>3, <2>1, <3>2, <3>4, QuietStep DEF ConnectForRpc, dataplane, QuietRequest
    <3>5. CASE RunCommand
      <4>1. before' = before /\ before = vpp /\ pc' \in {"index", "reply"}
        BY <1>3, <2>1, <3>5, QuietStep DEF RunCommand, QuietRequest
      <4>2. CASE UNCHANGED dataplane
        BY <3>2, <4>1, <4>2 DEF dataplane, QuietRequest
      <4>3. CASE /\ \E v \in Obeyed(vpp, command) : Becomes(v)
                 /\ made' = IF rpc \notin Creating THEN None
                            ELSE CHOOSE i \in Ifs : Present(vpp', i) /\ ~Present(vpp, i)
        <5>0. rpc' = rpc /\ asked' = asked /\ pc = "command"
          BY <3>5 DEF RunCommand
        <5>1. CASE rpc \notin Creating
          BY <3>2, <4>1, <5>0, <5>1 DEF QuietRequest
        <5>2. CASE rpc \in Creating
          <6>1. vpp' \in Obeyed(vpp, command)
            BY <4>3 DEF Becomes
          <6>2. command.do = "add" /\ \A f \in command.facts : f.kind = "exists"
            BY <5>2 DEF Shape
          <6>3. \E i \in Ifs : Present(vpp', i) /\ ~Present(vpp, i)
            BY <6>1, <6>2, MadeExists DEF TypeOK
          <6>4. made' \in Ifs /\ Present(vpp', made') /\ ~Present(vpp, made')
            BY <4>3, <5>2, <6>3
          <6>5. ASSUME asked \notin {None, Bond0} PROVE made' = asked
            <7>1. command.facts = {Exists(asked)}
              BY <5>0, <5>2, <6>5 DEF AskedAlone
            <7>2. vpp' = Establish(vpp, Exists(asked))
              BY <6>1, <6>2, <7>1 DEF Obeyed
            <7>3. Exists(made') \in vpp' \ vpp
              BY <6>4 DEF Present
            <7>4. Exists(made').of = Exists(asked).of
              BY <7>2, <7>3, EstablishLocal
            <7> QED
              BY <7>4 DEF Exists
          <6>6. pc' = "reply" => outcome' # "true"
            BY <3>5, <5>2 DEF RunCommand
          <6>7. NewlyMade'
            BY <4>1, <5>0, <6>4, <6>5 DEF NewlyMade, Present
          <6> QED
            BY <3>2, <4>1, <6>6, <6>7 DEF QuietRequest
        <5> QED
          BY <5>1, <5>2
      <4> QED
        BY <3>5, <4>2, <4>3 DEF RunCommand
    <3>6. CASE IndexOfMade
      <4>1. before' = before /\ quiet /\ pc = "index" /\ pc' = "reply"
            /\ UNCHANGED <<vpp, index, rpc, asked, outcome, made>>
        BY <1>3, <2>1, <3>6, QuietStep DEF IndexOfMade, dataplane
      <4>2. NewlyMade => madeIndex' = index[made]
        BY <3>2, <3>6 DEF IndexOfMade, NameToIndex, List, NewlyMade
      <4> QED
        BY <3>2, <4>1, <4>2 DEF QuietRequest, NewlyMade, Present
    <3>7. CASE pc' \notin RpcSteps
      BY <3>2, <3>7 DEF QuietRequest, RpcSteps
    <3> QED
      BY <1>3, <2>3, <3>3, <3>4, <3>5, <3>6, <3>7
         DEF Next, Serve, Transaction, Statedata, BackendRestart, Done, Reply,
             ConnectForTransaction, DeleteAddress, NextInterface,
             LookupForFlags, SetFlags, LookupForMtu, SetMtu, Lookup, SetByIndex,
             AddAddress, EndTransaction, ConnectForState, Show, ReadMac, EndShow,
             SendState, RpcSteps
  <2> QED
    BY <2>2, <2>3
<1> QED
  BY <1>1, <1>2, <1>3

\* The rows are VPP's interfaces as long as nobody changes them.
LEMMA QuietShowInductive ==
  ASSUME TypeOK, QuietRequest, QuietShow, [Next]_vars
  PROVE  QuietShow'
<1>1. CASE UNCHANGED vars
  BY <1>1 DEF vars, dataplane, QuietShow, RowsMatch, Present
<1>2. CASE Next /\ (~quiet' \/ pc' \notin {"macs", "shown"})
  BY <1>2 DEF QuietShow
<1>3. CASE Next /\ quiet' /\ pc' \in {"macs", "shown"}
  <2>1. Observe
    BY <1>3 DEF Next
  <2>2. CASE Others
    BY <1>3, <2>1, <2>2, OthersDisturb DEF dataplane, QuietShow, RowsMatch, Present
  <2>3. CASE Show
    <3>1. vppUp /\ pc' = "macs"
      BY <1>3, <2>1, <2>3, QuietStep DEF Show, QuietRequest
    <3>2. List = {i \in Ifs : Present(vpp, i)}
      BY <3>1 DEF List
    <3>3. UNCHANGED <<vpp, index>>
      BY <2>3 DEF Show, dataplane
    <3>4. rows' = {[name |-> i, index |-> index[i], up |-> Up(i) \in vpp, mac |-> "unread"] :
                     i \in List}
      BY <2>3 DEF Show
    <3> DEFINE row(i) == [name |-> i, index |-> index[i], up |-> Up(i) \in vpp,
                          mac |-> "unread"]
    <3>5. \A i : /\ row(i).name = i /\ row(i).index = index[i]
                 /\ row(i).up = (Up(i) \in vpp) /\ row(i).mac = "unread"
      OBVIOUS
    <3>6. rows' = {row(i) : i \in List}
      BY <3>4
    <3> HIDE DEF row
    <3>7. \A r \in rows' : \E i \in List : r = row(i)
      BY <3>6
    <3>8. \A i \in List : row(i) \in rows'
      BY <3>6
    <3>9. RowsMatch'
      BY <3>2, <3>3, <3>5, <3>7, <3>8 DEF RowsMatch, Present
    <3> QED
      BY <3>1, <3>9 DEF QuietShow
  <2>4. CASE ReadMac
    <3>1. /\ pc = "macs" /\ pc' = "macs" /\ quiet /\ vppUp /\ UNCHANGED <<vpp, index>>
      BY <1>3, <2>1, <2>4, QuietStep DEF ReadMac, QuietRequest, dataplane
    <3>2. RowsMatch
      BY <3>1 DEF QuietShow
    <3>3. PICK r \in rows :
            rows' = (rows \ {r}) \cup
                    {[r EXCEPT !.mac = IF r.name \in List \ Subs THEN "read" ELSE "zero"]}
      BY <2>4 DEF ReadMac
    <3>4. r \in Row /\ r.name \in List
      BY <3>1, <3>2, <3>3 DEF TypeOK, Row, RowsMatch, List
    <3> DEFINE q == [r EXCEPT !.mac = MacOf(r.name)]
    <3>5. q.name = r.name /\ q.index = r.index /\ q.up = r.up /\ q.mac = MacOf(q.name)
      BY <3>4 DEF Row
    <3>6. rows' = (rows \ {r}) \cup {q}
      BY <3>3, <3>4 DEF MacOf
    <3> HIDE DEF q
    <3>7. RowsMatch'
      BY <3>1, <3>2, <3>5, <3>6 DEF RowsMatch, Present
    <3> QED
      BY <3>1, <3>7 DEF QuietShow
  <2>5. CASE EndShow
    <3>1. quiet /\ RowsMatch /\ UNCHANGED <<vpp, index, rows>>
      BY <1>3, <2>1, <2>5, QuietStep DEF EndShow, QuietShow, dataplane
    <3>2. \A r \in rows : r.mac = MacOf(r.name)
      BY <2>5, <3>1 DEF EndShow, RowsMatch
    <3> QED
      BY <3>1, <3>2 DEF QuietShow, RowsMatch, Present
  <2>6. CASE ConnectForState
    <3>1. vppUp
      BY <1>3, <2>1, <2>6, QuietStep DEF ConnectForState, QuietRequest
    <3> QED
      BY <1>3, <2>6, <3>1 DEF ConnectForState
  <2> QED
    BY <1>3, <2>2, <2>3, <2>4, <2>5, <2>6
       DEF Next, Serve, Rpc, RpcCreateLoopback, RpcLcpSetNetns, RpcCreateBond,
           RpcBondAddMember, RpcDeleteLoopback, RpcCreateSubif, RpcDeleteSubif,
           RpcDeleteBond, RpcBondDelMember, RpcLcpDelete, RpcLcpCreate, Request,
           Transaction, Statedata, BackendRestart, Done, RunCommand, ConnectForRpc,
           IndexOfMade, Reply, ConnectForTransaction, DeleteAddress, NextInterface,
           LookupForFlags, SetFlags, LookupForMtu, SetMtu, Lookup, SetByIndex,
           AddAddress, EndTransaction, SendState
<1> QED
  BY <1>1, <1>2, <1>3

\* All of it together.
Undisturbed ==
  TypeOK /\ Shape /\ IndexesHold /\ Found /\ AskedAlone /\ QuietRequest /\ QuietShow

\* It holds at the start ...
LEMMA UndisturbedInit == Init => Undisturbed
<1> SUFFICES ASSUME Init PROVE Undisturbed
  OBVIOUS
<1>1. TypeOK /\ Shape
  BY ShapeInit
<1>2. IndexesHold /\ Found
  BY IndexesInit
<1>3. AskedAlone /\ QuietRequest /\ QuietShow
  BY DEF Init, AskedAlone, QuietRequest, QuietShow
<1> QED
  BY <1>1, <1>2, <1>3 DEF Undisturbed

\* ... and ever after.
LEMMA UndisturbedInductive == Undisturbed /\ [Next]_vars => Undisturbed'
BY ShapeInductive, IndexesInductive, FoundInductive, AskedAloneInductive,
   QuietRequestInductive, QuietShowInductive DEF Undisturbed

\* If nobody interferes, a successful create replies with the new interface and its
\* index, unless VPP refused it with words the handler does not look for.
THEOREM CreatesAreExact == Spec => []QuietCreateIsExact
<1>1. ASSUME Undisturbed PROVE QuietCreateIsExact
  <2> SUFFICES ASSUME pc = "reply", quiet, rpc \in Creating, outcome = "true", vpp # before
               PROVE  /\ made # None /\ madeIndex # NoIndex /\ madeIndex = index[made]
                      /\ ~Present(before, made)
                      /\ asked \notin {None, Bond0} => made = asked
    BY DEF QuietCreateIsExact
  <2>1. NewlyMade /\ madeIndex = index[made]
    BY <1>1 DEF Undisturbed, QuietRequest
  <2>2. index[made] # NoIndex /\ made # None
    BY <1>1, <2>1, NamesAssumption DEF Undisturbed, IndexesHold, NewlyMade, Ifs
  <2> QED
    BY <2>1, <2>2 DEF NewlyMade
<1> QED
  BY <1>1, UndisturbedInit, UndisturbedInductive, PTL DEF Spec

\* If nobody interferes, state data is VPP's list of interfaces, each with the MAC
\* address VPP has for it and a sub-interface with zeros.
THEOREM StateDataAlwaysWhole == Spec => []StateDataIsWhole
<1>1. ASSUME Undisturbed PROVE StateDataIsWhole
  <2> SUFFICES ASSUME pc = "shown", quiet
               PROVE  rows = {[name |-> i, index |-> index[i], up |-> Up(i) \in vpp,
                               mac |-> MacOf(i)] : i \in {j \in Ifs : Present(vpp, j)}}
    BY DEF StateDataIsWhole, MacOf
  <2> DEFINE row(i) == [name |-> i, index |-> index[i], up |-> Up(i) \in vpp, mac |-> MacOf(i)]
  <2>1. RowsMatch /\ (\A r \in rows : r.mac = MacOf(r.name)) /\ rows \in SUBSET Row
    BY <1>1 DEF Undisturbed, QuietShow, TypeOK
  <2>2. ASSUME NEW r \in rows PROVE r = row(r.name) /\ r.name \in Ifs /\ Present(vpp, r.name)
    <3>1. /\ r \in Row /\ r.index = index[r.name] /\ r.up = (Up(r.name) \in vpp)
          /\ r.mac = MacOf(r.name) /\ Present(vpp, r.name)
      BY <2>1 DEF RowsMatch
    <3> QED
      BY <3>1 DEF Row
  <2>3. ASSUME NEW i \in Ifs, Present(vpp, i) PROVE row(i) \in rows
    <3>1. PICK r \in rows : r.name = i
      BY <2>1, <2>3 DEF RowsMatch
    <3> QED
      BY <2>2, <3>1
  <2> HIDE DEF row
  <2>4. rows = {row(i) : i \in {j \in Ifs : Present(vpp, j)}}
    BY <2>2, <2>3
  <2> QED
    BY <2>4 DEF row
<1> QED
  BY <1>1, UndisturbedInit, UndisturbedInductive, PTL DEF Spec

-----------------------------------------------------------------------------
(* Transactions nobody disturbs.                                           *)

TransactionSteps == {"delete", "next"} \cup InterfaceSteps

\* What a fact of the configuration VPP had becomes while it waits its turn, and
\* in the end.
Spared(f) == f \in before /\ f \notin DeletedAddresses(running, target)
Final(f) == f \in Transact(before, running, target)

\* The interfaces VPP has, and those ahead.
Ahead ==
  /\ \A i \in Ifs : Present(vpp, i) <=> Present(before, i)
  /\ left \subseteq {f.of : f \in target}
  /\ \A f \in Fact : f.of # cur => (f \in vpp <=> IF f.of \in left THEN Spared(f) ELSE Final(f))

\* The interface in hand.
InHand ==
  /\ cur \notin left /\ Present(before, cur) /\ Exists(cur) \in target
  /\ index[cur] = idx
  /\ pc \in SettingSteps => byIndex = cur
  /\ pc = "set-flags" => FlagsGiven
  /\ pc = "set-mtu" => MtuGiven(cur) # {} /\ todo = Addresses
  /\ pc \in {"flags", "set-flags"} =>
       \A f \in Fact : f.of = cur => (f \in vpp <=> Spared(f))
  /\ pc \in {"mtu", "set-mtu"} =>
       \A f \in Fact : f.of = cur => (f \in vpp <=> IF f.kind = "up" THEN Final(f) ELSE Spared(f))
  /\ pc = "add" =>
       \A f \in Fact : f.of = cur => (f \in vpp \/ f \in todo <=> Final(f))
  /\ pc = "add" => todo \subseteq Addresses

QuietTransaction ==
  /\ pc \notin InterfaceSteps => cur = None
  /\ quiet /\ pc \in {"begin"} \cup TransactionSteps => target \in Targets
  /\ quiet /\ pc = "begin" =>
       before = vpp /\ todo = DeletedAddresses(running, target)
  /\ quiet /\ pc = "delete" => todo \subseteq DeletedAddresses(running, target)
  /\ quiet /\ pc = "delete" =>
       \A f \in Fact : f \in vpp <=>
         f \in before /\ (f \in DeletedAddresses(running, target) => f \in todo)
  /\ quiet /\ pc \in {"next"} \cup InterfaceSteps => Ahead
  /\ quiet /\ pc \in InterfaceSteps => InHand

\* The MTUs of a transaction, interface by interface.
LEMMA TargetMtusOf ==
  ASSUME TypeOK, NEW v, NEW i \in Ifs
  PROVE  \A g : g \in TargetMtus(v, target) /\ g.of = i <=>
                  /\ i \in Known(v, target)
                  /\ \E m \in MtuGiven(i) : g = Mtu(i, m)
<1>1. \A f \in Of(target, {"mtu"}) : f = Mtu(f.of, f.val)
  BY DEF TypeOK, Of, Fact, Mtu
<1>2. \A m : Mtu(i, m).of = i /\ Mtu(i, m).val = m
  BY DEF Mtu
<1> DEFINE free == \A f \in Of(target, {"mtu"}) : f.of # i
<1>3. ASSUME NEW g PROVE g \in TargetMtus(v, target) /\ g.of = i <=>
        \/ g \in Of(target, {"mtu"}) /\ g.of = i /\ i \in Known(v, target)
        \/ DefaultsFilled /\ free /\ i \in Known(v, target) /\ g = Mtu(i, YangMtu)
  BY <1>2 DEF TargetMtus, Mtu
<1>4. ASSUME NEW m PROVE m \in MtuGiven(i) <=>
        \/ \E f \in Of(target, {"mtu"}) : f.of = i /\ f.val = m
        \/ DefaultsFilled /\ free /\ m = YangMtu
  BY DEF MtuGiven
<1> HIDE DEF free
<1> QED
  BY <1>1, <1>2, <1>3, <1>4

\* An interface of the target is known if VPP has it.
LEMMA KnownIs ==
  ASSUME NEW v, NEW new \in SUBSET Fact, NEW i
  PROVE  i \in Known(v, new) <=> Exists(i) \in new /\ Present(v, i)
<1>1. i \in Known(v, new) <=> \E g \in new : g.kind = "exists" /\ g \in v /\ g.of = i
  BY DEF Known
<1>2. \A g \in new : g.kind = "exists" => g = Exists(g.of)
  BY DEF Fact, Exists
<1>3. Exists(i).kind = "exists" /\ Exists(i).of = i
  BY DEF Exists
<1> QED
  BY <1>1, <1>2, <1>3 DEF Present

\* What a transaction makes of one fact.
LEMMA TransactOf ==
  ASSUME TypeOK, NEW v \in SUBSET Fact, NEW f \in Fact
  PROVE  f \in Transact(v, running, target) <=>
           IF Exists(f.of) \in target /\ Present(v, f.of)
           THEN /\ f.kind = "up" => f \in target \/ (f \in v /\ ~DefaultsFilled)
                /\ f.kind = "addr" => \/ f \in target
                                      \/ f \in v /\ f \notin DeletedAddresses(running, target)
                /\ f.kind = "mtu" => IF MtuGiven(f.of) # {} THEN f.val \in MtuGiven(f.of)
                                     ELSE f \in v
                /\ f.kind \notin {"up", "addr", "mtu"} => f \in v
           ELSE f \in v /\ f \notin DeletedAddresses(running, target)
<1> DEFINE known == Exists(f.of) \in target /\ Present(v, f.of)
           mtus  == TargetMtus(v, target)
           del   == DeletedAddresses(running, target)
<1>1. target \in SUBSET Fact /\ f.of \in Ifs
  BY FactOf DEF TypeOK
<1>2. f.of \in Known(v, target) <=> known
  BY <1>1, KnownIs
<1>3. f \in ShutDown(v, target) <=>
        DefaultsFilled /\ known /\ f = Up(f.of) /\ f \notin target
  <2>1. \A i : Up(i).of = i
    BY DEF Up
  <2> QED
    BY <1>2, <2>1 DEF ShutDown
<1>4. f.kind = "up" <=> f = Up(f.of)
  BY DEF Fact, Up
<1>5. f \in del => f.kind = "addr"
  BY DEF DeletedAddresses, Of
<1>6. \A g : g \in mtus /\ g.of = f.of <=> known /\ \E m \in MtuGiven(f.of) : g = Mtu(f.of, m)
  BY <1>1, <1>2, TargetMtusOf
<1>7. (\E g \in mtus : g.of = f.of) <=> known /\ MtuGiven(f.of) # {}
  <2>1. \A m : Mtu(f.of, m).of = f.of
    BY DEF Mtu
  <2> QED
    BY <1>6, <2>1
<1>8. f \in mtus <=> known /\ f.kind = "mtu" /\ f.val \in MtuGiven(f.of)
  <2>1. \A m : f = Mtu(f.of, m) <=> f.kind = "mtu" /\ f.val = m
    BY DEF Fact, Mtu
  <2> QED
    BY <1>6, <2>1
<1>9. f \in Transact(v, running, target) <=>
        \/ /\ f \in v /\ f \notin del /\ f \notin ShutDown(v, target)
           /\ f.kind = "mtu" => ~ \E g \in mtus : g.of = f.of
        \/ f \in mtus
        \/ f \in target /\ f.kind \in {"up", "addr"} /\ f.of \in Known(v, target)
  BY DEF Transact, Of
<1> HIDE DEF known, mtus, del
<1>10. f \in Transact(v, running, target) <=>
        \/ /\ f \in v /\ f \notin del
           /\ ~(DefaultsFilled /\ known /\ f.kind = "up" /\ f \notin target)
           /\ f.kind = "mtu" => ~(known /\ MtuGiven(f.of) # {})
        \/ known /\ f.kind = "mtu" /\ f.val \in MtuGiven(f.of)
        \/ f \in target /\ f.kind \in {"up", "addr"} /\ known
  BY <1>2, <1>3, <1>4, <1>7, <1>8, <1>9
<1>11. CASE known
  BY <1>5, <1>10, <1>11 DEF known, del
<1>12. CASE ~known
  BY <1>10, <1>12 DEF known, del
<1> QED
  BY <1>11, <1>12

\* A target is a list of interfaces, with at most one MTU to set for each.
LEMMA OneMtu ==
  ASSUME target \in Targets, NEW i, NEW m \in MtuGiven(i), NEW n \in MtuGiven(i)
  PROVE  m = n
BY TargetsAssumption DEF MtuGiven, Of

LEMMA ListedExist ==
  ASSUME target \in Targets, NEW i \in {f.of : f \in target}
  PROVE  Exists(i) \in target
BY TargetsAssumption

\* The index of an interface that stays stays.
LEMMA RunKeepsIndex ==
  ASSUME TypeOK, vppUp, NEW v, Run(v), NEW i \in Ifs, Present(v, i), index[i] # NoIndex
  PROVE  vpp' = v /\ index'[i] = index[i]
BY DEF Run, Becomes

\* Which facts are there after one is made true.
LEMMA EstablishIs ==
  ASSUME NEW v \in SUBSET Fact, NEW f \in Fact, Accepts(v, f), NEW g
  PROVE  g \in Establish(v, f) <=>
           g = f \/ (g \in v /\ ~(f.kind = "mtu" /\ g.kind = "mtu" /\ g.of = f.of))
BY DEF Establish, Superseded

\* Making a fact of a present interface true is accepted, and leaves the others.
LEMMA EstablishPresent ==
  ASSUME NEW v \in SUBSET Fact, NEW f \in Fact, f.kind \in {"up", "addr", "mtu"},
         Present(v, f.of)
  PROVE  /\ \A g : g \in Establish(v, f) <=>
               g = f \/ (g \in v /\ ~(f.kind = "mtu" /\ g.kind = "mtu" /\ g.of = f.of))
         /\ \A i : Present(Establish(v, f), i) <=> Present(v, i)
<1>1. Accepts(v, f)
  BY DEF Accepts
<1>2. \A g : g \in Establish(v, f) <=>
               g = f \/ (g \in v /\ ~(f.kind = "mtu" /\ g.kind = "mtu" /\ g.of = f.of))
  BY <1>1, EstablishIs
<1>3. \A i : Exists(i) # f /\ Exists(i).kind # "mtu"
  BY DEF Exists
<1> QED
  BY <1>2, <1>3 DEF Present

\* A transaction begins with what VPP has.
LEMMA TransactionStarts ==
  ASSUME TypeOK, QuietTransaction, Observe,
         (\E t \in Targets : Transaction(t)) \/ ConnectForTransaction
  PROVE  QuietTransaction'
<1>1. CASE \E t \in Targets : Transaction(t)
  <2>1. /\ target' \in Targets /\ todo' = DeletedAddresses(running, target')
        /\ pc = "idle" /\ pc' \in {"begin", "delete"} /\ UNCHANGED <<vpp, running, cur>>
    BY <1>1 DEF Transaction, dataplane
  <2>2. cur' = None
    BY <2>1 DEF QuietTransaction, InterfaceSteps
  <2>3. quiet' => before' = vpp
    BY <2>1 DEF Observe
  <2> QED
    BY <2>1, <2>2, <2>3 DEF QuietTransaction, InterfaceSteps, TransactionSteps
<1>2. CASE ConnectForTransaction
  <2>1. CASE Done
    BY <2>1 DEF Done, QuietTransaction, InterfaceSteps, TransactionSteps
  <2>2. CASE pc' = "delete" /\ UNCHANGED work
    <3>1. pc = "begin" /\ UNCHANGED <<vpp, running, target, todo, cur>>
      BY <1>2, <2>2 DEF ConnectForTransaction, dataplane, work
    <3>2. cur' = None
      BY <3>1 DEF QuietTransaction, InterfaceSteps
    <3>3. quiet' => quiet /\ before' = before
      BY <2>2, <3>1 DEF Observe
    <3> QED
      BY <2>2, <3>1, <3>2, <3>3 DEF QuietTransaction, InterfaceSteps, TransactionSteps
  <2> QED
    BY <1>2, <2>1, <2>2 DEF ConnectForTransaction
<1> QED
  BY <1>1, <1>2

\* The addresses go one by one; when they are gone all interfaces are ahead.
LEMMA DeleteAddressAdds ==
  ASSUME TypeOK, QuietTransaction, vppUp, quiet, before' = before, DeleteAddress
  PROVE  QuietTransaction'
<1>1. /\ pc = "delete" /\ pc' \in {"delete", "next"}
      /\ UNCHANGED <<running, target, cur>>
  BY DEF DeleteAddress
<1>2. cur = None /\ target \in Targets
  BY <1>1 DEF QuietTransaction, InterfaceSteps, TransactionSteps
<1>3. \A f \in Fact : f \in vpp <=>
         f \in before /\ (f \in DeletedAddresses(running, target) => f \in todo)
  BY <1>1 DEF QuietTransaction
<1>4. CASE todo = {}
  <2>1. pc' = "next" /\ left' = {f.of : f \in target} /\ UNCHANGED vpp
    BY <1>4 DEF DeleteAddress, dataplane
  <2>2. \A f \in Fact : f \in vpp <=> Spared(f)
    BY <1>3, <1>4 DEF Spared
  <2>3. \A i \in Ifs : Present(vpp, i) <=> Present(before, i)
    <3>1. \A i \in Ifs : Exists(i) \in Fact
      BY FactConstructors
    <3>2. \A i : Exists(i) \notin DeletedAddresses(running, target)
      BY DEF Exists, DeletedAddresses, Of
    <3> QED
      BY <2>2, <3>1, <3>2 DEF Spared, Present
  <2>4. ASSUME NEW f \in Fact, f.of \notin left' PROVE f \in vpp <=> Final(f)
    <3>1. Exists(f.of) \notin target
      <4>1. Exists(f.of).of = f.of
        BY DEF Exists
      <4> QED
        BY <2>1, <2>4, <4>1
    <3>2. f \in Transact(before, running, target) <=> Spared(f)
      BY <3>1, TransactOf DEF TypeOK, Spared
    <3> QED
      BY <2>2, <3>2 DEF Final
  <2>5. Ahead'
    <3>1. \A f \in Fact : f \in vpp <=> IF f.of \in left' THEN Spared(f) ELSE Final(f)
      BY <2>2, <2>4
    <3>2. \A f : (Spared(f))' <=> Spared(f)
      BY <1>1 DEF Spared
    <3>3. \A f : (Final(f))' <=> Final(f)
      BY <1>1 DEF Final
    <3>4. vpp' = vpp /\ before' = before /\ left' \subseteq {f.of : f \in target'}
      BY <1>1, <2>1
    <3> QED
      BY <2>3, <3>1, <3>2, <3>3, <3>4 DEF Ahead, Present
  <2> QED
    BY <1>1, <1>2, <2>1, <2>5 DEF QuietTransaction, InterfaceSteps, TransactionSteps
<1>5. CASE todo # {}
  <2>1. PICK d \in todo : Run(vpp \ {d}) /\ todo' = todo \ {d}
    BY <1>5 DEF DeleteAddress
  <2>2. vpp' = vpp \ {d} /\ pc' = "delete"
    BY <1>1, <1>5, <2>1 DEF Run, Becomes, DeleteAddress
  <2>3. todo \subseteq DeletedAddresses(running, target)
    BY <1>1 DEF QuietTransaction
  <2>4. ASSUME NEW f \in Fact
        PROVE  f \in vpp' <=>
                 f \in before /\ (f \in DeletedAddresses(running, target) => f \in todo')
    BY <1>3, <2>1, <2>2, <2>3
  <2>5. (todo \subseteq DeletedAddresses(running, target))'
    BY <1>1, <2>1, <2>3
  <2>6. (\A f \in Fact : f \in vpp <=>
           f \in before /\ (f \in DeletedAddresses(running, target) => f \in todo))'
    BY <1>1, <2>4
  <2> QED
    BY <1>1, <1>2, <2>2, <2>5, <2>6 DEF QuietTransaction, InterfaceSteps, TransactionSteps
<1> QED
  BY <1>4, <1>5

\* The next interface is the one in hand, and has not been touched; or it is not
\* there, and stays so.
LEMMA NextInterfaceTakes ==
  ASSUME TypeOK, IndexesHold, QuietTransaction, vppUp, quiet, before' = before, NextInterface
  PROVE  QuietTransaction'
<1>1. /\ pc = "next"
      /\ UNCHANGED <<vpp, index, running, target, todo, byIndex>>
  BY DEF NextInterface, dataplane
<1>2. cur = None /\ target \in Targets /\ Ahead
  BY <1>1 DEF QuietTransaction, InterfaceSteps, TransactionSteps
<1>3. PICK i \in left :
        /\ left' = left \ {i}
        /\ IF NameToIndex(i) = NoIndex THEN UNCHANGED <<pc, cur, idx>>
           ELSE pc' = "flags" /\ cur' = i /\ idx' = NameToIndex(i)
  BY DEF NextInterface
<1>4. i \in Ifs /\ Exists(i) \in target /\ i # None
  BY <1>2, <1>3, ListedExist, NamesAssumption DEF TypeOK, Ahead, Ifs
<1>5. Present(vpp, i) <=> NameToIndex(i) # NoIndex
  BY <1>4 DEF NameToIndex, List, IndexesHold
<1>6. \A f : (Spared(f))' <=> Spared(f)
  BY <1>1 DEF Spared
<1>7. \A f : (Final(f))' <=> Final(f)
  BY <1>1 DEF Final
<1>8. /\ \A j \in Ifs : Present(vpp, j) <=> Present(before, j)
      /\ left' \subseteq {f.of : f \in target}
      /\ \A f \in Fact : f \in vpp <=> IF f.of \in left THEN Spared(f) ELSE Final(f)
  <2>1. \A f \in Fact : f.of # None
    BY FactOf, NamesAssumption DEF Ifs
  <2> QED
    BY <1>2, <1>3, <2>1 DEF Ahead
<1>9. CASE NameToIndex(i) = NoIndex
  <2>1. \A f \in Fact : f.of = i => (Spared(f) <=> Final(f))
    <3>1. ~Present(before, i)
      BY <1>4, <1>5, <1>8, <1>9
    <3>2. ASSUME NEW f \in Fact, f.of = i
          PROVE  f \in Transact(before, running, target) <=> Spared(f)
      BY <3>1, <3>2, TransactOf DEF TypeOK, Spared
    <3> QED
      BY <3>2 DEF Final
  <2>2. Ahead'
    BY <1>1, <1>3, <1>6, <1>7, <1>8, <2>1 DEF Ahead, Present
  <2>3. pc' = "next" /\ cur' = None
    BY <1>1, <1>2, <1>3, <1>9
  <2> QED
    BY <1>1, <1>2, <2>2, <2>3 DEF QuietTransaction, InterfaceSteps, TransactionSteps
<1>10. CASE NameToIndex(i) # NoIndex
  <2>1. pc' = "flags" /\ cur' = i /\ idx' = index[i] /\ Present(vpp, i)
    BY <1>3, <1>4, <1>5, <1>10 DEF NameToIndex, List
  <2>2. Ahead'
    BY <1>1, <1>3, <1>6, <1>7, <1>8, <2>1 DEF Ahead, Present
  <2>3. \A f \in Fact : f.of = i => (f \in vpp <=> Spared(f))
    BY <1>3, <1>8
  <2>4. InHand'
    <3>1. cur' \notin left' /\ Exists(cur') \in target' /\ index'[cur'] = idx'
      BY <1>1, <1>3, <1>4, <2>1
    <3>2. (Present(before, cur))'
      BY <1>4, <1>8, <2>1 DEF Present
    <3>3. (\A f \in Fact : f.of = cur => (f \in vpp <=> Spared(f)))'
      BY <1>1, <1>6, <2>1, <2>3
    <3> QED
      BY <2>1, <3>1, <3>2, <3>3 DEF InHand, SettingSteps
  <2> QED
    BY <1>1, <1>2, <2>1, <2>2, <2>4 DEF QuietTransaction, InterfaceSteps, TransactionSteps
<1> QED
  BY <1>9, <1>10

\* What the interface in hand has in the end, by kind.
LEMMA FinalOf ==
  ASSUME TypeOK, Exists(cur) \in target, Present(before, cur), NEW f \in Fact, f.of = cur
  PROVE  /\ f.kind = "up" => (Final(f) <=> f \in target \/ (Spared(f) /\ ~DefaultsFilled))
         /\ f.kind = "mtu" => (Final(f) <=> IF MtuGiven(cur) # {} THEN f.val \in MtuGiven(cur)
                                            ELSE Spared(f))
         /\ f.kind = "addr" => (Final(f) <=> f \in target \/ Spared(f))
         /\ f.kind \notin {"up", "addr", "mtu"} => (Final(f) <=> Spared(f))
<1>1. f \in DeletedAddresses(running, target) => f.kind = "addr"
  BY DEF DeletedAddresses, Of
<1>2. before \in SUBSET Fact
  BY DEF TypeOK
<1> QED
  BY <1>1, <1>2, TransactOf DEF Final, Spared

\* A command for the interface in hand leaves the others alone.
LEMMA OnlyTheOneInHand ==
  ASSUME TypeOK, IndexesHold, Ahead, InHand, cur \in Ifs, vppUp,
         UNCHANGED <<before, running, target, left, cur, idx>>,
         NEW w, Run(w), \A g : g.of # cur => (g \in w <=> g \in vpp),
         Present(w, cur) <=> Present(vpp, cur)
  PROVE  /\ vpp' = w /\ Ahead'
         /\ cur' \notin left' /\ Present(before', cur') /\ Exists(cur') \in target'
         /\ index'[cur'] = idx'
<1>1. Present(vpp, cur) /\ index[cur] # NoIndex
  BY DEF Ahead, InHand, IndexesHold
<1>2. vpp' = w /\ index'[cur] = index[cur]
  BY <1>1, RunKeepsIndex
<1>3. \A i \in Ifs : Present(w, i) <=> Present(vpp, i)
  <2>1. \A i : Exists(i).of = i
    BY DEF Exists
  <2> QED
    BY <2>1 DEF Present
<1>4. \A f : (Spared(f))' <=> Spared(f)
  BY DEF Spared
<1>5. \A f : (Final(f))' <=> Final(f)
  BY DEF Final
<1>6. Ahead'
  BY <1>2, <1>3, <1>4, <1>5 DEF Ahead, Present
<1> QED
  BY <1>2, <1>6 DEF InHand

\* The name found again is that of the interface in hand.
LEMMA LookupFinds ==
  ASSUME TypeOK, Shape, IndexesHold, QuietTransaction, vppUp, quiet, before' = before,
         LookupForFlags \/ LookupForMtu
  PROVE  QuietTransaction'
<1>1. /\ pc \in {"flags", "mtu"} /\ pc \in InterfaceSteps /\ pc' \in InterfaceSteps
      /\ UNCHANGED <<vpp, index, running, target, left, cur, idx>>
  BY DEF LookupForFlags, LookupForMtu, Lookup, dataplane, InterfaceSteps
<1>2. Ahead /\ InHand /\ target \in Targets /\ cur \in Ifs /\ idx # NoIndex
  BY <1>1 DEF QuietTransaction, TransactionSteps, Shape
<1>3. NameOf(idx) = cur
  <2>1. index[cur] = idx
    BY <1>2 DEF InHand
  <2>2. NameOf(idx) # None
    <3>1. cur \in List
      BY <1>2, <2>1 DEF List, IndexesHold
    <3>2. None \notin List
      BY NamesAssumption DEF List, Ifs
    <3> QED
      BY <2>1, <3>1, <3>2 DEF NameOf
  <2> QED
    BY <1>2, <2>1, <2>2, NameOfIndex
<1>4. cur # None
  BY <1>2, NamesAssumption DEF Ifs
<1>5. \A f : (Spared(f))' <=> Spared(f)
  BY <1>1 DEF Spared
<1>6. \A f : (Final(f))' <=> Final(f)
  BY <1>1 DEF Final
<1>7. Ahead'
  BY <1>1, <1>2, <1>5, <1>6 DEF Ahead, Present
<1>8. /\ cur' \notin left' /\ (Present(before, cur))' /\ Exists(cur') \in target'
      /\ index'[cur'] = idx'
  BY <1>1, <1>2 DEF InHand, Present
<1>9. ASSUME NEW f \in Fact, f.of = cur
      PROVE  /\ f.kind = "up" => (Final(f) <=> f \in target \/ (Spared(f) /\ ~DefaultsFilled))
             /\ f.kind = "mtu" => (Final(f) <=> IF MtuGiven(cur) # {} THEN f.val \in MtuGiven(cur)
                                                ELSE Spared(f))
             /\ f.kind = "addr" => (Final(f) <=> f \in target \/ Spared(f))
             /\ f.kind \notin {"up", "addr", "mtu"} => (Final(f) <=> Spared(f))
  BY <1>2, <1>9, FinalOf DEF InHand
<1>10. CASE LookupForFlags
  <2>1. \A f \in Fact : f.of = cur => (f \in vpp <=> Spared(f))
    BY <1>2, <1>10 DEF LookupForFlags, Lookup, InHand
  <2>2. CASE FlagsGiven
    <3>1. pc' = "set-flags" /\ byIndex' = cur
      BY <1>3, <1>4, <1>10, <2>2 DEF LookupForFlags, Lookup
    <3>2. FlagsGiven'
      BY <1>1, <2>2 DEF FlagsGiven
    <3>3. (\A f \in Fact : f.of = cur => (f \in vpp <=> Spared(f)))'
      BY <1>1, <1>5, <2>1
    <3>4. InHand'
      BY <1>1, <1>8, <3>1, <3>2, <3>3 DEF InHand, SettingSteps
    <3> QED
      BY <1>1, <1>2, <1>7, <3>1, <3>4 DEF QuietTransaction, InterfaceSteps, TransactionSteps
  <2>3. CASE ~FlagsGiven
    <3>1. pc' = "mtu"
      BY <1>10, <2>3 DEF LookupForFlags, Lookup
    <3>2. \A f \in Fact : f.of = cur /\ f.kind = "up" => f = Up(cur)
      BY DEF Fact, Up
    <3>3. ASSUME NEW f \in Fact, f.of = cur
          PROVE  f \in vpp <=> IF f.kind = "up" THEN Final(f) ELSE Spared(f)
      BY <1>9, <2>1, <2>3, <3>2, <3>3 DEF FlagsGiven
    <3>4. (\A f \in Fact : f.of = cur => (f \in vpp <=> IF f.kind = "up" THEN Final(f)
                                                          ELSE Spared(f)))'
      BY <1>1, <1>5, <1>6, <3>3
    <3>5. InHand'
      BY <1>1, <1>8, <3>1, <3>4 DEF InHand, SettingSteps
    <3> QED
      BY <1>1, <1>2, <1>7, <3>1, <3>5 DEF QuietTransaction, InterfaceSteps, TransactionSteps
  <2> QED
    BY <2>2, <2>3
<1>11. CASE LookupForMtu
  <2>1. \A f \in Fact : f.of = cur => (f \in vpp <=> IF f.kind = "up" THEN Final(f) ELSE Spared(f))
    BY <1>2, <1>11 DEF LookupForMtu, Lookup, InHand
  <2>2. todo' = Addresses /\ Addresses' = Addresses
    BY <1>1, <1>11 DEF LookupForMtu, Addresses
  <2>3. CASE MtuGiven(cur) # {}
    <3>1. pc' = "set-mtu" /\ byIndex' = cur
      BY <1>3, <1>4, <1>11, <2>3 DEF LookupForMtu, Lookup
    <3>2. (MtuGiven(cur) # {})'
      BY <1>1, <2>3 DEF MtuGiven
    <3>3. (\A f \in Fact : f.of = cur => (f \in vpp <=> IF f.kind = "up" THEN Final(f)
                                                          ELSE Spared(f)))'
      BY <1>1, <1>5, <1>6, <2>1
    <3>4. InHand'
      BY <1>1, <1>8, <2>2, <3>1, <3>2, <3>3 DEF InHand, SettingSteps
    <3> QED
      BY <1>1, <1>2, <1>7, <3>1, <3>4 DEF QuietTransaction, InterfaceSteps, TransactionSteps
  <2>4. CASE MtuGiven(cur) = {}
    <3>1. pc' = "add"
      BY <1>11, <2>4 DEF LookupForMtu, Lookup
    <3>2. \A f : f \in Addresses <=> f \in target /\ f.kind = "addr" /\ f.of = cur
      BY DEF Addresses, Of
    <3>3. ASSUME NEW f \in Fact, f.of = cur PROVE f \in vpp \/ f \in Addresses <=> Final(f)
      BY <1>9, <2>1, <2>4, <3>2, <3>3
    <3>4. (\A f \in Fact : f.of = cur => (f \in vpp \/ f \in todo <=> Final(f)))'
      BY <1>1, <1>6, <2>2, <3>3
    <3>5. InHand'
      BY <1>1, <1>8, <2>2, <3>1, <3>4 DEF InHand, SettingSteps
    <3> QED
      BY <1>1, <1>2, <1>7, <3>1, <3>5 DEF QuietTransaction, InterfaceSteps, TransactionSteps
  <2> QED
    BY <2>3, <2>4
<1> QED
  BY <1>10, <1>11

\* set_flags: the flag is final.
LEMMA SetFlagsSettles ==
  ASSUME TypeOK, Shape, IndexesHold, QuietTransaction, vppUp, quiet, before' = before, SetFlags
  PROVE  QuietTransaction'
<1>1. /\ pc = "set-flags" /\ pc' = "mtu" /\ pc \in InterfaceSteps
      /\ UNCHANGED <<running, target, left, cur, idx>>
  BY DEF SetFlags, SetByIndex, InterfaceSteps
<1>2. /\ Ahead /\ InHand /\ target \in Targets /\ cur \in Ifs /\ byIndex = cur
      /\ FlagsGiven /\ Present(vpp, cur) /\ Exists(cur) \in target /\ Present(before, cur)
  BY <1>1 DEF QuietTransaction, TransactionSteps, Shape, InHand, Ahead, SettingSteps
<1> DEFINE w == IF Up(cur) \in target THEN Establish(vpp, Up(cur)) ELSE vpp \ {Up(cur)}
<1>3. /\ Up(cur) \in Fact /\ Up(cur).kind = "up" /\ Up(cur).of = cur
      /\ \A f \in Fact : f.of = cur /\ f.kind = "up" => f = Up(cur)
  BY <1>2, FactConstructors DEF Fact, Up
<1>4. \A g : g \in w <=> IF g = Up(cur) THEN Up(cur) \in target ELSE g \in vpp
  <2>1. Establish(vpp, Up(cur)) = vpp \cup {Up(cur)}
    BY <1>2, <1>3, EstablishPresent DEF TypeOK
  <2> QED
    BY <2>1
<1>5. Run(w)
  BY <1>2 DEF SetFlags, SetByIndex
<1>6. Present(w, cur) <=> Present(vpp, cur)
  BY <1>4 DEF Present, Exists, Up
<1> HIDE DEF w
<1>7. /\ vpp' = w /\ Ahead'
      /\ cur' \notin left' /\ Present(before', cur') /\ Exists(cur') \in target'
      /\ index'[cur'] = idx'
  BY <1>1, <1>2, <1>3, <1>4, <1>5, <1>6, OnlyTheOneInHand
<1>8. ASSUME NEW f \in Fact, f.of = cur
      PROVE  f \in vpp' <=> IF f.kind = "up" THEN Final(f) ELSE Spared(f)
  <2>1. f \in vpp <=> Spared(f)
    BY <1>1, <1>2, <1>8 DEF InHand
  <2>2. CASE f.kind = "up"
    <3>1. f = Up(cur) /\ (f \in vpp' <=> f \in target)
      BY <1>3, <1>4, <1>7, <1>8, <2>2
    <3>2. Final(f) <=> f \in target \/ (Spared(f) /\ ~DefaultsFilled)
      BY <1>2, <1>8, <2>2, FinalOf
    <3> QED
      BY <1>2, <2>2, <3>1, <3>2 DEF FlagsGiven
  <2>3. CASE f.kind # "up"
    BY <1>3, <1>4, <1>7, <2>1, <2>3
  <2> QED
    BY <2>2, <2>3
<1>9. \A f : (Spared(f))' <=> Spared(f)
  BY <1>1 DEF Spared
<1>10. \A f : (Final(f))' <=> Final(f)
  BY <1>1 DEF Final
<1>11. (\A f \in Fact : f.of = cur => (f \in vpp <=> IF f.kind = "up" THEN Final(f)
                                                      ELSE Spared(f)))'
  BY <1>1, <1>8, <1>9, <1>10
<1>12. (Present(before, cur))'
  BY <1>7 DEF Present
<1>13. InHand'
  BY <1>1, <1>7, <1>11, <1>12 DEF InHand, SettingSteps
<1> QED
  BY <1>1, <1>2, <1>7, <1>13 DEF QuietTransaction, InterfaceSteps, TransactionSteps

\* set_mtu: so is the MTU; the addresses are what is left to do.
LEMMA SetMtuSettles ==
  ASSUME TypeOK, Shape, IndexesHold, QuietTransaction, vppUp, quiet, before' = before, SetMtu
  PROVE  QuietTransaction'
<1>1. /\ pc = "set-mtu" /\ pc' = "add" /\ pc \in InterfaceSteps
      /\ UNCHANGED <<running, target, left, cur, idx, todo>>
  BY DEF SetMtu, SetByIndex, InterfaceSteps
<1>2. /\ Ahead /\ InHand /\ target \in Targets /\ cur \in Ifs /\ byIndex = cur
      /\ todo = Addresses /\ Present(vpp, cur) /\ Exists(cur) \in target /\ Present(before, cur)
  BY <1>1 DEF QuietTransaction, TransactionSteps, Shape, InHand, Ahead, SettingSteps
<1>3. PICK m \in MtuGiven(cur) : Run(Establish(vpp, Mtu(cur, m)))
  BY <1>2 DEF SetMtu, SetByIndex
<1>4. /\ Mtu(cur, m) \in Fact /\ Mtu(cur, m).kind = "mtu" /\ Mtu(cur, m).of = cur
      /\ \A f \in Fact : f.of = cur /\ f.kind = "mtu" => (f = Mtu(cur, m) <=> f.val = m)
  <2>1. m \in Mtus \cup {None}
    BY MtuGivenType DEF TypeOK
  <2> QED
    BY <1>2, <2>1 DEF Fact, Mtu
<1> DEFINE w == Establish(vpp, Mtu(cur, m))
<1>5. /\ \A g : g \in w <=>
           g = Mtu(cur, m) \/ (g \in vpp /\ ~(g.kind = "mtu" /\ g.of = cur))
      /\ Present(w, cur) <=> Present(vpp, cur)
  BY <1>2, <1>4, EstablishPresent DEF TypeOK
<1>6. Run(w)
  BY <1>3
<1> HIDE DEF w
<1>7. \A g : g.of # cur => (g \in w <=> g \in vpp)
  BY <1>4, <1>5
<1>8. /\ vpp' = w /\ Ahead'
      /\ cur' \notin left' /\ Present(before', cur') /\ Exists(cur') \in target'
      /\ index'[cur'] = idx'
  BY <1>1, <1>2, <1>5, <1>6, <1>7, OnlyTheOneInHand
<1>9. \A f : f \in Addresses <=> f \in target /\ f.kind = "addr" /\ f.of = cur
  BY DEF Addresses, Of
<1>10. ASSUME NEW f \in Fact, f.of = cur
       PROVE  f \in vpp' \/ f \in Addresses <=> Final(f)
  <2>1. f \in vpp <=> IF f.kind = "up" THEN Final(f) ELSE Spared(f)
    BY <1>1, <1>2, <1>10 DEF InHand
  <2>2. /\ f.kind = "mtu" => (Final(f) <=> f.val \in MtuGiven(cur))
        /\ f.kind = "addr" => (Final(f) <=> f \in target \/ Spared(f))
        /\ f.kind \notin {"up", "addr", "mtu"} => (Final(f) <=> Spared(f))
    BY <1>2, <1>3, <1>10, FinalOf
  <2>3. CASE f.kind = "mtu"
    <3>1. f.val \in MtuGiven(cur) <=> f.val = m
      BY <1>2, <1>3, OneMtu
    <3>2. f \in vpp' <=> f.val = m
      BY <1>4, <1>5, <1>8, <1>10, <2>3
    <3> QED
      BY <1>9, <2>2, <2>3, <3>1, <3>2
  <2>4. CASE f.kind # "mtu"
    BY <1>4, <1>5, <1>8, <1>9, <1>10, <2>1, <2>2, <2>4
  <2> QED
    BY <2>3, <2>4
<1>11. \A f : (Final(f))' <=> Final(f)
  BY <1>1 DEF Final
<1>12. todo' = Addresses /\ Addresses' = Addresses
  BY <1>1, <1>2 DEF Addresses
<1>13. (\A f \in Fact : f.of = cur => (f \in vpp \/ f \in todo <=> Final(f)))'
  BY <1>1, <1>10, <1>11, <1>12
<1>14. (Present(before, cur))'
  BY <1>8 DEF Present
<1>15. InHand'
  BY <1>1, <1>8, <1>12, <1>13, <1>14 DEF InHand, SettingSteps
<1> QED
  BY <1>1, <1>2, <1>8, <1>15 DEF QuietTransaction, InterfaceSteps, TransactionSteps

\* The addresses come one by one; then the interface is done with.
LEMMA AddAddressSettles ==
  ASSUME TypeOK, Shape, IndexesHold, QuietTransaction, vppUp, quiet, before' = before, AddAddress
  PROVE  QuietTransaction'
<1>1. /\ pc = "add" /\ pc \in InterfaceSteps
      /\ UNCHANGED <<running, target, left>>
  BY DEF AddAddress, InterfaceSteps
<1>2. /\ Ahead /\ InHand /\ target \in Targets /\ cur \in Ifs
      /\ todo \subseteq Addresses /\ Present(vpp, cur) /\ cur \notin left
  BY <1>1 DEF QuietTransaction, TransactionSteps, Shape, InHand, Ahead
<1>3. \A f \in Fact : f.of = cur => (f \in vpp \/ f \in todo <=> Final(f))
  BY <1>1, <1>2 DEF InHand
<1>4. \A f : (Spared(f))' <=> Spared(f)
  BY <1>1 DEF Spared
<1>5. \A f : (Final(f))' <=> Final(f)
  BY <1>1 DEF Final
<1>6. CASE todo = {}
  <2>1. pc' = "next" /\ cur' = None /\ UNCHANGED vpp
    BY <1>6 DEF AddAddress, dataplane
  <2>2. \A f \in Fact : f \in vpp <=> IF f.of \in left THEN Spared(f) ELSE Final(f)
    BY <1>2, <1>3, <1>6 DEF Ahead
  <2>3. Ahead'
    BY <1>1, <1>2, <1>4, <1>5, <2>1, <2>2 DEF Ahead, Present
  <2> QED
    BY <1>1, <1>2, <2>1, <2>3 DEF QuietTransaction, InterfaceSteps, TransactionSteps
<1>7. CASE todo # {}
  <2>1. PICK d \in todo : Run(Establish(vpp, d)) /\ todo' = todo \ {d}
    BY <1>7 DEF AddAddress
  <2>2. pc' = "add" /\ UNCHANGED <<cur, idx>>
    BY <1>1, <1>7 DEF AddAddress
  <2>3. d \in Fact /\ d.kind = "addr" /\ d.of = cur
    BY <1>2, <2>1 DEF TypeOK, Addresses, Of
  <2> DEFINE w == Establish(vpp, d)
  <2>4. /\ \A g : g \in w <=> g = d \/ g \in vpp
        /\ Present(w, cur) <=> Present(vpp, cur)
    BY <1>2, <2>3, EstablishPresent DEF TypeOK
  <2>5. Run(w)
    BY <2>1
  <2> HIDE DEF w
  <2>6. \A g : g.of # cur => (g \in w <=> g \in vpp)
    BY <2>3, <2>4
  <2>7. /\ vpp' = w /\ Ahead'
        /\ cur' \notin left' /\ Present(before', cur') /\ Exists(cur') \in target'
        /\ index'[cur'] = idx'
    BY <1>1, <1>2, <2>2, <2>4, <2>5, <2>6, OnlyTheOneInHand
  <2>8. ASSUME NEW f \in Fact, f.of = cur PROVE f \in vpp' \/ f \in todo' <=> Final(f)
    BY <1>3, <2>1, <2>4, <2>7, <2>8
  <2>9. (\A f \in Fact : f.of = cur => (f \in vpp \/ f \in todo <=> Final(f)))'
    BY <1>5, <2>2, <2>8
  <2>10. (todo \subseteq Addresses)'
    BY <1>1, <1>2, <2>1, <2>2 DEF Addresses
  <2>11. (Present(before, cur))'
    BY <2>7 DEF Present
  <2>12. InHand'
    BY <2>2, <2>7, <2>9, <2>10, <2>11 DEF InHand, SettingSteps
  <2> QED
    BY <1>1, <1>2, <2>2, <2>7, <2>12 DEF QuietTransaction, InterfaceSteps, TransactionSteps
<1> QED
  BY <1>6, <1>7

\* What is done and what is ahead add up, step by step.
LEMMA QuietTransactionInductive ==
  ASSUME TypeOK, Shape, IndexesHold, QuietRequest, QuietTransaction, [Next]_vars
  PROVE  QuietTransaction'
<1>1. CASE UNCHANGED vars
  BY <1>1 DEF vars, dataplane, work, QuietTransaction, TransactionSteps, Ahead, InHand,
              Spared, Final, Present, FlagsGiven, MtuGiven, Addresses
<1>2. CASE Next /\ ((\E t \in Targets : Transaction(t)) \/ ConnectForTransaction)
  BY <1>2, TransactionStarts DEF Next
<1>3. CASE Next /\ Others
  <2>1. Observe /\ UNCHANGED <<pc, cur>>
    BY <1>3 DEF Next, Others, Meddle, VppCrash, VppStart, work
  <2>2. CASE quiet' /\ pc' # "idle"
    <3>1. quiet /\ UNCHANGED <<dataplane, pc, request, work, rows, before>> /\ UNCHANGED running
      BY <1>3, <2>1, <2>2, OthersDisturb DEF Others, Meddle, VppCrash, VppStart
    <3> QED
      BY <3>1 DEF dataplane, work, QuietTransaction, TransactionSteps, Ahead, InHand,
                  Spared, Final, Present, FlagsGiven, MtuGiven, Addresses
  <2>3. CASE ~quiet' \/ pc' = "idle"
    BY <2>1, <2>3 DEF QuietTransaction, TransactionSteps, InterfaceSteps
  <2> QED
    BY <2>2, <2>3
<1>4. CASE Next /\ (DeleteAddress \/ NextInterface \/ LookupForFlags \/ LookupForMtu
                    \/ SetFlags \/ SetMtu \/ AddAddress)
  <2>1. /\ Observe /\ pc # "idle" /\ pc' # "idle"
        /\ pc' \notin InterfaceSteps => cur' = None
    <3>1. CASE NextInterface
      <4>1. None \notin Ifs
        BY NamesAssumption DEF Ifs
      <4> QED
        BY <1>4, <3>1, <4>1 DEF Next, NextInterface, QuietTransaction, InterfaceSteps
    <3> QED
      BY <1>4, <3>1 DEF Next, DeleteAddress, LookupForFlags, LookupForMtu, Lookup, SetFlags,
                        SetMtu, SetByIndex, AddAddress, QuietTransaction, InterfaceSteps
  <2>2. CASE ~quiet'
    BY <2>1, <2>2 DEF QuietTransaction
  <2>3. CASE quiet'
    <3>1. quiet /\ before' = before /\ vppUp
      BY <2>1, <2>3, QuietStep DEF QuietRequest
    <3> QED
      BY <1>4, <3>1, DeleteAddressAdds, NextInterfaceTakes, LookupFinds, SetFlagsSettles,
         SetMtuSettles, AddAddressSettles
  <2> QED
    BY <2>2, <2>3
<1>5. CASE pc' \notin {"begin"} \cup TransactionSteps /\ cur' = None
  BY <1>5 DEF QuietTransaction, TransactionSteps
<1>6. CASE pc \notin InterfaceSteps /\ UNCHANGED cur /\ pc' \notin {"begin"} \cup TransactionSteps
  BY <1>5, <1>6 DEF QuietTransaction
<1>7. CASE Rpc \/ Statedata \/ ConnectForRpc \/ RunCommand \/ IndexOfMade
           \/ ConnectForState \/ Show \/ ReadMac \/ EndShow
  <2>1. /\ pc \notin InterfaceSteps /\ UNCHANGED cur
        /\ pc' \notin {"begin"} \cup TransactionSteps
    BY <1>7
       DEF Rpc, RpcCreateLoopback, RpcLcpSetNetns, RpcCreateBond,
           RpcBondAddMember, RpcDeleteLoopback, RpcCreateSubif, RpcDeleteSubif,
           RpcDeleteBond, RpcBondDelMember, RpcLcpDelete, RpcLcpCreate, Request,
           Statedata, ConnectForRpc, RunCommand, IndexOfMade, ConnectForState, Show,
           ReadMac, EndShow, work, InterfaceSteps, TransactionSteps
  <2> QED
    BY <1>6, <2>1
<1>8. CASE Reply \/ EndTransaction \/ SendState \/ BackendRestart
  <2>1. pc' = "idle" /\ cur' = None
    BY <1>8 DEF Reply, EndTransaction, SendState, BackendRestart, Done
  <2> QED
    BY <1>5, <2>1 DEF TransactionSteps, InterfaceSteps
<1> QED
  BY <1>1, <1>2, <1>3, <1>4, <1>7, <1>8 DEF Next, Serve

\* Undisturbed, a transaction's commands -- by name, by index and back, skipping
\* what VPP does not have -- come to Transact, the function that CliSession and
\* Restore use for a transaction.
THEOREM TransactionsAddUp == Spec => []QuietTransactionIsTransact
<1>1. Init => QuietTransaction
  BY DEF Init, QuietTransaction, InterfaceSteps, TransactionSteps
<1>2. Undisturbed /\ QuietTransaction /\ [Next]_vars => QuietTransaction'
  BY QuietTransactionInductive DEF Undisturbed
<1>3. ASSUME Undisturbed, QuietTransaction PROVE QuietTransactionIsTransact
  <2> SUFFICES ASSUME pc = "next", left = {}, quiet
               PROVE  vpp = Transact(before, running, target)
    BY DEF QuietTransactionIsTransact
  <2>1. Ahead /\ cur = None /\ TypeOK
    BY <1>3 DEF Undisturbed, QuietTransaction, InterfaceSteps
  <2>2. \A f \in Fact : f.of # cur
    BY <2>1, FactOf, NamesAssumption DEF Ifs
  <2>3. \A f \in Fact : f \in vpp <=> f \in Transact(before, running, target)
    BY <2>1, <2>2 DEF Ahead, Final
  <2>4. vpp \in SUBSET Fact /\ Transact(before, running, target) \in SUBSET Fact
    BY <2>1, TransactType DEF TypeOK
  <2> QED
    BY <2>3, <2>4
<1> QED
  BY <1>1, <1>2, <1>3, UndisturbedInit, UndisturbedInductive, PTL DEF Spec

=============================================================================
