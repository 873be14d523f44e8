------------------------------ MODULE Backend ------------------------------
(***************************************************************************)
(* The backend at work, one vppctl at a time: the RPC handlers, the        *)
(* transaction callbacks and the state data callback of src/vpp_plugin.c,  *)
(* with the functions of src/vpp_interface.c and src/vpp_connection.c they *)
(* call.                                                                   *)
(*                                                                         *)
(* The backend has one thread: it serves one request after the other.  It  *)
(* runs a process for every command and every read, and between any two of *)
(* them the CLI sessions, which run vppctl themselves, may change VPP, and *)
(* VPP may die and start again.  Interfaces have names and sw_if_indexes;  *)
(* VPP gives the index of a deleted interface to a later one, and the      *)
(* backend turns names into indexes and back by reading the whole list.    *)
(*                                                                         *)
(* Simplifications.  A process can always be started and memory never runs *)
(* out.  Clixon checks requests against the YANG model, so no mandatory    *)
(* element is missing.  The MAC address, tun flag, bond mode and           *)
(* load-balance of a request are passed on and touch nothing here; no CLI  *)
(* command sets a description.  Of a show of the interfaces, name, index   *)
(* and state are kept, and whether a MAC address was found.                *)
(***************************************************************************)
EXTENDS VppTransaction, VppCommand

CONSTANTS
  Bond0,      \* BondEthernet0
  MaxIndex,   \* bound: VPP's indexes are 1..MaxIndex
  Hardware,   \* the indexes of a VPP that has just started
  Meddled,    \* bound: facts the CLI sessions set up and remove meanwhile
  Paired,     \* bound: the pairs asked for by RPCs
  Targets     \* bound: configurations committed

ASSUME BackendAssumption ==
  /\ MaxIndex \in Nat /\ MaxIndex >= Cardinality(Ifs) /\ None \notin 1..MaxIndex
  /\ Hardware \in [Phys -> 1..MaxIndex]
  /\ \A p, q \in Phys : Hardware[p] = Hardware[q] => p = q
  /\ Meddled \subseteq Fact \ Boot
  /\ Paired \subseteq Ifs \X Links
  /\ Targets \subseteq SUBSET Fact
  /\ Bond0 \in Bonds \cup {None}

\* The configuration is a list of interfaces, with one MTU each at most.
ASSUME TargetsAssumption ==
  \A t \in Targets : \A f, g \in t :
    /\ Exists(f.of) \in t
    /\ f.kind = "mtu" /\ g.kind = "mtu" /\ f.of = g.of => f = g

NoIndex == None   \* (uint32_t)-1

VARIABLES
  vpp, vppUp,  \* VPP's facts; does a VPP process answer?
  index,       \* index[i]: the sw_if_index of i, NoIndex when there is no i
  connected,   \* g_connected
  running,     \* Clixon's running datastore
  pc,          \* what the backend does next
  rpc, asked, command,      \* the RPC, the name it asks for, its command
  outcome, made, madeIndex, \* its reply: success, interface-name, sw-if-index
  target,      \* the configuration to apply
  left,        \* its interfaces not yet looked at
  todo,        \* addresses to delete, or to add to cur
  cur, idx,    \* ifname and sw_if_index of vpp_trans_commit
  byIndex,     \* ifname of vpp_interface_set_flags and _set_mtu
  rows,        \* state data
  quiet,       \* history: since the request, VPP was up and no one else changed it
  moved,       \* history: cur has not had the index idx all the time
  before       \* history: VPP's facts when the request came, while quiet

dataplane == <<vpp, vppUp, index>>
request   == <<rpc, asked, command, outcome, made, madeIndex>>
work      == <<target, left, todo, cur, idx, byIndex>>
vars == <<dataplane, connected, running, pc, request, work, rows, quiet, moved, before>>

Steps == {"idle", "connect", "command", "index", "reply",
          "begin", "delete", "next", "flags", "set-flags", "mtu", "set-mtu",
          "add", "show-connect", "show", "macs", "shown"}

Rpcs == {"none", "create-loopback", "delete-loopback", "create-sub-interface",
         "delete-sub-interface", "create-bond", "delete-bond", "bond-add-member",
         "bond-del-member", "lcp-create", "lcp-delete", "lcp-set-netns"}
Creating == {"create-loopback", "create-sub-interface", "create-bond"}

Index == 1..MaxIndex \cup {NoIndex}
Row == [name : Ifs, index : Index, up : BOOLEAN, mac : {"unread", "read", "zero"}]

\* TYPE.  Every variable has its type: whatever VPP answers, the backend holds
\* names, indexes and facts and nothing else.
TypeOK ==
  /\ vpp \in SUBSET Fact /\ vppUp \in BOOLEAN
  /\ index \in [Ifs -> Index]
  /\ connected \in BOOLEAN
  /\ running \in SUBSET Fact
  /\ pc \in Steps
  /\ rpc \in Rpcs /\ asked \in Ifs \cup {None} /\ command \in Command
  /\ outcome \in {"none", "true", "error"}
  /\ made \in Ifs \cup {None} /\ madeIndex \in Index
  /\ target \in SUBSET Fact /\ left \in SUBSET Ifs /\ todo \in SUBSET Fact
  /\ cur \in Ifs \cup {None} /\ idx \in Index /\ byIndex \in Ifs \cup {None}
  /\ rows \in SUBSET Row
  /\ quiet \in BOOLEAN /\ moved \in BOOLEAN /\ before \in SUBSET Fact

NoCommand == [do |-> "other", facts |-> {}]

Init ==
  /\ vpp = Boot /\ vppUp = TRUE
  /\ index = [i \in Ifs |-> IF i \in Phys THEN Hardware[i] ELSE NoIndex]
  /\ connected = TRUE
  /\ running = {}
  /\ pc = "idle"
  /\ rpc = "none" /\ asked = None /\ command = NoCommand
  /\ outcome = "none" /\ made = None /\ madeIndex = NoIndex
  /\ target = {} /\ left = {} /\ todo = {}
  /\ cur = None /\ idx = NoIndex /\ byIndex = None
  /\ rows = {}
  /\ quiet = TRUE /\ moved = FALSE /\ before = {}

-----------------------------------------------------------------------------
(* VPP.                                                                    *)

\* VPP's facts become v.  An interface that comes into being takes any index
\* that is free.
Becomes(v) ==
  /\ vpp' = v
  /\ \E n \in IF \E i \in Ifs : Present(v, i) /\ index[i] = NoIndex
              THEN 1..MaxIndex \ {index[i] : i \in Ifs} ELSE {NoIndex} :
       index' = [i \in Ifs |-> IF ~Present(v, i) THEN NoIndex
                               ELSE IF index[i] # NoIndex THEN index[i] ELSE n]

\* A change that is not the backend's.
Meddle(f) ==
  /\ vppUp
  /\ \E v \in {Establish(vpp, f), Without(vpp, f)} : v # vpp /\ Becomes(v)
  /\ UNCHANGED <<vppUp, connected, running, pc, request, work, rows>>

VppCrash ==
  /\ vppUp
  /\ vppUp' = FALSE /\ Becomes(Boot)
  /\ UNCHANGED <<connected, running, pc, request, work, rows>>

VppStart ==
  /\ ~vppUp
  /\ vppUp' = TRUE
  /\ UNCHANGED <<vpp, index, connected, running, pc, request, work, rows>>

-----------------------------------------------------------------------------
(* Reads.  The list of a VPP that does not answer is the text of vppctl's  *)
(* error, of which parse_show_interface makes an empty list.               *)

List == IF vppUp THEN {i \in Ifs : Present(vpp, i)} ELSE {}

\* (Mutant of NameToIndex: 0 for a name that is not found.)
NameToIndexZero(i) == IF i \in List THEN index[i] ELSE 0

NameToIndex(i) == IF i \in List THEN index[i] ELSE NoIndex

\* (Mutant of NameOf: any index up to n will do.)
NameOfUpTo(n) == IF \E i \in List : index[i] <= n
                 THEN CHOOSE i \in List : index[i] <= n ELSE None

NameOf(n) == IF \E i \in List : index[i] = n THEN CHOOSE i \in List : index[i] = n
             ELSE None

-----------------------------------------------------------------------------
(* Requests: one action per RPC handler.                                   *)

Request(r, name, c) ==
  /\ pc = "idle"
  /\ rpc' = r /\ asked' = name /\ command' = c
  /\ pc' = IF connected THEN "command" ELSE "connect"
  /\ UNCHANGED <<dataplane, connected, running, outcome, made, madeIndex, work, rows>>

RpcCreateLoopback   == Request("create-loopback", None, CreateLoopback)
RpcDeleteLoopback(i) == Request("delete-loopback", None, DeleteLoopback(i))
RpcCreateSubif(s)   == s \in Subs /\ Request("create-sub-interface", s, CreateSubif(s))
RpcDeleteSubif(i)   == Request("delete-sub-interface", None, DeleteSubif(i))
RpcCreateBond(b)    == b \in Bonds \cup {None}
                       /\ Request("create-bond", b, CreateBond(b, Bond0))
RpcDeleteBond(i)    == Request("delete-bond", None, DeleteBond(i))
RpcBondAddMember(b, p) ==
  b \in Bonds /\ p \in Phys /\ Request("bond-add-member", None, BondAddMember(b, p))
RpcBondDelMember(p) == Request("bond-del-member", None, BondDelMember(p))
RpcLcpCreate(i, l)  == Request("lcp-create", None, LcpCreate(i, l))
RpcLcpDelete(i)     == Request("lcp-delete", None, LcpDelete(i))
RpcLcpSetNetns      == Request("lcp-set-netns", None, LcpSetDefaultNetns)

\* vpp_connect, for an RPC: the first line of `show version', searched for
\* words one of which every error of vppctl has.
ConnectForRpc ==
  /\ pc = "connect"
  /\ connected' = vppUp
  /\ IF vppUp THEN pc' = "command" /\ UNCHANGED outcome
     ELSE pc' = "reply" /\ outcome' = "error"
  /\ UNCHANGED <<dataplane, running, rpc, asked, command, made, madeIndex, work, rows>>

\* What vppctl may print for a command VPP rejects, or when VPP is gone.
Texts ==
  IF vppUp THEN {t \in SUBSET {"error", "failed", "unknown", "unknown input"} :
                   "unknown input" \in t => "unknown" \in t}
  ELSE SUBSET {"error", "failed", "Connection refused"} \ {{}}

\* The words whose presence in the answer makes a failure of it.  Any answer
\* to `create loopback' is the name of the new loopback.
Searched ==
  CASE rpc = "create-loopback" -> {}
    [] rpc \in Creating        -> {"error", "unknown"}
    [] OTHER                   -> {"error", "failed", "unknown input"}

\* (Mutant of RunCommand: a create that answers with more than a name fails.)
RunCommandSuspicious ==
  /\ pc = "command"
  /\ \/ /\ vppUp
        /\ \E v \in Obeyed(vpp, command) : Becomes(v)
        /\ outcome' \in {"true", "error"}
     \/ /\ ~vppUp \/ Obeyed(vpp, command) = {}
        /\ outcome' = "error"
        /\ UNCHANGED dataplane
  /\ made' = None /\ pc' = "reply"
  /\ UNCHANGED <<vppUp, connected, running, rpc, asked, command, madeIndex, work, rows>>

\* The one command of a request.  A sub-interface is given the name asked for;
\* other names are what the answer says.
RunCommand ==
  /\ pc = "command"
  /\ \/ /\ vppUp
        /\ \E v \in Obeyed(vpp, command) : Becomes(v)
        /\ outcome' = "true"
        /\ made' = IF rpc \notin Creating THEN None
                   ELSE CHOOSE i \in Ifs : Present(vpp', i) /\ ~Present(vpp, i)
     \/ /\ ~vppUp \/ Obeyed(vpp, command) = {}
        /\ \E t \in Texts :
             outcome' = IF t \cap Searched = {} THEN "true" ELSE "error"
        /\ made' = IF rpc = "create-sub-interface" /\ outcome' = "true"
                   THEN asked ELSE None
        /\ UNCHANGED dataplane
  /\ pc' = IF outcome' = "true" /\ rpc \in Creating THEN "index" ELSE "reply"
  /\ UNCHANGED <<vppUp, connected, running, rpc, asked, command, madeIndex, work, rows>>

\* (Mutant of IndexOfMade: the index of the name asked for.)
IndexOfAsked ==
  /\ pc = "index"
  /\ madeIndex' = IF asked = None THEN NoIndex ELSE NameToIndex(asked)
  /\ pc' = "reply"
  /\ UNCHANGED <<dataplane, connected, running, rpc, asked, command, outcome, made,
                 work, rows>>

\* vpp_interface_name_to_index; a name that is the text of an error is not found.
IndexOfMade ==
  /\ pc = "index"
  /\ madeIndex' = NameToIndex(made)
  /\ pc' = "reply"
  /\ UNCHANGED <<dataplane, connected, running, rpc, asked, command, outcome, made,
                 work, rows>>

\* The request is over; nothing is kept of it.
Done ==
  /\ pc' = "idle"
  /\ rpc' = "none" /\ asked' = None /\ command' = NoCommand
  /\ outcome' = "none" /\ made' = None /\ madeIndex' = NoIndex
  /\ target' = {} /\ left' = {} /\ todo' = {}
  /\ cur' = None /\ idx' = NoIndex /\ byIndex' = None
  /\ rows' = {}

Reply == pc = "reply" /\ Done /\ UNCHANGED <<dataplane, connected, running>>

-----------------------------------------------------------------------------
(* A transaction.                                                          *)

\* vpp_trans_begin and vpp_trans_validate, when g_connected is set.
Transaction(t) ==
  /\ pc = "idle"
  /\ target' = t /\ todo' = DeletedAddresses(running, t)
  /\ pc' = IF connected THEN "delete" ELSE "begin"
  /\ UNCHANGED <<dataplane, connected, running, request, left, cur, idx, byIndex, rows>>

\* When VPP cannot be reached the transaction is refused.
ConnectForTransaction ==
  /\ pc = "begin"
  /\ connected' = vppUp
  /\ IF vppUp THEN pc' = "delete" /\ UNCHANGED <<request, work, rows>> ELSE Done
  /\ UNCHANGED <<dataplane, running>>

\* One vppctl; without VPP it does nothing, and nobody notices.
Run(v) == Becomes(IF vppUp THEN v ELSE vpp)

\* The deleted addresses, one by one; then the interfaces of the target.
DeleteAddress ==
  /\ pc = "delete"
  /\ IF todo = {}
     THEN /\ pc' = "next" /\ left' = {f.of : f \in target}
          /\ UNCHANGED <<dataplane, todo>>
     ELSE /\ \E f \in todo : Run(vpp \ {f}) /\ todo' = todo \ {f}
          /\ UNCHANGED <<vppUp, pc, left>>
  /\ UNCHANGED <<connected, running, request, target, cur, idx, byIndex, rows>>

\* (Mutant of NextInterface: break instead of continue.)
NextInterfaceBreaking ==
  /\ pc = "next"
  /\ \E i \in left :
       IF NameToIndex(i) = NoIndex THEN left' = {} /\ UNCHANGED <<pc, cur, idx>>
       ELSE left' = left \ {i} /\ pc' = "flags" /\ cur' = i /\ idx' = NameToIndex(i)
  /\ UNCHANGED <<dataplane, connected, running, request, target, todo, byIndex, rows>>

\* An interface VPP does not list is skipped.
NextInterface ==
  /\ pc = "next"
  /\ \E i \in left :
       /\ left' = left \ {i}
       /\ IF NameToIndex(i) = NoIndex THEN UNCHANGED <<pc, cur, idx>>
          ELSE pc' = "flags" /\ cur' = i /\ idx' = NameToIndex(i)
  /\ UNCHANGED <<dataplane, connected, running, request, target, todo, byIndex, rows>>

\* <enabled>: the CLI writes it when it is true, Clixon may fill in the default.
FlagsGiven == DefaultsFilled \/ Up(cur) \in target

\* vpp_interface_set_flags and vpp_interface_set_mtu look for the name that has
\* the index now ...
Lookup(step, given, setting, next) ==
  /\ pc = step
  /\ byIndex' = IF given THEN NameOf(idx) ELSE None
  /\ pc' = IF byIndex' = None THEN next ELSE setting
  /\ UNCHANGED <<target, left, cur, idx>>
  /\ UNCHANGED <<dataplane, connected, running, request, rows>>

\* ... and run a command for that name.
SetByIndex(setting, v, next) ==
  /\ pc = setting
  /\ Run(v)
  /\ byIndex' = None
  /\ pc' = next
  /\ UNCHANGED <<target, left, cur, idx>>
  /\ UNCHANGED <<vppUp, connected, running, request, rows>>

LookupForFlags == Lookup("flags", FlagsGiven, "set-flags", "mtu") /\ UNCHANGED todo

SetFlags ==
  /\ SetByIndex("set-flags", IF Up(cur) \in target THEN Establish(vpp, Up(byIndex))
                             ELSE vpp \ {Up(byIndex)}, "mtu")
  /\ UNCHANGED todo

\* The MTU the target gives an interface, if any.
MtuGiven(i) ==
  {f.val : f \in {g \in Of(target, {"mtu"}) : g.of = i}}
  \cup (IF DefaultsFilled /\ \A f \in Of(target, {"mtu"}) : f.of # i
        THEN {YangMtu} ELSE {})

\* The addresses of cur, to be added next.
Addresses == {f \in Of(target, {"addr"}) : f.of = cur}

LookupForMtu ==
  /\ Lookup("mtu", MtuGiven(cur) # {}, "set-mtu", "add")
  /\ todo' = Addresses

SetMtu ==
  /\ \E m \in MtuGiven(cur) : SetByIndex("set-mtu", Establish(vpp, Mtu(byIndex, m)), "add")
  /\ UNCHANGED todo

\* By name, IPv4 first; then the next interface.
AddAddress ==
  /\ pc = "add"
  /\ IF todo = {}
     THEN /\ pc' = "next" /\ cur' = None /\ idx' = NoIndex
          /\ UNCHANGED <<dataplane, todo>>
     ELSE /\ \E f \in todo :
               /\ f.val \in Addr6 => \A g \in todo : g.val \in Addr6
               /\ Run(Establish(vpp, f)) /\ todo' = todo \ {f}
          /\ UNCHANGED <<vppUp, pc, cur, idx>>
  /\ UNCHANGED <<connected, running, request, target, left, byIndex, rows>>

\* 0 whatever happened: the target becomes the running configuration.
EndTransaction ==
  /\ pc = "next" /\ left = {}
  /\ running' = target
  /\ Done
  /\ UNCHANGED <<dataplane, connected>>

-----------------------------------------------------------------------------
(* State data.                                                             *)

Statedata ==
  /\ pc = "idle"
  /\ pc' = IF connected THEN "show" ELSE "show-connect"
  /\ UNCHANGED <<dataplane, connected, running, request, work, rows>>

ConnectForState ==
  /\ pc = "show-connect"
  /\ connected' = vppUp
  /\ pc' = IF vppUp THEN "show" ELSE "shown"
  /\ UNCHANGED <<dataplane, running, request, work, rows>>

\* (Mutant of Show: only interfaces that are up.)
ShowUp ==
  /\ pc = "show"
  /\ rows' = {[name |-> i, index |-> index[i], up |-> TRUE, mac |-> "unread"] :
                i \in {j \in List : Up(j) \in vpp}}
  /\ pc' = "macs"
  /\ UNCHANGED <<dataplane, connected, running, request, work>>

\* vpp_interface_dump: `show interface' ...
Show ==
  /\ pc = "show"
  /\ rows' = {[name |-> i, index |-> index[i], up |-> Up(i) \in vpp, mac |-> "unread"] :
                i \in List}
  /\ pc' = "macs"
  /\ UNCHANGED <<dataplane, connected, running, request, work>>

\* ... and `show hardware-interfaces' for each; zeros when there is no answer, which
\* is always so for a sub-interface.
ReadMac ==
  /\ pc = "macs"
  /\ \E r \in rows :
       /\ r.mac = "unread"
       /\ rows' = (rows \ {r}) \cup
                  {[r EXCEPT !.mac = IF r.name \in List \ Subs THEN "read" ELSE "zero"]}
  /\ UNCHANGED <<dataplane, connected, running, pc, request, work>>

EndShow ==
  /\ pc = "macs" /\ \A r \in rows : r.mac # "unread"
  /\ pc' = "shown"
  /\ UNCHANGED <<dataplane, connected, running, request, work, rows>>

SendState == pc = "shown" /\ Done /\ UNCHANGED <<dataplane, connected, running>>

-----------------------------------------------------------------------------

\* Killed or stopped at any point and started again: vpp_plugin_start connects
\* if it can (what it restores then is in Restore), the startup mode is init.
BackendRestart ==
  /\ Done
  /\ connected' = vppUp /\ running' = {}
  /\ UNCHANGED dataplane

\* History variables: they record, and restrict nothing.
Observe ==
  /\ quiet' = IF pc' = "idle" THEN TRUE ELSE IF pc = "idle" THEN vppUp
              ELSE quiet /\ (dataplane' = dataplane \/
                             <<pc, request, work, rows>>' # <<pc, request, work, rows>>)
  /\ moved' = (cur' # None /\ (moved \/ index'[cur'] # idx'))
  /\ before' = IF pc' = "idle" \/ ~quiet' THEN {} ELSE IF pc = "idle" THEN vpp ELSE before

Rpc ==
  \/ RpcCreateLoopback \/ RpcLcpSetNetns
  \/ \E b \in Bonds \cup {None} : RpcCreateBond(b)
  \/ \E b \in Bonds, p \in Phys : RpcBondAddMember(b, p)
  \/ \E i \in Ifs :
       \/ RpcDeleteLoopback(i) \/ RpcCreateSubif(i) \/ RpcDeleteSubif(i)
       \/ RpcDeleteBond(i) \/ RpcBondDelMember(i) \/ RpcLcpDelete(i)
       \/ \E l \in Links : <<i, l>> \in Paired /\ RpcLcpCreate(i, l)

Serve ==
  \/ ConnectForRpc \/ RunCommand \/ IndexOfMade \/ Reply
  \/ ConnectForTransaction \/ DeleteAddress \/ NextInterface
  \/ LookupForFlags \/ SetFlags \/ LookupForMtu \/ SetMtu
  \/ AddAddress \/ EndTransaction
  \/ ConnectForState \/ Show \/ ReadMac \/ EndShow \/ SendState

Others ==
  \/ \E f \in Meddled : Meddle(f)
  \/ VppCrash \/ VppStart

Next ==
  /\ \/ Rpc \/ (\E t \in Targets : Transaction(t)) \/ Statedata
     \/ Serve \/ Others \/ BackendRestart
  /\ Observe

Spec == Init /\ [][Next]_vars

-----------------------------------------------------------------------------
(* Properties.                                                             *)

\* The stage of the RPC in the works.
Stage ==
  CASE pc \in {"connect", "command"} -> "asked"
    [] pc \in {"index", "reply"}     -> "decided"
    [] OTHER                         -> "idle"

\* REFINEMENT.  Every RPC keeps what RpcService promises: one command at most,
\* and a reply that is an error only if VPP could not do it.
Promise == INSTANCE RpcService WITH stage <- Stage
KeepsPromise == Promise!Spec

\* SAFETY.  When nobody else touches VPP and it stays up, a transaction -- any
\* number of lists read and commands run, by name and by index -- ends with
\* exactly what Transact says, the function CliSession and Restore use for it.
QuietTransactionIsTransact ==
  pc = "next" /\ left = {} /\ quiet => vpp = Transact(before, running, target)

\* SAFETY.  Under the same condition, the reply to a successful create names an
\* interface that was not there before and gives the index it has; the index is
\* the "not found" value only if VPP rejected the command with words nobody looks
\* for.
QuietCreateIsExact ==
  pc = "reply" /\ quiet /\ rpc \in Creating /\ outcome = "true" =>
    \/ /\ made # None /\ madeIndex # NoIndex /\ madeIndex = index[made]
       /\ ~Present(before, made)
       /\ asked \notin {None, Bond0} => made = asked
    \/ vpp = before

\* SAFETY.  State data of an undisturbed read is the list of VPP's interfaces
\* with their indexes and states.  Each has its MAC address, but for the
\* sub-interfaces: VPP gives none for them and they are reported with
\* 00:00:00:00:00:00.  An empty list means that VPP did not answer, for its own is
\* never empty.
StateDataIsWhole ==
  pc = "shown" /\ quiet =>
    rows = {[name |-> i, index |-> index[i], up |-> Up(i) \in vpp,
             mac |-> IF i \in Subs THEN "zero" ELSE "read"] :
              i \in {j \in Ifs : Present(vpp, j)}}

\* ACTION.  set_flags and set_mtu find the interface again by its index.  They
\* touch another one only if the index has changed hands since it was looked up.
StraysOnlyOnReuse ==
  [][(pc \in {"set-flags", "set-mtu"} /\ pc' \in {"mtu", "add"} /\ ~moved)
       => \A f \in (vpp \ vpp') \cup (vpp' \ vpp) : f.of = cur]_vars

=============================================================================
