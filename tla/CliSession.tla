----------------------------- MODULE CliSession -----------------------------
(***************************************************************************)
(* Operators at work: the sessions of the Cisco-style CLI                  *)
(* (src/vpp_cli_plugin.c, cli/*.cli), each a clixon_cli process.           *)
(*                                                                         *)
(* A configuration command takes effect at once: it runs vppctl on the one *)
(* VPP process all sessions share.  Most commands also note the change in  *)
(* the process's pending lists and set config_modified; the removing ones  *)
(* do neither.  `commit' forgets the pending lists, refills them from VPP  *)
(* (three reads), overwrites vpp_config.xml with them and replaces the     *)
(* Clixon candidate and running datastores, which makes the backend run a  *)
(* transaction against VPP (VppTransaction).  Nothing locks VPP, the file  *)
(* or the candidate, so every step of a commit interleaves with the other  *)
(* sessions.                                                               *)
(*                                                                         *)
(* Simplifications.  A command's probe and its vppctl call are one step.   *)
(* The addresses of all interfaces are read in one step, and so is the     *)
(* bond list with its members.  An entry of a pending list that a newer    *)
(* one of the same name hides is dropped: lookups stop at the newest, and  *)
(* the only readers of the whole list run after ds_clear_pending.  Writing *)
(* to a file that is open does not fail (the disk is never full), and of a *)
(* name or a value that a block of the text cuts in two nothing is read.   *)
(***************************************************************************)
EXTENDS VppTransaction, ConfigFile

CONSTANTS
  Sessions,      \* CLI processes
  NoIf,          \* current_interface is the empty string
  Configurable,  \* bound: the facts the operators of an instance try to set up
  Faults         \* failures that may happen: a subset of FaultKinds

FaultKinds == {
  "outage",    \* VPP dies, losing its configuration, and is started again
  "rpc",       \* a NETCONF request of a commit fails
  "open",      \* vpp_config.xml cannot be opened for writing
  "hangup"}    \* a CLI process is killed, at any point

ASSUME SessionAssumption ==
  /\ NoIf \notin Ifs
  /\ Configurable \subseteq Fact
  /\ Faults \subseteq FaultKinds

VARIABLES
  vpp,        \* the facts VPP holds
  vppUp,      \* is there a VPP process to answer vppctl?
  file,       \* contents of vpp_config.xml, by section
  candidate, running, startup,   \* Clixon datastores: facts of the interface list
  mode,       \* mode[s]: the CLI mode
  cur,        \* cur[s]: current_interface
  modified,   \* modified[s]: config_modified
  loaded,     \* loaded[s]: config_loaded
  pend,       \* pend[s]: the four pending lists
  pc,         \* pc[s]: the next step of the commit s is executing, or "idle"
  torn,       \* torn[s]: another commit has had vpp_config.xml open since s opened it
  quiet,      \* history: nothing changed VPP since s began its commit
  waived,     \* history: changes were abandoned since the last full commit
  overlapped, \* history: two commits were under way at once
  spoilt      \* history: the last commit to reach vpp_config.xml did not write it

sessionVars == <<mode, cur, modified, loaded, pend, pc>>
storeVars   == <<file, candidate, running, startup>>
historyVars == <<quiet, waived, overlapped, spoilt>>
vars == <<vpp, vppUp, storeVars, sessionVars, torn, historyVars>>

\* With the file open, and nothing or something in it.
Writing == {"write", "rest"}

CommitSteps ==
  {"list", "addrs", "bonds", "lcps", "open", "edit", "commit", "copy"} \cup Writing

StateOK ==
  /\ vpp \in SUBSET Fact
  /\ vppUp \in BOOLEAN
  /\ file \in [Lists -> SUBSET Fact]
  /\ candidate \in SUBSET Fact
  /\ running \in SUBSET Fact
  /\ startup \in SUBSET Fact
  /\ mode \in [Sessions -> {"base", "configure", "configure-if"}]
  /\ cur \in [Sessions -> Ifs \cup {NoIf}]
  /\ modified \in [Sessions -> BOOLEAN]
  /\ loaded \in [Sessions -> BOOLEAN]
  /\ pend \in [Sessions -> [Lists -> SUBSET Fact]]
  /\ pc \in [Sessions -> CommitSteps \cup {"idle"}]

HistoryOK ==
  /\ torn \in [Sessions -> BOOLEAN]
  /\ quiet \in [Sessions -> BOOLEAN]
  /\ waived \in BOOLEAN
  /\ overlapped \in BOOLEAN
  /\ spoilt \in BOOLEAN

\* TYPE.  Every variable, those of the program and the histories, has its type:
\* no step of a session, a commit or VPP puts anything but facts into VPP, the
\* file, a datastore or a pending list.
TypeOK == StateOK /\ HistoryOK

Init ==
  /\ vpp = Boot
  /\ vppUp = TRUE
  /\ file = Empty
  /\ candidate = {} /\ running = {} /\ startup = {}
  /\ mode = [s \in Sessions |-> "base"]
  /\ cur = [s \in Sessions |-> NoIf]
  /\ modified = [s \in Sessions |-> FALSE]
  /\ loaded = [s \in Sessions |-> FALSE]
  /\ pend = [s \in Sessions |-> Empty]
  /\ pc = [s \in Sessions |-> "idle"]
  /\ torn = [s \in Sessions |-> FALSE]
  /\ quiet = [s \in Sessions |-> TRUE]
  /\ waived = FALSE
  /\ overlapped = FALSE
  /\ spoilt = FALSE

-----------------------------------------------------------------------------
(* The pending lists.                                                      *)

\* Entries put in front of a list hide the older ones of the same name.
Overlay(new, old) ==
  new \cup {g \in old : \A f \in new : EntryOf(f) # EntryOf(g)}

\* ds_load_config_from_file reads three of the four sections, and of each
\* interface only the first address, which is the IPv4 one when there is one (an
\* IPv6 address alone is put where the IPv4 one belongs).
FromFile(l) ==
  CASE l = "ifs"    -> {f \in file["ifs"] : f.val \in Addr6 =>
                          \A g \in file["ifs"] :
                            ~(g.kind = "addr" /\ g.of = f.of /\ g.val \in Addr4)}
    [] l = "subifs" -> {}
    [] OTHER        -> file[l]

\* The file is read once per process, before the first change it notes.
Loaded(s) ==
  IF loaded[s] THEN pend[s]
  ELSE [l \in Lists |-> Overlay(FromFile(l), pend[s][l])]

\* A field of an entry holds one value; the member list of a bond grows.
Overwrites(f, g) ==
  /\ f.kind = g.kind /\ f.of = g.of
  /\ f.kind = "addr" => SameSlot(f, g)
  /\ f.kind = "member" => f.val = g.val

Save(p, l, f) ==
  [p EXCEPT ![l] = {g \in @ : ~Overwrites(f, g)} \cup {f}]

\* ds_add_bond_member does nothing for a bond that has no entry.
SaveMember(p, f) ==
  IF \E g \in p["bonds"] : EntryOf(g) = f.val THEN Save(p, "bonds", f) ELSE p

-----------------------------------------------------------------------------
(* Changing commands.                                                      *)

Idle(s, m) == pc[s] = "idle" /\ mode[s] = m

Select(s, i) ==
  /\ cur' = [cur EXCEPT ![s] = i]
  /\ mode' = [mode EXCEPT ![s] = "configure-if"]

\* CONFIG_CHANGED() after a ds_save_*: what every noted command ends with.
Note(s, p) ==
  /\ pend' = [pend EXCEPT ![s] = p]
  /\ loaded' = [loaded EXCEPT ![s] = TRUE]
  /\ modified' = [modified EXCEPT ![s] = TRUE]

\* vpp_exec of a command that makes f true: the exit status is 0 whenever VPP
\* answers, so the change is noted even when VPP rejects it.
NotedCommand(s, l, f) ==
  /\ vppUp /\ f \in Configurable
  /\ vpp' = Establish(vpp, f)
  /\ Note(s, Save(Loaded(s), l, f))
  /\ UNCHANGED <<vppUp, storeVars, pc>>

\* A removing command: VPP loses the facts gone and nothing else is noted.
UnnotedCommand(s, gone) ==
  /\ vppUp
  /\ vpp' = vpp \ gone
  /\ UNCHANGED <<vppUp, storeVars, sessionVars>>

NothingDone(s) == UNCHANGED <<vpp, vppUp, storeVars, modified, loaded, pend, pc>>

-----------------------------------------------------------------------------
(* Configure mode.                                                         *)

Configure(s) ==
  /\ Idle(s, "base")
  /\ mode' = [mode EXCEPT ![s] = "configure"]
  /\ NothingDone(s) /\ UNCHANGED cur

\* `exit' in configure mode asks nothing.
ExitConfigure(s) ==
  /\ Idle(s, "configure")
  /\ mode' = [mode EXCEPT ![s] = "base"]
  /\ NothingDone(s) /\ UNCHANGED cur

\* A name without a dot is taken as it is, whether VPP knows it or not.
CliInterfaceSelect(s, i) ==
  /\ Idle(s, "configure")
  /\ i \notin Subs
  /\ Select(s, i)
  /\ NothingDone(s)

\* A sub-interface VPP does not know is created -- if VPP's answer contains
\* "unknown interface".  The answer "unknown input", which
\* cli_create_subif_simple also expects, is taken for a description of i.
CliInterfaceSelectSub(s, i) ==
  /\ Idle(s, "configure")
  /\ i \in Subs
  /\ \/ vppUp /\ Select(s, i) /\ NothingDone(s)
     \/ /\ ~Present(vpp, i)
        /\ NotedCommand(s, "subifs", Exists(i)) /\ Select(s, i)
     \/ /\ ~vppUp                          \* -1: the name stays selected
        /\ cur' = [cur EXCEPT ![s] = i]
        /\ NothingDone(s) /\ UNCHANGED mode

CliCreateSubifSimple(s, i) ==
  /\ Idle(s, "configure")
  /\ i \in Subs
  /\ \/ vppUp /\ Present(vpp, i) /\ Select(s, i) /\ NothingDone(s)
     \/ /\ ~Present(vpp, i)
        /\ NotedCommand(s, "subifs", Exists(i)) /\ Select(s, i)
     \/ /\ ~vppUp
        /\ cur' = [cur EXCEPT ![s] = i]
        /\ NothingDone(s) /\ UNCHANGED mode

CliCreateBondNamed(s, b) ==
  /\ Idle(s, "configure")
  /\ b \in Bonds
  /\ Select(s, b)
  /\ \/ vppUp /\ Present(vpp, b) /\ NothingDone(s)
     \/ ~Present(vpp, b) /\ NotedCommand(s, "bonds", Exists(b))

CliCreateLoopbackInstance(s, i) ==
  /\ Idle(s, "configure")
  /\ i \in Loops
  /\ Select(s, i)
  /\ NotedCommand(s, "ifs", Exists(i))

\* VPP picks the name.  With VPP gone and g_connected still set, the name is
\* the text of the error: a name of no interface.
CliCreateLoopback(s, i) ==
  /\ Idle(s, "configure")
  /\ i \in Loops /\ ~Present(vpp, i) /\ Exists(i) \in Configurable
  /\ Select(s, i)
  /\ \/ NotedCommand(s, "ifs", Exists(i))
     \/ /\ ~vppUp
        /\ Note(s, Save(Loaded(s), "ifs", Exists(i)))
        /\ UNCHANGED <<vpp, vppUp, storeVars, pc>>

CliNoInterface(s, i) ==
  /\ Idle(s, "configure")
  /\ i \notin Phys
  /\ UnnotedCommand(s, vpp \ Delete(vpp, i))

-----------------------------------------------------------------------------
(* Interface mode: commands on current_interface.                          *)

CliIfMtu(s, m) ==
  /\ Idle(s, "configure-if")
  /\ NotedCommand(s, "ifs", Mtu(cur[s], m))
  /\ UNCHANGED <<cur, mode>>

\* `mtu 9000': what VPP has by itself, hence no fact.
CliIfMtuDefault(s) ==
  /\ Idle(s, "configure-if")
  /\ vppUp
  /\ vpp' = {f \in vpp : ~(f.kind = "mtu" /\ f.of = cur[s])}
  /\ Note(s, Save(Loaded(s), "ifs", Mtu(cur[s], None)))
  /\ UNCHANGED <<vppUp, storeVars, pc, cur, mode>>

CliIfNoShutdown(s) ==
  /\ Idle(s, "configure-if")
  /\ NotedCommand(s, "ifs", Up(cur[s]))
  /\ UNCHANGED <<cur, mode>>

CliIfShutdown(s) ==
  /\ Idle(s, "configure-if")
  /\ UnnotedCommand(s, {Up(cur[s])})

CliIfIpAddress(s, a) ==
  /\ Idle(s, "configure-if")
  /\ a \in Addr4
  /\ NotedCommand(s, "ifs", Address(cur[s], a))
  /\ UNCHANGED <<cur, mode>>

CliIfIpv6Address(s, a) ==
  /\ Idle(s, "configure-if")
  /\ a \in Addr6
  /\ NotedCommand(s, "ifs", Address(cur[s], a))
  /\ UNCHANGED <<cur, mode>>

\* `bond add' for interface p; the change is noted under the bond's entry.
JoinBond(s, v, p, b) ==
  /\ vppUp /\ Member(p, b) \in Configurable
  /\ vpp' = Establish(v, Member(p, b))
  /\ Note(s, SaveMember(Loaded(s), Member(p, b)))
  /\ UNCHANGED <<vppUp, storeVars, pc, cur, mode>>

CliIfChannelGroup(s, b) ==
  /\ Idle(s, "configure-if")
  /\ JoinBond(s, vpp, cur[s], b)

\* The member is brought up first.
CliBondAddMember(s, p) ==
  /\ Idle(s, "configure-if")
  /\ cur[s] \in Bonds
  /\ JoinBond(s, Establish(vpp, Up(p)), p, cur[s])

\* Creates a sub-interface of the current interface and moves to it; the
\* answer "unknown input" is taken for an existing one.
CliIfVlan(s, i) ==
  /\ Idle(s, "configure-if")
  /\ i \in Subs /\ Parent[i] = cur[s]
  /\ Select(s, i)
  /\ \/ vppUp /\ NothingDone(s)
     \/ ~Present(vpp, i) /\ NotedCommand(s, "subifs", Exists(i))

\* The one command whose answer is searched for an error.  An answer with
\* neither "failed" nor "error" in it still counts as success; the others
\* change nothing.
CliIfLcp(s, l) ==
  /\ Idle(s, "configure-if")
  /\ NotedCommand(s, "lcps", Pair(cur[s], l))
  /\ UNCHANGED <<cur, mode>>

CliIfNoIpAddress(s, a) ==
  /\ Idle(s, "configure-if")
  /\ UnnotedCommand(s, {Address(cur[s], a)})

CliIfNoIpAddressAll(s) ==
  /\ Idle(s, "configure-if")
  /\ UnnotedCommand(s, {f \in vpp : f.kind = "addr" /\ f.of = cur[s]})

CliIfNoChannelGroup(s) ==
  /\ Idle(s, "configure-if")
  /\ UnnotedCommand(s, {f \in vpp : f.kind = "member" /\ f.of = cur[s]})

CliIfNoLcp(s) ==
  /\ Idle(s, "configure-if")
  /\ UnnotedCommand(s, {f \in vpp : f.kind = "lcp" /\ f.of = cur[s]})

CliIfExit(s) ==
  /\ Idle(s, "configure-if")
  /\ cur' = [cur EXCEPT ![s] = NoIf]
  /\ mode' = [mode EXCEPT ![s] = "configure"]
  /\ NothingDone(s)

-----------------------------------------------------------------------------
(* Commit, step by step.                                                   *)

At(s, step) == pc[s] = step
Goto(s, step) == pc' = [pc EXCEPT ![s] = step]
Fill(s, l, facts) == pend' = [pend EXCEPT ![s][l] = facts]
InCommit(s) == UNCHANGED <<mode, cur, loaded>>

\* (Mutant of CliVppCommit: the sub-interface list is not cleared.)
CliVppCommitKeepingSubifs(s) ==
  /\ pc[s] = "idle" /\ mode[s] # "base"
  /\ pend' = [pend EXCEPT ![s] = [Empty EXCEPT !["subifs"] = pend[s]["subifs"]]]
  /\ Goto(s, "list")
  /\ InCommit(s) /\ UNCHANGED <<vpp, vppUp, storeVars, modified>>

\* ds_clear_pending
CliVppCommit(s) ==
  /\ pc[s] = "idle" /\ mode[s] # "base"
  /\ pend' = [pend EXCEPT ![s] = Empty]
  /\ Goto(s, "list")
  /\ InCommit(s) /\ UNCHANGED <<vpp, vppUp, storeVars, modified>>

\* A read that fails leaves its list empty and the commit goes on.
SyncList(s) ==
  /\ At(s, "list")
  /\ Fill(s, "ifs", IF vppUp THEN ReadList(vpp) ELSE {})
  /\ Goto(s, "addrs")
  /\ InCommit(s) /\ UNCHANGED <<vpp, vppUp, storeVars, modified>>

\* (Mutant of SyncAddrs: the inet6 lines are not read.)
SyncAddrsIpv4Only(s) ==
  /\ At(s, "addrs")
  /\ \E r \in SUBSET Of(vpp, {"addr", "mtu"}) :
       /\ IsAddrRead(r, IF vppUp THEN vpp ELSE {}, pend[s]["ifs"])
       /\ Fill(s, "ifs", pend[s]["ifs"] \cup {f \in r : f.val \notin Addr6})
  /\ Goto(s, "bonds")
  /\ InCommit(s) /\ UNCHANGED <<vpp, vppUp, storeVars, modified>>

\* For each interface listed, `show interface addr'; a read that fails adds nothing.
SyncAddrs(s) ==
  /\ At(s, "addrs")
  /\ \E r \in SUBSET Of(vpp, {"addr", "mtu"}) :
       /\ IsAddrRead(r, IF vppUp THEN vpp ELSE {}, pend[s]["ifs"])
       /\ Fill(s, "ifs", pend[s]["ifs"] \cup r)
  /\ Goto(s, "bonds")
  /\ InCommit(s) /\ UNCHANGED <<vpp, vppUp, storeVars, modified>>

\* (Mutant of SyncBonds: ds_sync_bonds_from_vpp without its second half.)
SyncBondsWithoutMembers(s) ==
  /\ At(s, "bonds")
  /\ Fill(s, "bonds", IF vppUp THEN {f \in ReadBonds(vpp) : f.kind # "member"} ELSE {})
  /\ Goto(s, "lcps")
  /\ InCommit(s) /\ UNCHANGED <<vpp, vppUp, storeVars, modified>>

SyncBonds(s) ==
  /\ At(s, "bonds")
  /\ Fill(s, "bonds", IF vppUp THEN ReadBonds(vpp) ELSE {})
  /\ Goto(s, "lcps")
  /\ InCommit(s) /\ UNCHANGED <<vpp, vppUp, storeVars, modified>>

\* (Mutant of SyncLcps: the call is left out of cli_vpp_commit.)
SyncLcpsLeftOut(s) ==
  /\ At(s, "lcps")
  /\ Goto(s, "open")
  /\ InCommit(s) /\ UNCHANGED <<vpp, vppUp, storeVars, modified, pend>>

SyncLcps(s) ==
  /\ At(s, "lcps")
  /\ \E ns \in [Ifs -> Netns \cup {None}] :
       Fill(s, "lcps", IF vppUp THEN PairRead(vpp, ns) ELSE {})
  /\ Goto(s, "open")
  /\ InCommit(s) /\ UNCHANGED <<vpp, vppUp, storeVars, modified>>

\* fopen(..., "w") empties the file.  When it fails nobody looks.
OpenFile(s) ==
  /\ At(s, "open")
  /\ \/ file' = Empty /\ Goto(s, "write")
     \/ "open" \in Faults /\ UNCHANGED file /\ Goto(s, "edit")
  /\ InCommit(s)
  /\ UNCHANGED <<vpp, vppUp, candidate, running, startup, pend, modified>>

\* (Mutant of WriteFile: nothing is written unless something was marked.)
WriteFileIfModified(s) ==
  /\ pc[s] \in Writing
  /\ file' = IF modified[s] THEN pend[s] ELSE file
  /\ Goto(s, "edit")
  /\ InCommit(s)
  /\ UNCHANGED <<vpp, vppUp, candidate, running, startup, pend, modified>>

\* stdio's buffer is full: fprintf writes a block, and a longer start of the text is
\* in the file.  If another commit has emptied the file since s opened it, or had it
\* open already, each writes on at its own place: what is read then may be of
\* either text or of both.
FlushBlock(s) ==
  /\ pc[s] \in Writing
  /\ \/ ~torn[s] /\ file' \in Starts(pend[s]) /\ \A l \in Lists : file[l] \subseteq file'[l]
     \/ torn[s] /\ file' \in Mixtures(file, pend[s])
  /\ Goto(s, "rest")
  /\ InCommit(s)
  /\ UNCHANGED <<vpp, vppUp, candidate, running, startup, pend, modified>>

\* fclose writes the rest.  A text no block of which was written before gets into the
\* file whole, and over what others have written there.
WriteFile(s) ==
  /\ pc[s] \in Writing
  /\ \/ ~torn[s] /\ file' = pend[s]
     \/ /\ torn[s] /\ file' \in Mixtures(file, pend[s])
        /\ At(s, "write") => \A l \in Lists : pend[s][l] \subseteq file'[l]
  /\ Goto(s, "edit")
  /\ InCommit(s)
  /\ UNCHANGED <<vpp, vppUp, candidate, running, startup, pend, modified>>

\* A refused request ends the commit with -1; the file stays as written and
\* config_modified as it was.
RequestFails(s) ==
  /\ "rpc" \in Faults
  /\ Goto(s, "idle")
  /\ UNCHANGED <<vpp, candidate, running>>

\* (Mutant of EditCandidate: OP_MERGE instead of OP_REPLACE.)
EditCandidateMerging(s) ==
  /\ At(s, "edit")
  /\ candidate' = candidate \cup pend[s]["ifs"]
  /\ Goto(s, "commit")
  /\ InCommit(s) /\ UNCHANGED <<vpp, vppUp, file, running, startup, pend, modified>>

\* OP_REPLACE: nothing of the shared candidate survives.
EditCandidate(s) ==
  /\ At(s, "edit")
  /\ \/ /\ candidate' = pend[s]["ifs"]
        /\ Goto(s, "commit")
        /\ UNCHANGED <<vpp, running>>
     \/ RequestFails(s)
  /\ InCommit(s) /\ UNCHANGED <<vppUp, file, startup, pend, modified>>

\* The backend commits whatever the shared candidate now holds.
CommitRunning(s) ==
  /\ At(s, "commit")
  /\ \/ /\ running' = candidate
        /\ vpp' = IF vppUp THEN Transact(vpp, running, candidate) ELSE vpp
        /\ Goto(s, "copy")
        /\ UNCHANGED candidate
     \/ RequestFails(s)
  /\ InCommit(s) /\ UNCHANGED <<vppUp, file, startup, pend, modified>>

\* A failed copy is only a warning.
CopyStartup(s) ==
  /\ At(s, "copy")
  /\ \/ startup' = running
     \/ "rpc" \in Faults /\ UNCHANGED startup
  /\ modified' = [modified EXCEPT ![s] = FALSE]
  /\ Goto(s, "idle")
  /\ InCommit(s) /\ UNCHANGED <<vpp, vppUp, file, candidate, running, pend>>

-----------------------------------------------------------------------------
(* Leaving.                                                                *)

\* `end': with config_modified set, only "yes" leaves and clears the flag; at
\* the end of input the command falls through and leaves the flag.
CliEndConfirm(s) ==
  /\ pc[s] = "idle" /\ mode[s] # "base"
  /\ cur' = [cur EXCEPT ![s] = NoIf]
  /\ mode' = [mode EXCEPT ![s] = "base"]
  /\ \/ modified' = [modified EXCEPT ![s] = FALSE]
     \/ UNCHANGED modified
  /\ UNCHANGED <<vpp, vppUp, storeVars, loaded, pend, pc>>

\* `quit' asks nothing; the next process starts from nothing.
NewProcess(s) ==
  /\ mode' = [mode EXCEPT ![s] = "base"]
  /\ cur' = [cur EXCEPT ![s] = NoIf]
  /\ modified' = [modified EXCEPT ![s] = FALSE]
  /\ loaded' = [loaded EXCEPT ![s] = FALSE]
  /\ pend' = [pend EXCEPT ![s] = Empty]
  /\ Goto(s, "idle")
  /\ UNCHANGED <<vpp, vppUp, storeVars>>

Quit(s) == Idle(s, "base") /\ NewProcess(s)

Hangup(s) == "hangup" \in Faults /\ NewProcess(s)

-----------------------------------------------------------------------------
(* VPP dies and is started again; only its physical interfaces come back.  *)

VppCrash ==
  /\ "outage" \in Faults /\ vppUp
  /\ vppUp' = FALSE
  /\ vpp' = Boot
  /\ UNCHANGED <<storeVars, sessionVars>>

VppStart ==
  /\ ~vppUp
  /\ vppUp' = TRUE
  /\ UNCHANGED <<vpp, storeVars, sessionVars>>

-----------------------------------------------------------------------------

Enter(s) ==
  \/ Configure(s) \/ ExitConfigure(s)
  \/ \E i \in Ifs :
       \/ CliInterfaceSelect(s, i) \/ CliInterfaceSelectSub(s, i)
       \/ CliCreateSubifSimple(s, i) \/ CliCreateBondNamed(s, i)
       \/ CliCreateLoopbackInstance(s, i) \/ CliCreateLoopback(s, i)
       \/ CliNoInterface(s, i)

Edit(s) ==
  \/ \E m \in Mtus : CliIfMtu(s, m)
  \/ CliIfMtuDefault(s)
  \/ CliIfNoShutdown(s) \/ CliIfShutdown(s)
  \/ \E a \in Addrs :
       CliIfIpAddress(s, a) \/ CliIfIpv6Address(s, a) \/ CliIfNoIpAddress(s, a)
  \/ CliIfNoIpAddressAll(s)
  \/ \E b \in Bonds : CliIfChannelGroup(s, b)
  \/ \E p \in Phys : CliBondAddMember(s, p)
  \/ CliIfNoChannelGroup(s)
  \/ \E i \in Subs : CliIfVlan(s, i)
  \/ \E l \in Links : CliIfLcp(s, l)
  \/ CliIfNoLcp(s)
  \/ CliIfExit(s)

Commit(s) ==
  \/ CliVppCommit(s)
  \/ SyncList(s) \/ SyncAddrs(s) \/ SyncBonds(s) \/ SyncLcps(s)
  \/ OpenFile(s) \/ FlushBlock(s) \/ WriteFile(s)
  \/ EditCandidate(s) \/ CommitRunning(s) \/ CopyStartup(s)

Leave(s) == CliEndConfirm(s) \/ Quit(s) \/ Hangup(s)

\* Who has vpp_config.xml open beside others, and the history variables: they
\* record, and restrict nothing.
Observe ==
  /\ torn' = [s \in Sessions |->
       /\ pc'[s] \in Writing
       /\ \/ pc[s] \in Writing /\ torn[s]
          \/ \E t \in Sessions \ {s} : pc'[t] \in Writing]
  /\ quiet' = [s \in Sessions |->
       \/ pc[s] = "idle"
       \/ quiet[s] /\ (pc'[s] # pc[s] \/ (vpp' = vpp /\ vppUp' = vppUp))]
  /\ waived' =
       IF \E s \in Sessions : pc[s] = "copy" /\ pc'[s] = "idle" /\ quiet[s]
       THEN FALSE
       ELSE waived \/ \E s \in Sessions :
              modified[s] /\ ~modified'[s] /\ mode'[s] = "base" /\ pc[s] # "copy"
  /\ overlapped' = (overlapped \/ \E s, t \in Sessions :
                      s # t /\ pc'[s] # "idle" /\ pc'[t] # "idle")
  /\ spoilt' =
       IF \E s \in Sessions : pc[s] \in Writing /\ pc'[s] = "edit" THEN FALSE
       ELSE spoilt \/ \E s \in Sessions :
              \/ pc[s] = "open" /\ pc'[s] = "edit"
              \/ pc[s] \in Writing /\ pc'[s] = "idle"

Next ==
  /\ \/ \E s \in Sessions : Enter(s) \/ Edit(s) \/ Commit(s) \/ Leave(s)
     \/ VppCrash \/ VppStart
  /\ Observe

Spec == Init /\ [][Next]_vars

-----------------------------------------------------------------------------
(* Properties.                                                             *)

AllIdle == \A s \in Sessions : pc[s] = "idle"

\* What an operator expects to survive: everything but the hardware, and the MTUs
\* that a transaction imposed because Clixon filled in YANG's default.  No operator
\* asked for those, and a commit has read VPP before they are there.
Imposed(f) == DefaultsFilled /\ f.kind = "mtu" /\ f.val = YangMtu
Worth(v) == {f \in v \ Boot : ~Imposed(f)}

\* SAFETY.  As long as no two commits overlapped: when no commit is under way,
\* no session is marked modified and nobody abandoned changes, everything
\* worth keeping in VPP is in vpp_config.xml, unless the last write of that file
\* failed.  It relates the flag `end' trusts to what a restart would find, across
\* edits, commits, refused requests, killed sessions and VPP restarts.
NothingLostSilently ==
  ~overlapped /\ ~spoilt /\ ~waived /\ AllIdle /\ (\A s \in Sessions : ~modified[s])
    => \A f \in Worth(vpp) : Kept(f, file)

\* The same without the proviso: what an operator reads into "Configuration
\* committed".  Two overlapping commits break it.
CommittedIsSaved ==
  ~waived /\ AllIdle /\ (\A s \in Sessions : ~modified[s])
    => \A f \in Worth(vpp) : Kept(f, file)

\* The converse, which README's "Uncommitted changes warning on `end`" needs:
\* with no session marked modified, the file has nothing VPP lacks.
UnwarnedMeansSame ==
  ~waived /\ vppUp /\ AllIdle /\ (\A s \in Sessions : ~modified[s])
    => \A l \in Lists : file[l] \ Boot \subseteq vpp

\* SAFETY.  When nothing disturbed VPP since a commit began, what the commit is
\* about to write is a reading of VPP as it stands: nothing noted in the
\* pending lists, loaded from the old file or left by an earlier commit gets in.
QuietCommitIsExact ==
  \A s \in Sessions :
    pc[s] \in {"open"} \cup Writing /\ quiet[s] /\ vppUp => pend[s] \in Snapshots(vpp)

\* SAFETY.  And when such a commit ends the file has all of it: also what other
\* sessions changed before it began and abandoned, or have still marked, since a
\* commit saves VPP and not one session's changes.
QuietCommitSaves ==
  ~overlapped /\ ~spoilt =>
    \A s \in Sessions : pc[s] = "copy" /\ quiet[s] => \A f \in Worth(vpp) : Kept(f, file)

\* SAFETY.  vpp_config.xml never has a <subinterfaces> section, although
\* ds_write_config_file can write one and seven commands note sub-interfaces:
\* their survival rests on the dotted names of the interface section alone.
NoSubifSection == file["subifs"] = {}

\* SAFETY.  Between commits that did not overlap, the file and the three
\* datastores agree on the interfaces (as long as no request fails).
StoresAgree ==
  ~overlapped /\ AllIdle
    => candidate = running /\ startup = running /\ file["ifs"] = running

\* ACTION.  The transaction of an undisturbed commit leaves VPP as it was,
\* except that it may take away an address of a family of which another one was
\* read, and that YANG's default MTU is imposed where the commit read none.
QuietCommitHarmless ==
  [][\A s \in Sessions :
       /\ ~overlapped /\ quiet[s] /\ pc[s] = "commit" /\ pc'[s] = "copy"
       => /\ \A f \in vpp \ vpp' :
               \/ f.kind = "addr" /\ \E g \in vpp' : SameSlot(f, g)
               \/ DefaultsFilled /\ f.kind = "mtu" /\ f.of \in Subs
          /\ \A f \in vpp' \ vpp :
               DefaultsFilled /\ f.kind = "mtu" /\ f.val = YangMtu]_vars

\* ACTION.  A commit stores the configuration of VPP and does not change it: the
\* help text is "Commit configuration to datastore".
CommitOnlyStores ==
  [][\A s \in Sessions :
       quiet[s] /\ pc[s] = "commit" /\ pc'[s] = "copy" => vpp' = vpp]_vars

=============================================================================
