------------------------------- MODULE Restore -------------------------------
(***************************************************************************)
(* How a saved configuration gets back into VPP.                           *)
(*                                                                         *)
(* Two programs read vpp_config.xml and issue vppctl commands, with no     *)
(* knowledge of one another: the backend plugin each time it starts        *)
(* (vpp_plugin_start), and vpp-config-loader.sh once per boot.  They take  *)
(* the sections in different orders, neither looks at what a command       *)
(* answers, and neither tries anything twice.  systemd starts the backend  *)
(* at boot, stops it when VPP dies (BindsTo), and restarts it 90 seconds   *)
(* after every start of VPP (the drop-in restart-clixon.conf), whatever it *)
(* is doing then.                                                          *)
(*                                                                         *)
(* The machine has just booted; the file is what a commit had written.     *)
(* Operators may commit meanwhile.  A commit is one step here: what its    *)
(* steps do, and that it writes a snapshot of VPP, is CliSession's matter. *)
(***************************************************************************)
EXTENDS VppTransaction, ConfigFile, Naturals

CONSTANTS
  Built,    \* the configuration VPP had at the last commit before the boot
  Saved,    \* what that commit wrote to vpp_config.xml
  Crashes,  \* bound: how often VPP or the backend dies
  Commits   \* bound: how often an operator commits

\* Can VPP be in state v?  Every fact in it has been accepted beside the others.
WellFormed(v) ==
  /\ Boot \subseteq v
  /\ v \subseteq Fact
  /\ \A f \in v \ Boot : Accepts(v \ {f}, f) /\ Superseded(v \ {f}, f) = {}

ASSUME RestoreAssumption ==
  /\ WellFormed(Built)
  /\ Saved \in Snapshots(Built)
  /\ Crashes \in Nat
  /\ Commits \in Nat

VARIABLES
  vpp, vppUp, file, running,   \* as in CliSession
  phase,       \* phase[r]: what the restorer r is doing
  names,       \* names[r]: entries of the section r has yet to take
  todo,        \* todo[r]: facts of the entry in hand, yet to be established
  held,        \* the text of the file as the backend has it in its buffer
  restartDue,  \* is the drop-in's "sleep 90 && systemctl restart" under way?
  crashes, commits,
  whole        \* history: VPP has not died since the backend began its pass

restorers == <<phase, names, todo, held>>
bounds == <<crashes, commits>>
vars == <<vpp, vppUp, file, running, restorers, restartDue, bounds, whole>>

Restorers == {"backend", "loader"}
Sections == {"bonds", "lcps", "ifs"}
BackendPhases == Sections \cup {"down", "stopped", "connect", "up"}
LoaderPhases == Sections \cup {"off", "wait", "done"}

\* The order in which each takes the sections, and where it ends.
NextPhase(r) ==
  IF r = "backend" THEN [bonds |-> "lcps", lcps |-> "ifs", ifs |-> "up"]
  ELSE [bonds |-> "ifs", ifs |-> "lcps", lcps |-> "done"]

Working(r) == phase[r] \in Sections

\* TYPE.  Every variable has its type, and only a restorer at work in a section
\* has entries or facts in hand: a backend that is stopped or restarted forgets
\* the rest of its pass.
TypeOK ==
  /\ vpp \in SUBSET Fact
  /\ vppUp \in BOOLEAN
  /\ file \in [Lists -> SUBSET Fact]
  /\ running \in SUBSET Fact
  /\ phase \in [Restorers -> BackendPhases \cup LoaderPhases]
  /\ phase["backend"] \in BackendPhases /\ phase["loader"] \in LoaderPhases
  /\ names \in [Restorers -> SUBSET Ifs]
  /\ todo \in [Restorers -> SUBSET Fact]
  /\ \A r \in Restorers : ~Working(r) => names[r] = {} /\ todo[r] = {}
  /\ held \in [Lists -> SUBSET Fact]
  /\ restartDue \in BOOLEAN
  /\ crashes \in 0..Crashes
  /\ commits \in 0..Commits
  /\ whole \in BOOLEAN

Init ==
  /\ vpp = Boot
  /\ vppUp = FALSE
  /\ file = Saved
  /\ running = {}
  /\ phase = [r \in Restorers |-> IF r = "backend" THEN "down" ELSE "off"]
  /\ names = [r \in Restorers |-> {}]
  /\ todo = [r \in Restorers |-> {}]
  /\ held = Empty
  /\ restartDue = FALSE
  /\ crashes = 0
  /\ commits = 0
  /\ whole = FALSE

-----------------------------------------------------------------------------
(* One pass over the file.                                                 *)

\* r enters a phase; in a section it lists the entries that contents has there.
Enter(r, ph, contents) ==
  /\ phase' = [phase EXCEPT ![r] = ph]
  /\ names' = [names EXCEPT ![r] =
                 IF ph \in Sections THEN Entries(contents, ph) ELSE {}]
  /\ todo' = [todo EXCEPT ![r] = {}]

\* The backend has read the file into a buffer; the script runs xmllint on the
\* file for every field.
Seen(r) == IF r = "backend" THEN held ELSE file

\* A bond is created, brought up whatever its saved state, and its members are
\* brought up and added.
BondCommands(b, contents) ==
  LET joins == {f \in Of(contents["bonds"], {"member"}) : f.val = b} IN
  {Exists(b), Up(b)} \cup {Up(f.of) : f \in joins} \cup joins

\* The backend creates sub-interfaces and sets no MTU, the script sets MTUs and
\* creates nothing; neither creates a loopback.
Replays(r, f) ==
  \/ f.kind \in {"up", "addr"}
  \/ r = "backend" /\ f.kind = "exists" /\ f.of \in Subs
  \/ r = "loader" /\ f.kind = "mtu"

\* (Mutant of Commands: ipv4[] is not reset at <interface>.)
CommandsNoReset(r, n, contents) ==
  CASE phase[r] = "bonds" -> BondCommands(n, contents)
    [] phase[r] = "ifs"   -> {f \in contents["ifs"] : f.of = n /\ Replays(r, f)}
                             \cup {Address(n, f.val) : f \in Of(contents["ifs"], {"addr"})}
    [] OTHER              -> {f \in contents["lcps"] : f.of = n}

\* The commands for the entry n.
Commands(r, n, contents) ==
  CASE phase[r] = "bonds" -> BondCommands(n, contents)
    [] phase[r] = "ifs"   -> {f \in contents["ifs"] : f.of = n /\ Replays(r, f)}
    [] OTHER              -> {f \in contents["lcps"] : f.of = n}

\* (Mutant of Rank: the sub-interface is brought up before it is created.)
RankCreateLate(f) ==
  CASE f.kind = "exists" -> 1
    [] f.kind = "up"     -> 0
    [] f.kind = "mtu"    -> 2
    [] f.kind = "addr"   -> IF f.val \in Addr4 THEN 3 ELSE 4
    [] OTHER             -> 5

\* In what order the commands of one entry are issued.
Rank(f) ==
  CASE f.kind = "exists" -> 0
    [] f.kind = "up"     -> 1
    [] f.kind = "mtu"    -> 2
    [] f.kind = "addr"   -> IF f.val \in Addr4 THEN 3 ELSE 4
    [] OTHER             -> 5

Precedes(f, g) ==
  IF f.of = g.of THEN Rank(f) < Rank(g) ELSE f.of \in Bonds

PickEntry(r) ==
  /\ Working(r) /\ todo[r] = {}
  /\ \E n \in names[r] :
       /\ names' = [names EXCEPT ![r] = @ \ {n}]
       /\ todo' = [todo EXCEPT ![r] = Commands(r, n, Seen(r))]
  /\ UNCHANGED <<vpp, vppUp, file, running, phase, held, restartDue, bounds, whole>>

\* The script looks first whether a bond or a pair is there, by grepping for
\* the name in VPP's answer.  For an unknown bond VPP may answer with an error
\* that quotes the name.  A pair is found on any line with the name in it: that
\* of a sub-interface surely has its parent's name, others may.
FoundThere(f) ==
  CASE f.kind = "exists" -> {TRUE, Present(vpp, f.of)}
    [] f.kind = "lcp"    -> {\E g \in Of(vpp, {"lcp"}) : g.of \in Tree(f.of),
                             Of(vpp, {"lcp"}) # {}}
    [] OTHER             -> {FALSE}

\* The next command of the entry in hand.  Its answer is not looked at.
Issue(r) ==
  /\ \E f \in todo[r] :
       /\ \A g \in todo[r] : ~Precedes(g, f)
       /\ todo' = [todo EXCEPT ![r] = @ \ {f}]
       /\ \E there \in IF r = "loader" /\ vppUp THEN FoundThere(f) ELSE {FALSE} :
            vpp' = IF vppUp /\ ~there THEN Establish(vpp, f) ELSE vpp
  /\ UNCHANGED <<vppUp, file, running, phase, names, held, restartDue, bounds, whole>>

\* On to the next section.  The backend rewinds, which may or may not make it
\* read the file again; the script starts xmllint again.
EndSection(r) ==
  /\ Working(r) /\ names[r] = {} /\ todo[r] = {}
  /\ held' \in IF r = "backend" THEN {held, file} ELSE {held}
  /\ Enter(r, NextPhase(r)[phase[r]], IF r = "backend" THEN held' ELSE file)
  /\ UNCHANGED <<vpp, vppUp, file, running, restartDue, bounds, whole>>

-----------------------------------------------------------------------------
(* The backend's start and stop.                                           *)

\* ExecStartPre has seen VPP answer.  startup mode is `init': running is empty.
Launch ==
  /\ vppUp
  /\ Enter("backend", "connect", Empty)
  /\ running' = {}
  /\ UNCHANGED <<vpp, vppUp, file, held, bounds, whole>>

\* At boot, and after a failure (Restart=on-failure).
StartBackend ==
  /\ phase["backend"] = "down"
  /\ Launch /\ UNCHANGED restartDue

\* systemd may bring the backend back together with VPP; the drop-in is there
\* because that is not relied upon.
FollowVpp ==
  /\ phase["backend"] = "stopped"
  /\ Launch /\ UNCHANGED restartDue

\* The drop-in: `systemctl restart', in whatever state the backend is.
RestartBackend ==
  /\ restartDue
  /\ Launch /\ restartDue' = FALSE

\* vpp_connect, then the file is opened.  Without VPP the backend runs on and
\* the restoring code is never reached.
BackendConnect ==
  /\ phase["backend"] = "connect"
  /\ IF vppUp THEN Enter("backend", "bonds", file) /\ held' = file
     ELSE Enter("backend", "up", Empty) /\ UNCHANGED held
  /\ whole' = vppUp
  /\ UNCHANGED <<vpp, vppUp, file, running, restartDue, bounds>>

\* (Mutant of StopBackend: the pass is carried on after the stop.)
StopBackendCarryOn ==
  /\ ~vppUp /\ phase["backend"] \notin {"down", "stopped"}
  /\ phase' = [phase EXCEPT !["backend"] = "stopped"]
  /\ UNCHANGED <<vpp, vppUp, file, running, names, todo, held, restartDue, bounds, whole>>

\* BindsTo=vpp.service: the backend goes down with VPP.
StopBackend ==
  /\ ~vppUp /\ phase["backend"] \notin {"down", "stopped"}
  /\ Enter("backend", "stopped", Empty)
  /\ UNCHANGED <<vpp, vppUp, file, running, held, restartDue, bounds, whole>>

BackendFails ==
  /\ crashes < Crashes
  /\ phase["backend"] \notin {"down", "stopped"}
  /\ Enter("backend", "down", Empty)
  /\ crashes' = crashes + 1
  /\ UNCHANGED <<vpp, vppUp, file, running, held, restartDue, commits, whole>>

-----------------------------------------------------------------------------
(* The loader, once per boot, after VPP has been started.  It also waits   *)
(* for the backend's start job, but that may have failed or be long over.  *)

LoaderStart ==
  /\ phase["loader"] = "off" /\ vppUp
  /\ Enter("loader", "wait", Empty)
  /\ UNCHANGED <<vpp, vppUp, file, running, held, restartDue, bounds, whole>>

\* wait_for_vpp: up to 120 tries.
LoaderWait ==
  /\ phase["loader"] = "wait"
  /\ IF vppUp THEN Enter("loader", "bonds", file) ELSE Enter("loader", "done", Empty)
  /\ UNCHANGED <<vpp, vppUp, file, running, held, restartDue, bounds, whole>>

-----------------------------------------------------------------------------
(* VPP and the operators.                                                  *)

\* VPP's configuration is lost, and the drop-in's sleep dies with VPP's unit.
VppCrash ==
  /\ vppUp /\ crashes < Crashes
  /\ vppUp' = FALSE
  /\ vpp' = Boot
  /\ restartDue' = FALSE
  /\ crashes' = crashes + 1
  /\ whole' = FALSE
  /\ UNCHANGED <<file, running, restorers, commits>>

\* (Mutant of VppStart: the drop-in is not installed.)
VppStartNoDropIn ==
  /\ ~vppUp /\ phase["backend"] \in {"down", "stopped"}
  /\ vppUp' = TRUE
  /\ UNCHANGED <<vpp, file, running, restorers, restartDue, bounds, whole>>

\* systemd has stopped what is bound to VPP before it starts VPP again.
VppStart ==
  /\ ~vppUp /\ phase["backend"] \in {"down", "stopped"}
  /\ vppUp' = TRUE
  /\ restartDue' = TRUE
  /\ UNCHANGED <<vpp, file, running, restorers, bounds, whole>>

\* `commit' of some CLI.  The backend answers requests once it has started;
\* until then the command fails, after the file has been written.
Commit ==
  /\ commits < Commits
  /\ commits' = commits + 1
  /\ file' \in IF vppUp THEN Snapshots(vpp) ELSE {Empty}
  /\ IF phase["backend"] = "up"
     THEN /\ running' = file'["ifs"]
          /\ vpp' = IF vppUp THEN Transact(vpp, running, running') ELSE vpp
     ELSE UNCHANGED <<running, vpp>>
  /\ UNCHANGED <<vppUp, restorers, restartDue, crashes, whole>>

-----------------------------------------------------------------------------

Pass(r) == PickEntry(r) \/ Issue(r) \/ EndSection(r)

Next ==
  \/ \E r \in Restorers : Pass(r)
  \/ StartBackend \/ FollowVpp \/ RestartBackend \/ BackendConnect
  \/ StopBackend \/ BackendFails
  \/ LoaderStart \/ LoaderWait
  \/ VppCrash \/ VppStart \/ Commit

Spec == Init /\ [][Next]_vars

\* systemd carries out what its units say, and a running program runs on.  Not
\* fair: FollowVpp, the loader (nothing waits for it), crashes and commits.
Fairness ==
  /\ WF_vars(StartBackend) /\ WF_vars(RestartBackend) /\ WF_vars(BackendConnect)
  /\ WF_vars(Pass("backend"))
  /\ WF_vars(StopBackend) /\ WF_vars(VppStart)

FairSpec == Spec /\ Fairness

-----------------------------------------------------------------------------
(* Properties.                                                             *)

\* What can ever get into VPP: the saved facts, and bonds and members being up.
Allowed ==
  Boot \cup Saved["ifs"] \cup Saved["bonds"] \cup Saved["lcps"]
  \cup {Up(EntryOf(f)) : f \in Saved["bonds"]} \cup {Up(f.of) : f \in Saved["bonds"]}
  \cup (IF DefaultsFilled THEN {Mtu(i, YangMtu) : i \in Ifs} ELSE {})

\* SAFETY.  However the restorers, their restarts and commits interleave, VPP never
\* gets anything the file at boot did not have, except that bonds and their
\* members come up: no member of another bond, no address twice in a family.
NothingInvented ==
  \A f \in vpp : f \in Allowed \/ \E g \in Saved["lcps"] : SamePair(f, g)

\* Loopbacks are not created, hence nothing on them can be set.
Base(i) == IF i \in Subs THEN Parent[i] ELSE i

\* The facts of the file one undisturbed pass of the backend puts back: pairs
\* come before sub-interfaces, so those on sub-interfaces are not among them.
Restorable(contents) ==
  {f \in contents["ifs"] : /\ f.kind \in {"exists", "up", "addr"}
                           /\ Base(f.of) \notin Loops}
  \cup contents["bonds"]
  \cup {f \in contents["lcps"] : f.of \notin Loops \cup Subs}

\* Is f in VPP?
Back(f) == f \in vpp \/ \E g \in vpp : SamePair(f, g)

\* SAFETY.  Once the backend has finished a pass during which VPP did not die,
\* what is restorable of vpp_config.xml is in VPP, whatever the script did at the
\* same time and whenever operators committed.
PassRestores ==
  phase["backend"] = "up" /\ whole => \A f \in Restorable(file) : Back(f)

\* LIVENESS.  After the last failure, VPP ends up running with everything
\* restorable, and stays so: a crash in the middle of a pass, of the loader's run
\* or of the 90 seconds loses nothing.
EventuallyRestored == <>[](vppUp /\ \A f \in Restorable(file) : Back(f))

\* README: when VPP restarts, "Clixon backend re-applies config".  A pass of the
\* backend does not bring back all pairs of the file.
PassRestoresPairs ==
  phase["backend"] = "up" /\ whole => \A f \in file["lcps"] : Back(f)

\* Nothing is left for the restorers to do.
Settled ==
  /\ vppUp /\ ~restartDue
  /\ phase["backend"] = "up" /\ phase["loader"] = "done"

\* README: "Configuration is automatically restored".  Its interfaces, at the
\* least, are there once both restorers have finished.
InterfacesComeBack ==
  Settled => \A f \in Of(file["ifs"], {"exists"}) : Back(f)

=============================================================================
