# Formal models of the Clixon VPP control plane

TLA+ modules that model this repository's control plane, TLC configurations that
check them on small instances, and TLAPS proofs of theorems about them for every
instance. Paths are relative to the repository root; `vpp_plugin.c` and
`vpp_cli_plugin.c` are in `src/`.

## 1. The system

One machine runs VPP, `clixon_backend` with `vpp_plugin.so`, any number of
`clixon_cli` processes with the CLI plugin, a shell script at boot, and systemd.
They share three things, and none of them is locked:

| shared state | who writes it | who reads it |
|---|---|---|
| VPP's configuration | every CLI command (`vppctl` from the CLI process itself), the backend (start, transactions, RPCs), the script | a CLI's `commit`, the backend, show commands |
| `/var/lib/clixon/vpp/vpp_config.xml` | `commit` of any CLI | the first change a CLI process notes, the backend's start, the script |
| Clixon datastores (candidate, running, startup) | `commit` of any CLI, through the backend | the backend's transaction; the startup datastore is never read (startup mode `init`) |

So a configuration command is in force before it is committed, and `commit` goes
the other way than in most systems: it *reads VPP* and stores what it read.

### Components

| component | state | operations | hard behaviour | what makes it correct |
|---|---|---|---|---|
| CLI session plugin (`vpp_cli_plugin.c`) | mode, `current_interface`, `config_modified`, `config_loaded`, four pending lists | about 25 changing commands, `commit`, `end`, `exit`, `quit` | the steps of a commit interleave with other sessions and with VPP dying; refused requests; exit status of `vppctl` is 0 whatever VPP says | what the session believes committed is in the file; a commit writes what VPP has; `end` warns when it should |
| CLI grammar (`cli/*.cli`) | mode | rules bound to callbacks | — | the modes lead to the callbacks they name |
| Backend transactions (`vpp_plugin.c:1097-1284`) | none | begin, validate, commit | acts on VPP from a difference of datastores that may be behind VPP; ignores failures | storing VPP's own configuration leaves VPP as it was |
| Backend start (`vpp_plugin.c:800-1083`) | position in the file | connect; bonds, pairs, interfaces | no result is looked at, nothing is tried twice; killed and restarted at any point | a finished pass has put back what can be put back |
| `scripts/vpp-config-loader.sh` | position in the file | wait; bonds, interfaces, pairs | runs at the same time as the backend's pass, in another order | adds nothing that was not saved |
| systemd units, drop-in | unit states, the 90 s job | start, stop with VPP, restart | which restart comes first is open | the configuration eventually comes back |
| VPP as used (`vpp_api.c`, `vpp_interface.c`) | the dataplane | the commands above, `show ...` | rejects commands whose interface is missing | external |
| Backend RPC handlers (`vpp_plugin.c:29-795`) | none | one `vppctl` command each | a name is turned into an index by a second look at VPP; success is the absence of a few words in an answer | an error reply means VPP did nothing; a create replies with what was created |
| `vppctl` execution (`vpp_connection.c`, `vpp_exec` of the CLI) | `g_connected`; a buffer | connect, run, read the answer | the flag is never cleared; one buffer grows, the other cuts | no overrun, nothing cut that fits |
| Readers of `vppctl` output (`vpp_api.c`, `vpp_interface.c`, `vpp_cli_plugin.c`) | the block open | parse rows, blocks, items; complete names | cut output, arrays of 32 and 64 entries, lines that belong to a block left out | of a whole output exactly the entries; of a cut one nothing made up |
| State data (`vpp_plugin.c:1316-1414`) | none | dump and report | VPP changes or dies between the shows | an undisturbed read is VPP's list |
| Show commands, completion (`vpp_cli_plugin.c`) | none | read and print | `show running-config` reads a file others rewrite | an undisturbed show is the file, and the file what runs |
| YANG, packaging, `build-pkg/` | — | — | — | defaults only / not modelled |

`PROJECT.json` lists these with their sources and, under `hazards`, every place
in the code that is exposed to an interleaving, a failure, a stale value, or a
limit, with the properties that cover it, or a note that says which exception of which property
it is: several are what the code does, and the properties have to leave them out.

## 2. The modules

| module | what it is |
|---|---|
| `VppFacts` | VPP as the code uses it. A configuration is a set of **facts**: an interface exists, is up, has an address, an MTU, is a member of a bond, is paired with a Linux interface. Commands (`Establish`, `Delete`) and what reads may return (`ReadList`, `IsAddrRead`, `ReadBonds`, `PairRead`). |
| `VppTransaction` | `vpp_trans_commit` as a function of VPP, the old and the new configuration. |
| `ConfigFile` | `vpp_config.xml` as four sections of facts; `Snapshots(v)`: what a commit that has read VPP while it was `v` may write; `Starts` and `Mixtures`: what the file may hold while it is written, by one or by several. |
| `CliSession` | any number of CLI sessions; one action per callback, eleven per commit. |
| `SavedConfig` | abstract: what a commit promises of `vpp_config.xml`, whatever happens while it reads, and how much less while two have the file open. |
| `CommitWindow` | `CliSession` with two histories: what VPP has had all through a commit's reads, and at some time during them. With these it implements `SavedConfig`. |
| `Viewer` | `CliSession` and one more process that looks at the running configuration, pass by pass over the file. |
| `Restore` | the backend's start and the script, command by command, with systemd, crashes and commits. |
| `VppCommand` | the commands of the RPCs, as facts to make true or false, and what VPP may make of one (`Obeyed`). |
| `RpcService` | abstract: what an RPC promises its client. |
| `Backend` | the backend at work: every RPC, transaction and read of state data, one `vppctl` at a time, with sw_if_indexes, other users of VPP and restarts of both processes. It implements `RpcService`. |
| `Readers` | the loops that collect and take apart what `vppctl` prints: one machine, twenty-one readers. |
| `MCCliSession`, `MCCommitWindow`, `MCViewer`, `MCRestore`, `MCBackend`, `MCReaders` | the instances of the runs. |
| `VppFacts_proofs`, `CliSession_proofs`, `CommitSaves_proofs`, `CommitWindow_proofs`, `Viewer_proofs`, `Restore_proofs`, `Backend_proofs`, `Readers_proofs` | lemmas and theorems. |

`CliSession`, `Restore` and `Backend` share the modules at the top. They are not
composed into one. `CliSession` and `Restore` use the function `Transact` where
`Backend` has a transaction's commands one by one; `QuietTransactionIsTransact`
checks that the commands add up to the function when nobody interferes. In
`Backend` the sessions are the constant `Meddled`, facts that come and go. In `Restore` a commit is one step that writes a member of
`Snapshots(vpp)`. What justifies it is theorem `QuietCommitReadsVpp`: a commit
that VPP did not change under writes exactly such a snapshot.

### Facts instead of text

The code moves text: `vppctl` output, XML, `pending_config_t`. The model keeps
what each conversion loses, because that is what the properties tell apart:

* an interface entry has room for one IPv4 and one IPv6 address; of several VPP
  prints, the last one stays, and which is last is open (`SameSlot`, `IsAddrRead`);
* an MTU of 9000 is taken for the default and not saved; that of a sub-interface is
  not read, for `show hardware-interfaces` does not list it;
* a pair printed without a namespace gets what the stack buffer held: any
  namespace (`PairRead`, an uninitialised read, hence a choice);
* the first load of the file reads one address of an interface and no
  sub-interface section (`FromFile`);
* the file is opened with truncation and written in blocks, whenever stdio's buffer
  is full and when it is closed (`OpenFile`, `FlushBlock`, `WriteFile`; below);
* the script finds a bond or a pair by searching for its name in VPP's answer,
  errors and other lines included (`FoundThere`);
* Clixon may or may not hand the plugin a target with YANG defaults (constant
  `DefaultsFilled`); the proofs hold for both.

### CliSession and the code

`vpp` is the dataplane; `file` the configuration file; `candidate`, `running`,
`startup` the datastores; `mode`, `cur`, `modified`, `loaded`, `pend` the
process's CLI mode, `current_interface`, `config_modified`, `config_loaded` and
pending lists; `pc` where a commit stands. `quiet`, `waived`, `overlapped` and
`spoilt` are history variables of the properties; they restrict nothing
(`Observe`).

A command's probe and its `vppctl` call are one step; so are the reads of all
addresses (one `show interface addr` each) and of the bonds with their members.
All other steps interleave. `NotedCommand` is every command that ends in
`CONFIG_CHANGED()`, whether or not VPP accepted it; `UnnotedCommand` the removing
ones, which do not.

Writing the file. `ds_write_config_file` is many `fprintf`s, and stdio writes a block of
about 4 KB when its buffer is full and the rest at `fclose`. The model does not count bytes: any
number of blocks, none included, may be written before the last one. As long as a
session has the file for itself, each block leaves a longer start of its text
(`Starts`: the sections in order, the name of an entry before its fields), and
`fclose` completes it. A killed session leaves such a start. When two sessions have the
file open at once (`torn`), each writes on at its own offset, over what the other
has written or into a file the other has emptied. What a reader of the
result finds is over-approximated by `Mixtures`: any of the entries and fields of both
texts, an entry of one with fields of the other too -- even when both texts are equal.
Only a text that one single write puts at the beginning of the file is sure to be there whole.
Three things are left out: the disk is never full; a name or a value that is cut in
two by a block's end is not read as a shorter one; and `Restore`, where a commit is
one step, reads no file that is half written.

### Restore and the code

`phase[r]` is where the backend or the script is, `names[r]` the entries of the
section it has yet to take, `todo[r]` the commands of the entry in hand in the
order `Precedes` gives, `held` the backend's buffer of the file. `restartDue` is the
drop-in's `sleep 90 && systemctl restart`. The systemd part, as the units say:
the backend is stopped with VPP (`BindsTo`), started at boot and after a failure
(`Restart=on-failure`), possibly when VPP comes back (`FollowVpp`), surely by the
drop-in, and only once its `ExecStartPre` has had an answer from VPP. Durations
are not modelled: the drop-in may fire at any time after VPP's start, in the
middle of a pass too. `ConditionFileExists=` in the loader's unit is not a directive
systemd knows; the script itself exits without a file, and in the model there is one.

### Backend and the code

`pc` is the place in a handler, one value per `vppctl` process it starts. `index`
is VPP's numbering: VPP gives an interface any number that is free (`Becomes`), so
a number changes hands when one interface goes and another comes. `NameToIndex`
and `NameOf` are the two searches of a fresh dump by which the code goes from one
to the other; `idx` and `byIndex` are what it remembers of them. `List` is empty when
VPP does not answer: the error text of `vppctl` is parsed like a list. `rpc`,
`asked`, `command`, `outcome`, `made`, `madeIndex` are the request and its reply.
`connected` is `g_connected`: it is set once and stands however often VPP dies
(`ConnectForRpc` runs only while it is not set). `Texts` and `Searched` say which
words an answer may contain and which ones a handler looks for; everything else
about an answer is abstracted. `Meddle(f)` is a CLI session, or anybody, changing one
fact; `BackendRestart` kills the backend at any point. `quiet`, `moved` and `before`
are history variables.

### Readers and the code

A reader is a record: which of the two ways to collect the output it uses, whether
it reads rows, blocks or items, whether it skips the first line, whether it prints a block
at its end, the names it is after and the room its caller has. The twenty-one
definitions `GetBonds` ... `SyncBondsFallback` are the code's readers in those terms:
those of `vpp_api.c`, the backend's list of interfaces, those of the show commands and
of completion, and all that a commit uses (`GetBonds`, `SyncMembers`, `GetLcps`, `SyncInterfaces`, `SyncAddresses`,
`SyncMtu` and the two fallbacks for when the API is not there). Several
are the same record: their loops differ in what they copy, not in what they find. The
actions are what the loops have in common. A line has a kind, a name and a value,
and a length; the length decides what a buffer holds. `vpp_exec` leaves out a line that does
not fit and goes on, so the head of a block may be missing and its items not.
`ReadFails` is a `popen`, `malloc` or (in the CLI) exit status that fails.

### Viewer and the code

`cli_show_running_config_full` reads the file four times. Which sections there are
is decided in the first pass, their contents in the later ones. The last section, the
sub-interfaces', is not shown at all.

## 3. Runs

Instances use one physical interface, one bond, one VLAN or one loopback, and
one or two sessions. One of each is enough for the cases that matter: the only
relations between interfaces are parent/VLAN and member/bond, a slot conflict
takes two addresses of one family, and every race here is between two parties.

| run | question | result |
|---|---|---|
| `cli_single` | One operator builds and takes down a bond with an addressed, paired VLAN and commits at any point, while another looks at the running configuration: `NothingLostSilently`, `NoSubifSection`, `ShowIsComplete`, types. | holds |
| `cli_bond` | With YANG defaults, two addresses for one slot, an MTU and a member: what does a commit's transaction do to VPP (`QuietCommitHarmless`), and is anything lost but what those defaults impose (`NothingLostSilently`)? | holds, with the two exceptions it names |
| `cli_pair` | Two sessions, every interleaving of their commands and commit steps: `NothingLostSilently`, `QuietCommitSaves`, `StoresAgree` until two commits overlap; `SavesWhatLasts` whether they do or not, with less to promise while both have the file open. | holds |
| `cli_faults` | VPP dies and returns, requests are refused, the file does not open, the process is killed, each between any two steps and any two blocks of the file: `NothingLostSilently`, `QuietCommitIsExact`, `SavesWhatLasts`. | holds |
| `restore_boot` | Both restorers, up to two failures, a commit at any point: `NothingInvented`, `PassRestores`, types; and is the configuration back for good in the end? `EventuallyRestored`. | holds |
| `backend` | Every RPC, transaction and read of state data, with interfaces that come and go and processes that die between any two commands: is a reply to be trusted (`KeepsPromise`, `QuietCreateIsExact`), a transaction what it should be (`QuietTransactionIsTransact`), the wrong interface ever touched (`StraysOnlyOnReuse`), state data whole (`StateDataIsWhole`)? | holds, with the exceptions the properties name |
| `readers` | Every reader of section 2 on every small output, whole or cut: buffers, entries, caps. | holds |
| `commit_lost` | Is "committed" also "saved" when commits overlap? | violated |
| `end_unwarned` | Does `end` warn after a removal? | violated |
| `commit_changes` | Does a commit only store? | violated |
| `pairs_lost` | Does the backend's pass bring all pairs back? | violated |
| `loopback_lost` | Do the saved interfaces come back? | violated |

The five violations are disagreements between what README.md or the help texts
say and what the code does; `PROJECT.json` quotes the lines.

Bounds. `Configurable` limits which facts operators set up (removals are not
limited). `Addr4` has two members only where two addresses compete (`cli_bond`,
`commit_changes`). `Crashes` (2) and `Commits` (1) bound `Restore`: two failures are what a
second failure during the recovery from the first needs. No counter bounds
`CliSession` and `Backend`; their state spaces are finite. `backend` has as many indexes
as interfaces, four, so that one that is given back is taken again; operators create and delete a
loopback and a bond, and the VLAN of the hardware comes and goes by RPC. Two configurations are
committed in any order, any number of times. In `readers` outputs have up to five lines, names
of all classes, buffers that hold some of the outputs and not others (`OutputLen` 12
bytes of lines of 2 and 3, `BufSize` 4, to be doubled up to three times) and room for two or three
entries, fewer than an output may have. The CLI's runs have VIEWs, which leave out of a state what neither a later
step nor a property of the run depends on: the startup datastore, which nothing reads
(`cli_bond`, `cli_single`, `cli_faults`); in runs of one session that is not killed, a text that
is not whole yet, for `WriteFile` replaces it before any property speaks of the file; in
`cli_single`, what a show has printed once the file has changed under it or is sure to
(`steady` is then false until the next show); in `cli_pair`, once commits have overlapped,
the startup datastore and the histories of which the properties speak only until then. Every
passing run of the CLI, the backend and the readers has between 0.4 and 1.5 million distinct states. Deadlock is checked in the CLI's
and the backend's runs; `Restore` may stop, once everything is restored and its failures and
commits are used up, and a reader does stop.

What the properties leave out, because the code does not provide it:

* `NothingLostSilently` excepts overlapping commits (`commit_lost` shows why), a
  failed write, and changes the operator chose to abandon with `end`, `quit` or by
  killing the session. With YANG defaults filled in it also excepts MTUs of the
  default's value (`Imposed`): the transaction sets them after the commit has read VPP,
  so that the file has them from the next commit only; without the exception
  `cli_bond` fails. `QuietCommitSaves` has the first two exceptions only: a commit saves
  what others abandoned.
* `Restorable`, what a pass is expected to restore, excludes loopbacks and what is
  on them (never created again: `loopback_lost`), pairs of sub-interfaces (issued
  too early: `pairs_lost`) and MTUs (set by the script alone, once per boot).
* A commit while the file is being restored rewrites it with what is back so far.
  `PassRestores` is about the file as it then is; nothing in the code protects the
  rest.
* `RpcService` lets a reply be positive although VPP rejected the command
  (`Misjudge`): `vppctl` exits with 0 whatever happened, and only a few words are looked for. So
  "result: true if successful" (`yang/vpp-interfaces.yang:352`) is a promise in
  one direction only, and that direction is what is checked.
* `SavesWhatLasts` is the promise of a register for every commit that has the file for
  itself, whatever overlapped with its reads and requests. Of a commit beside which another one has the
  file open it says: if its text was written in one block, what lasted is in the file after
  that write; if in several, nothing. The code protects nothing there: on a configuration
  of more than one block the sections already written can be lost.
* `StateDataIsWhole` gives a sub-interface the MAC address 00:00:00:00:00:00: `show
  hardware-interfaces` knows no sub-interface, and the backend reports the zeros.
* `QuietTransactionIsTransact`, `QuietCreateIsExact` and `StateDataIsWhole` are about
  requests nobody disturbs. Disturbed, a create may reply with index 4294967295 and a transaction may
  set the flags of an interface that was given an old index; `StraysOnlyOnReuse`
  says that this is the only way to hit another interface.
* `CapSparesAllButLast`: with 32 bonds or more the 32nd is read without its lines.

## 4. Fairness

Only `EventuallyRestored` needs any. Weakly fair are the backend's own steps
(`BackendConnect`, `Pass("backend")`: a running program runs on), and what systemd
does on its own: `StartBackend` (WantedBy, Restart=on-failure), `RestartBackend`
(the drop-in's job), `StopBackend` (BindsTo) and `VppStart` (VPP's own unit, an
assumption about a unit that is not in the repository). Not fair: `FollowVpp`
(the drop-in exists because it is not relied upon), the script, crashes and
commits. With the drop-in removed (a mutant of `VppStart`) the property fails.

## 5. What is proved

TLAPS checks the theorems for all sets of interfaces, addresses, sessions and
faults, and any bounds. The assumptions are `NamesAssumption` (kinds of interfaces
are disjoint, a sub-interface has a parent), `DefaultsAssumption`,
`SessionAssumption`, `BackendAssumption` (indexes of the hardware differ, and operators do not
remove hardware), `TargetsAssumption` (a configuration is a list of interfaces with at most one MTU
each, as YANG has it), `ReadersAssumption` and `LengthAssumption` (a buffer has two
bytes at least; the length of an output is the sum of its lines'), `TitleAssumption` (an output whose readers look for rows begins with its title), and `RestoreAssumption` (the file at boot is a snapshot of
some state VPP can have been in). TLC evaluates them in the runs.

*CliSession*

* `TypeCorrect`: `Spec => []TypeOK`.
* `SubifsNeverSaved`: no `<subinterfaces>` section is ever written. Invariant
  `SubifsEmpty` adds that the list is empty throughout a commit, although seven
  commands fill it.
* `QuietCommitReadsVpp`: `Spec => []QuietCommitIsExact`. Invariant `ReadSoFar` says
  for each step of a commit which lists are already exact.
* `StoresStayTogether`: with no `rpc`, `open` or `hangup` faults,
  `Spec => []StoresAgree`. Invariant `StoresByStep` relates the file, the three
  datastores and the pending list to the step of the only commit under way.
* `NothingEverLostSilently`: `Spec => []NothingLostSilently`, with every fault.
  The property is not inductive: it speaks of states without a commit under way, and what
  makes it true then was read many steps earlier, possibly from a VPP that has changed
  since. Invariant `Saving` (module `CommitSaves_proofs`) says, while
  commits have not overlapped: there is at most one (`OneCommit`); where no session is marked the
  file has everything worth keeping, except while it is written (`FileCurrent`); during a commit
  the file, the candidate and the list agree from step to step (`FileByStep`); and a
  commit that is undisturbed, or the only one with something marked, has gathered at each
  step everything worth keeping that this step and those before it read (`ReadByStep`).
  It rests on `ReadSoFarAll` (theorem `ReadInvariant`) and on lemmas about each change of
  VPP: whatever a command adds, the session that gave it is marked for.
* `QuietCommitEverSaves` and `QuietCommitEverHarmless`, from the same invariant and from
  what `Transact` does to a configuration that was just read.

*CommitWindow*

* `CommitsSaveWhatLasts`: `SpecWindow => SavesWhatLasts`, the refinement of `SavedConfig`. Commits
  that are disturbed or overlap write no snapshot of VPP, and the theorems above say nothing of them;
  what holds of them is the promise of a regular register, fact by fact: what VPP had all through the reads is in
  the file after the write, and what the write puts there VPP had at some time during the
  reads. "In the file" is said of the write only: a commit that overlaps may empty
  the file right after (`commit_lost`). While another commit has the file open
  too, the promise shrinks to the one of section 3. The mapping is `Stage`, a function of `pc`, with
  `torn` for `clash`; commands, other
  sessions' transactions and VPP's death are `Change`, a block that is flushed is `Part`.
  Invariant `Windows` says that what has lasted so far is gathered as far as the commit has read,
  and that what is in a file a session has for itself was seen (`Recorded`); it rests on the
  lemmas of `CommitSaves_proofs` about single reads.
* The two histories are functions of the steps (`Remember`), so they restrict nothing; that is plain from
  their definitions and not proved. Lemma `WindowIsSpec` says the converse, that the sessions of
  `CommitWindow` are those of `CliSession`, and lets the proofs use what is proved of these.

*Viewer*

* `ViewIsHarmless`: `SpecAndView => Spec`, so that what is proved of `CliSession` can be used of it.
* `ShowEverPrintsFile`, and with `NothingEverLostSilently` and `SubifsNeverSaved`,
  `ShowEverComplete`: `SpecAndView => []ShowIsComplete`. The invariant says what of
  the file has been printed at each pass as long as it was not written.

*Restore*

* `RestoreTypeCorrect`: types, and that a restorer that is not at work has nothing
  in hand.
* `NothingInventedEver`: `Spec => []NothingInvented`. The property is not inductive:
  what VPP holds comes back from the file after a commit. The invariant is `Sound`:
  VPP and both copies of the file are closed (every fact is about interfaces that
  are there, `Together`), and every fact in VPP, the datastore, either copy or a
  restorer's hands goes back to the file at boot (`AllFine`).
* `PassRestoresAlways`: `Spec => []PassRestores`. Invariant `PassInv`: during a pass
  everything restorable of the backend's copy of the file is back in VPP or ahead,
  in a later section, a listed entry or the entry in hand, and what the file has
  beyond that copy is in VPP. The core is `IssuedIsBack`: VPP does not reject the
  command whose turn it is, because what it needs came earlier in the pass (bond
  before member, link before pair, sub-interface before its address), unless what
  it asks for is already there. `CommitKeeps` shows that no commit takes anything
  back: all addresses in play are those of the one saved file, so no two compete
  for a slot, and what is up in VPP is up in the new configuration.

*Backend*

* `BackendTypeCorrect`: types, with invariant `Shape`, which says what is there at which
  step (a command during an RPC only, an interface in hand while it is set).
* `RpcsKeepTheirPromise`: `Spec => KeepsPromise`, the refinement of `RpcService`. The
  mapping is `Stage`, a function of `pc`; every step of a transaction or a read maps to a
  stutter or to `Transaction`, every step of an RPC to its place between `Ask` and `Finish`, also when the
  backend dies in the middle.
* `StraysOnlyOnReuseAlways`: `Spec => StraysOnlyOnReuse`. Invariant `IndexesHold`: an
  interface exists if and only if it has an index, no two have the same, and VPP keeps its
  hardware. It rests on `Modest`: no single command makes two interfaces.
  Invariant `Found`: as long as the index has not changed hands, the name found again for it is the
  name it was looked up for.
* `CreatesAreExact` and `StateDataAlwaysWhole`: `QuietCreateIsExact` and
  `StateDataIsWhole` (`MacOf`: read, or zeros for a sub-interface). Invariants `AskedAlone` (the command of a create makes the one
  interface asked for), `QuietRequest` and `QuietShow` (while nobody interferes, what has been
  read of VPP is still so).
* `TransactionsAddUp`: `Spec => []QuietTransactionIsTransact`: the commands of a
  transaction nobody disturbs add up to the function `Transact` that `CliSession` and
  `Restore` use in its place. Invariant `QuietTransaction` divides VPP's facts by
  interface: of those ahead (`left`) nothing has changed but deleted addresses, those done with
  are as `Transact` has them, and of the one in hand it says which kinds of facts are final at
  which step. `TransactOf` says fact by fact what `Transact` does.

*Readers*

* `ReadersTypeCorrect`, `NothingEverMadeUp`.
* `BuffersHold` and `NothingEverCutNeedlessly`, for every output and
  every size of buffer. The invariant bounds what is used by the lines read so
  far, which is where `LengthAssumption` enters.
* `ReadersAlwaysExact`, `CapAlwaysSparesAllButLast`: `ReadersAreExact` and
  `CapSparesAllButLast` for every output and every cap. The reference `Found` numbers
  the lines that begin an entry and collects under each the items up to the next; it is a
  plain definition, no recursion, so that the provers can unfold it. Invariant `Exact`
  says that after every line the entries found and the block in hand are
  `Found` of the lines so far, except that the items of the block in hand are still to be
  attached; `FoundMore`, `FoundSame` and `FoundAdded` say what one more line does to
  `Found`.

*Only model-checked*: `EventuallyRestored`, a liveness property, whose fairness and ENABLED are
out of the prover's reach. Every other property of a passing run is a theorem.
The negative runs are counterexamples, nothing to prove.

## 6. What is not modelled

* `set`/`delete` on the data model, `validate`: they edit the candidate, which a
  commit replaces.
* What is searched for a single word or number only: a MAC address, the name of a new loopback,
  an error. (Where it decides something, it is part of `Backend` and `CliSession`.)
* Inside a line: the `sscanf` formats, and names longer than the arrays they are
  copied to. When `popen` fails in `cli_show_interface_detail` its buffers are read
  as they are; the model shows nothing then.
* `cli_show_ip_interface` and the other callbacks no grammar rule names; the
  counters and speeds of state data; the layout of what is shown.
* `scripts/start-services.sh` and the installation scripts: sequential shell, run by
  hand.
* RESTCONF and NETCONF clients other than the CLI.
* Durations: the loader's 120 tries and `ExecStartPre`'s 90 seconds are "VPP answers
  or it does not".
* Tap entries in the script, which nothing writes.

## 7. Plan

Done: all the modules of section 2 and the theorems of section 5. Next: a specification of what the
restore promises across reboots, as `SavedConfig` is one for commits, and `Restore` shown
to implement it.
