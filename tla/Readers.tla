------------------------------ MODULE Readers ------------------------------
(***************************************************************************)
(* How the programs read what vppctl prints.                               *)
(*                                                                         *)
(* Everything the CLI and the backend know of VPP comes from the output of *)
(* a `show' command.  It is collected in a buffer -- of vpp_cli_exec,      *)
(* which grows, or of vpp_exec's caller, which does not -- and then taken  *)
(* apart line by line.  In an output of ROWS (`show interface', `show      *)
(* lcp') a line stands for itself.  In one of BLOCKS (`show bond details', *)
(* `show interface addr') a line that begins with a name opens a block and *)
(* the indented ones belong to the block that is open.  Of an output about *)
(* one interface ITEMS are read: lines of some sort, wherever they are.    *)
(*                                                                         *)
(* A state machine reads one output with one of the readers below, piece   *)
(* by piece and line by line.                                              *)
(*                                                                         *)
(* Simplifications.  A line is shorter than the 256 bytes of a piece.      *)
(* Names fit the arrays they are copied to.  The values of a block are a   *)
(* set: their order and the layout of what is shown are left out.  An item *)
(* is a line of the sort the reader looks for (the mode for one, members   *)
(* for another); lines no reader looks for are "other".  A list that grows *)
(* at its head is read from its tail.  The numbers `show hardware' gives   *)
(* for an MTU come with an Ethernet address, above them, that is read too. *)
(***************************************************************************)
EXTENDS Naturals, Sequences, FiniteSets

CONSTANTS
  Names, Vals,   \* names of interfaces; values: states, modes, members, addresses
  Class,         \* Class[n]: "local", "ethernet", "bond", "loop", "sub" (a dot)
                 \* or "loopsub" (a loopback with a dot)
  Outputs,       \* bound: the outputs read, sequences of Line
  Size,          \* Size[k]: the length of a line of kind k
  Bytes(_),      \* the length of an output
  BufSize,       \* VPP_CLI_BUFSIZE, the size vpp_cli_exec's buffer starts with
  OutputLen,     \* the length of a caller's buffer
  Lists,         \* bound: the sets of bonds a commit has on its list
  Template,      \* "BondEthernet", offered to complete a name
  MaxBonds, MaxLcps, MaxIfs   \* entries a caller of vpp_api.c has room for

Kinds == {"title", "row", "head", "item", "other"}
Line == [kind : Kinds, name : Names, val : Vals]

Upto(d, k) == SubSeq(d, 1, k)

ASSUME ReadersAssumption ==
  /\ Class \in [Names -> {"local", "ethernet", "bond", "loop", "sub", "loopsub"}]
  /\ Outputs \subseteq Seq(Line)
  /\ Lists \subseteq SUBSET Names
  /\ BufSize \in Nat /\ BufSize >= 2
  /\ OutputLen \in Nat /\ OutputLen >= 2
  /\ MaxBonds \in Nat \ {0} /\ MaxLcps \in Nat \ {0} /\ MaxIfs \in Nat \ {0}
  /\ Template \notin Names   \* VPP numbers its bonds: none has the bare name

\* The length of an output is that of its lines.
ASSUME LengthAssumption ==
  /\ Size \in [Kinds -> Nat \ {0}]
  /\ \A d \in Outputs :
       /\ Bytes(d) \in Nat /\ Bytes(Upto(d, 0)) = 0
       /\ \A k \in 1..Len(d) :
            /\ Bytes(Upto(d, k)) = Bytes(Upto(d, k - 1)) + Size[d[k].kind]
            /\ Bytes(Upto(d, k)) <= Bytes(d)

\* Before the rows of an output VPP prints a title.
ASSUME TitleAssumption == \A d \in Outputs : d = <<>> \/ d[1].kind # "row"

Entry == [name : Names \cup {Template}, vals : SUBSET Vals]
NoBlock == [name |-> Template, vals |-> {}]

-----------------------------------------------------------------------------
(* The readers.                                                            *)

Reader ==
  [buffer : {"grows", "fixed"},
   output : {"rows", "blocks", "items"},
   skips  : BOOLEAN,           \* is the first line, whatever it is, taken for a title?
   defers : BOOLEAN,           \* is a block printed when the next one opens?
   wanted : SUBSET Names,      \* the names it is after
   room   : SUBSET Nat,        \* the number of entries its caller has room for
   offers : {<<>>, <<NoBlock>>}]   \* what is found besides

\* Through vpp_cli_exec, for a caller with an array of a fixed size or a list.
Api(output, skips, room) ==
  [buffer |-> "grows", output |-> output, skips |-> skips, defers |-> FALSE,
   wanted |-> Names, room |-> room, offers |-> <<>>]

GetBonds           == Api("blocks", FALSE, {MaxBonds})
GetLcps            == Api("rows", FALSE, {MaxLcps})
GetInterfaces      == Api("rows", TRUE, {MaxIfs})
ParseShowInterface == Api("rows", FALSE, {})

\* Through vpp_exec.
Show(output, defers) ==
  [buffer |-> "fixed", output |-> output, skips |-> FALSE, defers |-> defers,
   wanted |-> Names, room |-> {}, offers |-> <<>>]

CliShowInterfaces      == Show("blocks", TRUE)
CliShowInterfacesBrief == Show("rows", FALSE)
CliShowBond            == Show("blocks", TRUE)
CliShowLcp             == Show("rows", FALSE)

\* Each of the three outputs it asks for: a line of the sort it looks for is taken
\* to be about the interface asked for.
CliShowInterfaceDetail(asked) == [Show("items", FALSE) EXCEPT !.wanted = {asked}]

\* The second half of ds_sync_bonds_from_vpp; `known' are the bonds it has listed.
SyncMembers(known) == [Show("blocks", FALSE) EXCEPT !.wanted = known]

\* When the API cannot be reached, or lists no pair.
SyncLcpsFallback == Show("rows", FALSE)

\* For each interface on the list, ds_sync_interfaces_from_vpp asks for its addresses,
\* and takes them all as they come, and for its MTU, of which it takes the first.
SyncAddresses(asked) == [Show("items", FALSE) EXCEPT !.wanted = {asked}]
SyncMtu(asked)       == [SyncAddresses(asked) EXCEPT !.room = {1}]

OfClass(classes) == {n \in Names : Class[n] \in classes}

\* Tab completion, and the lists a commit makes when it reads VPP.
Completion(classes) ==
  [Show("rows", FALSE) EXCEPT !.skips = TRUE, !.wanted = OfClass(classes)]

CliExpandInterfaces ==
  Completion({"local", "ethernet", "bond", "loop", "sub", "loopsub"})
CliExpandEthernet == Completion({"ethernet"})
CliExpandBonds    == [Completion({"bond"}) EXCEPT !.offers = <<NoBlock>>]
CliExpandLoopback == Completion({"loop", "loopsub"})
CliExpandSubifs   == Completion({"sub", "loopsub"})
CliExpandParents  == Completion({"ethernet", "bond"})
SyncInterfaces    == Completion({"ethernet", "bond", "loop", "sub", "loopsub"})

\* When the API cannot be reached; `show bond' has no sub-interfaces.
SyncBondsFallback == Completion({"bond"})

Readers ==
  {GetBonds, GetLcps, GetInterfaces, ParseShowInterface,
   CliShowInterfaces, CliShowInterfacesBrief, CliShowBond, CliShowLcp,
   CliExpandInterfaces, CliExpandEthernet, CliExpandBonds, CliExpandLoopback,
   CliExpandSubifs, CliExpandParents,
   SyncInterfaces, SyncBondsFallback, SyncLcpsFallback}
  \cup {SyncMembers(known) : known \in Lists}
  \cup {CliShowInterfaceDetail(n) : n \in Names}
  \cup {SyncAddresses(n) : n \in Names} \cup {SyncMtu(n) : n \in Names}

-----------------------------------------------------------------------------

VARIABLES
  reader,    \* who reads
  printed,   \* what vppctl prints
  phase,     \* "read", "parse" or "done"
  next,      \* vpp_exec: the next line to come
  size,      \* vpp_cli_exec: the size of its buffer
  used,      \* bytes in the buffer
  text,      \* lines in the buffer
  at,        \* the line being looked at
  block,     \* the open block; NoBlock when what follows is nobody's
  result     \* the entries found

job    == <<reader, printed>>
buffer == <<next, size, used, text>>
vars   == <<job, phase, buffer, at, block, result>>

\* TYPE.  Whatever is read by whom, and wherever it is cut, the reader looks at
\* lines it has and finds entries.
TypeOK ==
  /\ reader \in Reader /\ printed \in Outputs
  /\ phase \in {"read", "parse", "done"}
  /\ next \in Nat \ {0} /\ size \in Nat /\ used \in Nat
  /\ text \in Seq(Line)
  /\ at \in Nat \ {0}
  /\ block \in Entry
  /\ result \in Seq(Entry)

\* The lines an output of a command may consist of; `other' also is the text of
\* an error.
Printable(output) ==
  IF output = "rows" THEN {"title", "row", "other"} ELSE {"head", "item", "other"}

Init ==
  /\ reader \in Readers
  /\ printed \in Outputs
  /\ \A k \in 1..Len(printed) : printed[k].kind \in Printable(reader.output)
  /\ phase = "read"
  /\ next = 1 /\ size = BufSize /\ used = 0
  /\ text = <<>> /\ at = 1 /\ block = NoBlock /\ result = <<>>

-----------------------------------------------------------------------------
(* Collecting the output.                                                  *)

\* (Mutant of StartParsing: lines counted from zero.)
StartParsingAtZero ==
  /\ phase' = "parse"
  /\ at' = IF reader.skips THEN 1 ELSE 0
  /\ UNCHANGED <<job, block, result>>

StartParsing ==
  /\ phase' = "parse"
  /\ at' = IF reader.skips THEN 2 ELSE 1
  /\ UNCHANGED <<job, block, result>>

KeepReading == UNCHANGED <<job, phase, at, block, result>>

Shorter(m, n) == IF m < n THEN m ELSE n

\* (Mutant of ReadChunk: the buffer grows only when it is full to the last byte.)
ReadChunkFull ==
  /\ phase = "read" /\ reader.buffer = "grows"
  /\ LET n == Shorter(size - used - 1, Bytes(printed) - used) IN
     \/ /\ n > 0
        /\ used' = used + n
        /\ size' = IF used' >= size THEN 2 * size ELSE size
        /\ UNCHANGED text /\ KeepReading
     \/ /\ n = 0
        /\ text' = IF used = Bytes(printed) THEN printed ELSE <<>>
        /\ UNCHANGED <<used, size>> /\ StartParsing
  /\ UNCHANGED next

\* fread fills what is left of the buffer but for the final zero, and returns
\* less only at the end of the output; the buffer is doubled when it is full.
\* The lines are counted when all is read; a text cut short has none here.
ReadChunk ==
  /\ phase = "read" /\ reader.buffer = "grows"
  /\ LET n == Shorter(size - used - 1, Bytes(printed) - used) IN
     \/ /\ n > 0
        /\ used' = used + n
        /\ size' = IF used' >= size - 1 THEN 2 * size ELSE size
        /\ UNCHANGED text /\ KeepReading
     \/ /\ n = 0
        /\ text' = IF used = Bytes(printed) THEN printed ELSE <<>>
        /\ UNCHANGED <<used, size>> /\ StartParsing
  /\ UNCHANGED next

\* (Mutant of Fits: `<=' and no room for the final zero.)
FitsToTheBrim(line) == used + Size[line.kind] <= OutputLen

Fits(line) == used + Size[line.kind] < OutputLen - 1

\* vpp_exec leaves out the line that does not fit, and goes on: a shorter one
\* after it may.
ReadPiece ==
  /\ phase = "read" /\ reader.buffer = "fixed"
  /\ next <= Len(printed)
  /\ IF Fits(printed[next])
     THEN used' = used + Size[printed[next].kind] /\ text' = Append(text, printed[next])
     ELSE UNCHANGED <<used, text>>
  /\ next' = next + 1
  /\ UNCHANGED size /\ KeepReading

LastPiece ==
  /\ phase = "read" /\ reader.buffer = "fixed"
  /\ next > Len(printed)
  /\ UNCHANGED buffer /\ StartParsing

\* No process, no memory, or -- for vpp_exec -- an exit status: the reader
\* returns with nothing.
ReadFails ==
  /\ phase = "read"
  /\ phase' = "done" /\ text' = <<>> /\ result' = reader.offers
  /\ UNCHANGED <<job, next, size, used, at, block>>

-----------------------------------------------------------------------------
(* Taking it apart.                                                        *)

\* (Mutant of Full: `>' for `>='.)
FullByOne(n) == \E m \in reader.room : n > m

Full(n) == \E m \in reader.room : n >= m

Look(kinds) ==
  /\ phase = "parse" /\ at <= Len(text) /\ ~Full(Len(result))
  /\ text[at].kind \in kinds
  /\ at' = at + 1
  /\ UNCHANGED <<job, phase, buffer>>

\* (Mutant of ReadRow: a title that is not the first line is taken for a row.)
ReadRowOrTitle ==
  /\ reader.output = "rows" /\ Look(Kinds)
  /\ result' = IF text[at].kind \in {"row", "title"} /\ text[at].name \in reader.wanted
               THEN Append(result, [name |-> text[at].name, vals |-> {text[at].val}])
               ELSE result
  /\ UNCHANGED block

ReadRow ==
  /\ reader.output = "rows" /\ Look(Kinds)
  /\ result' = IF text[at].kind = "row" /\ text[at].name \in reader.wanted
               THEN Append(result, [name |-> text[at].name, vals |-> {text[at].val}])
               ELSE result
  /\ UNCHANGED block

\* A reader that does not defer puts the name into its list when it meets it.
\* Members of a bond that is not listed are nobody's.
ReadHead ==
  /\ reader.output = "blocks" /\ Look({"head"})
  /\ LET new == [name |-> text[at].name, vals |-> {}]
         wanted == new.name \in reader.wanted
     IN /\ block' = IF wanted THEN new ELSE NoBlock
        /\ result' = IF ~reader.defers
                     THEN IF wanted THEN Append(result, new) ELSE result
                     ELSE IF block.name # Template THEN Append(result, block) ELSE result

\* (Mutant of ReadItem: only the first value of a block is kept.)
ReadItemOnce ==
  /\ reader.output = "blocks" /\ Look({"item"})
  /\ IF reader.defers
     THEN /\ block' = [block EXCEPT !.vals = IF @ = {} THEN {text[at].val} ELSE @]
          /\ UNCHANGED result
     ELSE /\ result' = IF block.name = Template THEN result
                       ELSE [result EXCEPT ![Len(result)].vals =
                               IF @ = {} THEN {text[at].val} ELSE @]
          /\ UNCHANGED block

\* An item belongs to the latest head; to nobody if there was none, or if that
\* bond is not on the list.
ReadItem ==
  /\ reader.output = "blocks" /\ Look({"item"})
  /\ IF reader.defers
     THEN block' = [block EXCEPT !.vals = @ \cup {text[at].val}] /\ UNCHANGED result
     ELSE /\ result' = IF block.name = Template THEN result
                       ELSE [result EXCEPT ![Len(result)].vals = @ \cup {text[at].val}]
          /\ UNCHANGED block

ReadAnyItem ==
  /\ reader.output = "items" /\ Look(Kinds)
  /\ \E asked \in reader.wanted :
       result' = IF text[at].kind = "item"
                 THEN Append(result, [name |-> asked, vals |-> {text[at].val}])
                 ELSE result
  /\ UNCHANGED block

SkipLine ==
  /\ reader.output = "blocks" /\ Look(Kinds \ {"head", "item"})
  /\ UNCHANGED <<block, result>>

\* The last block is printed after the loop.
Finish ==
  /\ phase = "parse" /\ (at > Len(text) \/ Full(Len(result)))
  /\ phase' = "done"
  /\ result' = IF reader.defers /\ block.name # Template THEN Append(result, block)
               ELSE result \o reader.offers
  /\ UNCHANGED <<job, buffer, at, block>>

Next ==
  \/ ReadChunk \/ ReadPiece \/ LastPiece \/ ReadFails
  \/ ReadRow \/ ReadHead \/ ReadItem \/ ReadAnyItem \/ SkipLine \/ Finish

Spec == Init /\ [][Next]_vars

-----------------------------------------------------------------------------
(* Properties.                                                             *)

\* What a reader should find in the first z lines of an output d.  It makes an
\* entry of a row it wants, of any item, or of a block it wants.
Sought(r, d, z) ==
  {k \in 1..z : CASE r.output = "rows"   -> d[k].kind = "row" /\ d[k].name \in r.wanted
                   [] r.output = "items"  -> d[k].kind = "item"
                   [] r.output = "blocks" -> d[k].kind = "head" /\ d[k].name \in r.wanted}

HeadIn(d, i, j) == \E m \in i..j : d[m].kind = "head"

\* The values of the items between a head and the next one.
ItemsUnder(d, h, z) ==
  {d[k].val : k \in {j \in h..z : d[j].kind = "item" /\ ~HeadIn(d, h + 1, j)}}

EntryAt(r, d, z, k) ==
  [name |-> IF r.output = "items" THEN CHOOSE n \in r.wanted : TRUE ELSE d[k].name,
   vals |-> IF r.output = "blocks" THEN ItemsUnder(d, k, z) ELSE {d[k].val}]

Nth(S, n) == CHOOSE k \in S : Cardinality(S \cap 1..k) = n

FoundIn(r, d, z) ==
  LET S == Sought(r, d, z) IN
  [n \in 1..Cardinality(S) |-> EntryAt(r, d, z, Nth(S, n))]

Found(r, d) == FoundIn(r, d, Len(d))

\* SAFETY.  The buffer is never overrun, by vpp_cli_exec or by vpp_exec, and the
\* zero that ends the text always has its place.
BufferBounds ==
  IF reader.buffer = "grows" THEN used < size ELSE used < OutputLen

\* SAFETY.  vpp_cli_exec returns the whole output, whatever its length; vpp_exec
\* does if it fits the caller's buffer.
NothingCutNeedlessly ==
  phase = "parse" /\ (reader.buffer = "grows" \/ Bytes(printed) < OutputLen - 1)
    => text = printed

\* SAFETY.  Of a whole output whose entries the caller has room for, a reader
\* finds exactly the entries, each with its own values and no other's: the last
\* block too, and nothing of the title or of an error's text.
ReadersAreExact ==
  phase = "done" /\ text = printed =>
    \/ result = Found(reader, printed) \o reader.offers
    \/ Full(Len(result))

\* SAFETY.  With more bonds, pairs, interfaces or MTUs than room, the entries found
\* are the first ones.  The last bond found is cut off from its lines: it keeps the
\* default mode and load-balance although VPP printed others.
CapSparesAllButLast ==
  phase = "done" /\ text = printed /\ Full(Len(result)) =>
    LET found == Found(reader, printed)
        last == Len(result)
    IN /\ last <= Len(found) /\ last \in reader.room
       /\ \A n \in 1..last : result[n].name = found[n].name
       /\ \A n \in 1..last : result[n].vals =
            IF reader.output = "blocks" /\ n = last THEN {} ELSE found[n].vals

\* SAFETY.  However much of the output is cut, what is found was printed: every
\* name by a line of its own, every value by some line, though not of that block.
NothingMadeUp ==
  \A n \in 1..Len(result) :
    \/ result[n] = NoBlock /\ reader.offers # <<>>
    \/ /\ \/ reader.output = "items" /\ result[n].name \in reader.wanted
          \/ \E k \in 1..Len(printed) : /\ printed[k].name = result[n].name
                                        /\ printed[k].kind \in {"row", "head"}
       /\ result[n].vals \subseteq {printed[k].val : k \in 1..Len(printed)}

=============================================================================
