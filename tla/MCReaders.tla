----------------------------- MODULE MCReaders -----------------------------
(***************************************************************************)
(* An instance of Readers for TLC: every output of a title and up to four  *)
(* rows, every output of up to five lines of three blocks, and the text of *)
(* an error, for buffers that hold some of them and not others.            *)
(***************************************************************************)
EXTENDS Readers

CONSTANTS local0, eth, bond, loop, vlan, loopvlan, x, y, template

MCNames == {local0, eth, bond, loop, vlan, loopvlan}

MCClass == [n \in MCNames |->
              CASE n = local0 -> "local" [] n = eth -> "ethernet" [] n = bond -> "bond"
                [] n = loop -> "loop" [] n = vlan -> "sub" [] OTHER -> "loopsub"]

MCSize == [k \in Kinds |-> IF k \in {"item", "other"} THEN 2 ELSE 3]

OfKind(k, names, vals) == [kind : {k}, name : names, val : vals]

\* Sequences of up to n lines no two of which have the same name.
Distinct(lines, n) ==
  UNION {{s \in [1..m -> lines] : \A j, k \in 1..m : s[j].name = s[k].name => j = k} :
           m \in 0..n}

Title == [kind |-> "title", name |-> local0, val |-> x]
Error == [kind |-> "other", name |-> local0, val |-> x]

MCRows == {<<Title>> \o s : s \in Distinct(OfKind("row", MCNames, {y}), 4)}
          \cup {<<Error>> \o <<Title>> \o s : s \in Distinct(OfKind("row", MCNames, {y}), 2)}

MCBlocks ==
  {s \in UNION {[1..m -> OfKind("head", {eth, bond, loop}, {x})
                          \cup OfKind("item", {local0}, {x, y}) \cup {Error}] : m \in 0..5} :
     \A j, k \in 1..Len(s) : s[j].kind = "head" /\ s[k].name = s[j].name => j = k}

MCBytes(d) ==
  LET total[n \in 0..Len(d)] == IF n = 0 THEN 0 ELSE total[n - 1] + MCSize[d[n].kind]
  IN total[Len(d)]

\* Three names stand for three bonds.
MCLists == {{}, {bond}, {bond, loop}}

MCOutputs == MCRows \cup MCBlocks \cup {<<Error>>}

=============================================================================
