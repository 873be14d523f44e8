----------------------------- MODULE RpcService -----------------------------
(***************************************************************************)
(* What the RPCs of vpp-interfaces.yang promise a NETCONF client           *)
(* (create-loopback, delete-bond, lcp-create, ...).  A request asks for    *)
(* one command.  Between the request and its reply there is one moment at  *)
(* which VPP either carries it out -- and the reply is positive -- or      *)
(* cannot, and is left as it was.  In that case the reply should be an     *)
(* error, but may be positive too: vppctl exits with status 0 whatever     *)
(* happened, and the code searches its answer for a few words only.        *)
(* A negative reply, then, is a promise; a positive one is not.            *)
(***************************************************************************)
EXTENDS VppCommand

CONSTANT Meddled   \* bound: the facts the others may set up or remove

VARIABLES
  vpp, vppUp,   \* VPP's facts; is there a process to carry out commands?
  stage,        \* the one request in the works: "idle", "asked" or "decided"
  command,      \* what it asks for
  outcome       \* "none" until it is decided, then "true" or "error"

vars == <<vpp, vppUp, stage, command, outcome>>

NoCommand == [do |-> "other", facts |-> {}]

Init ==
  /\ vpp = Boot /\ vppUp = TRUE
  /\ stage = "idle" /\ command = NoCommand /\ outcome = "none"

Decide(o) ==
  /\ stage = "asked"
  /\ stage' = "decided" /\ outcome' = o
  /\ UNCHANGED <<vppUp, command>>

Impossible == ~vppUp \/ Obeyed(vpp, command) = {}

Ask ==
  /\ stage = "idle"
  /\ stage' = "asked" /\ command' \in Command
  /\ UNCHANGED <<vpp, vppUp, outcome>>

CarryOut == vppUp /\ vpp' \in Obeyed(vpp, command) /\ Decide("true")

Refuse == Impossible /\ UNCHANGED vpp /\ Decide("error")

Misjudge == Impossible /\ UNCHANGED vpp /\ Decide("true")

\* The reply is sent, or the backend dies and nobody will ever reply.
Finish ==
  /\ stage # "idle"
  /\ stage' = "idle" /\ command' = NoCommand /\ outcome' = "none"
  /\ UNCHANGED <<vpp, vppUp>>

\* Everybody else: VPP dies and starts, a CLI session changes something.
Others ==
  /\ \/ vpp' = Boot /\ vppUp' = FALSE
     \/ vppUp' = TRUE /\ UNCHANGED vpp
     \/ /\ \E f \in Meddled : vpp' \in {Establish(vpp, f), Without(vpp, f)}
        /\ UNCHANGED vppUp
  /\ UNCHANGED <<stage, command, outcome>>

\* Transactions have VPP to themselves as far as requests are concerned: the
\* backend has one thread.
Transaction ==
  /\ stage = "idle"
  /\ vpp' \in SUBSET Fact
  /\ UNCHANGED <<vppUp, stage, command, outcome>>

Next == Ask \/ CarryOut \/ Refuse \/ Misjudge \/ Finish \/ Others \/ Transaction

Spec == Init /\ [][Next]_vars

=============================================================================
