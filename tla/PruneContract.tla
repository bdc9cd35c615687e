---------------------------- MODULE PruneContract ----------------------------
(***************************************************************************)
(* What pruning promises, without locks, scans or fingerprints: a session  *)
(* has a ledger of what it has seen, and each of its requests is observed  *)
(* in one step, passes or fails the gate in one step, and has its tools    *)
(* chosen in one step.                                                     *)
(*                                                                         *)
(* The choice is bounded from both sides.  Everything for which there was  *)
(* evidence when the request was observed stays; everything for which      *)
(* there is none when the choice is made goes.  Between the two, calls     *)
(* that other requests of the session bring in meanwhile may count or not. *)
(* In a session without concurrent requests the two bounds are the same.   *)
(***************************************************************************)
EXTENDS Naturals

CONSTANTS
  Requests,            \* requests
  SessionIds,          \* sessions
  Home,                \* the session of each request
  Tools,               \* tool names
  EnablePruneTools,    \* whether anything is pruned at all
  MinObservedTurns     \* observations before a session prunes

VARIABLES
  ledger,   \* per session: tools called, observations, last answer a hit
  phase,    \* how far each request is
  job,      \* per request: tools offered, tools it keeps itself, tools known
  dropped   \* per request: the tools chosen to be dropped

contractVars == <<ledger, phase, job, dropped>>

NewLedger == [called |-> {}, turns |-> 0, hit |-> FALSE]
NoJob == [offered |-> {}, keep |-> {}, known |-> {}]

Init ==
  /\ ledger = [id \in SessionIds |-> NewLedger]
  /\ phase = [r \in Requests |-> "new"]
  /\ job = [r \in Requests |-> NoJob]
  /\ dropped = [r \in Requests |-> {}]

\* The calls in the request's history enter the ledger, whose calls are from now
\* on known to the request.
Observe(r) ==
  /\ phase[r] = "new"
  /\ phase' = [phase EXCEPT ![r] = "observed"]
  /\ \E offered, keep, history \in SUBSET Tools :
       /\ ledger' = [ledger EXCEPT ![Home[r]] =
            [called |-> @.called \cup history, turns |-> @.turns + 1, hit |-> @.hit]]
       /\ job' = [job EXCEPT ![r] =
            [offered |-> offered, keep |-> keep,
             known |-> ledger[Home[r]].called \cup history]]
  /\ UNCHANGED dropped

\* Some tool may be dropped from r now.
GateOpen(r) ==
  /\ EnablePruneTools
  /\ job[r].offered # {}
  /\ ledger[Home[r]].turns >= MinObservedTurns
  /\ ~ledger[Home[r]].hit

PassGate(r) ==
  /\ phase[r] = "observed"
  /\ phase' = [phase EXCEPT ![r] = IF GateOpen(r) THEN "deciding" ELSE "decided"]
  /\ UNCHANGED <<ledger, job, dropped>>

Decide(r) ==
  /\ phase[r] = "deciding"
  /\ phase' = [phase EXCEPT ![r] = "decided"]
  /\ \E D \in SUBSET job[r].offered :
       /\ D \cap (job[r].keep \cup job[r].known) = {}
       /\ job[r].offered \ (job[r].keep \cup ledger[Home[r]].called) \subseteq D
       /\ dropped' = [dropped EXCEPT ![r] = D]
  /\ UNCHANGED <<ledger, job>>

\* The request is over.
Over(r) ==
  /\ phase' = [phase EXCEPT ![r] = "over"]
  /\ job' = [job EXCEPT ![r] = NoJob]
  /\ dropped' = [dropped EXCEPT ![r] = {}]

\* The answer to a request tells whether it was a hit, or there is none to learn
\* from; a request that was never observed can end as well.
Learn(r) ==
  /\ phase[r] = "decided"
  /\ \E hit \in BOOLEAN : ledger' = [ledger EXCEPT ![Home[r]].hit = hit]
  /\ Over(r)

Abandon(r) ==
  /\ phase[r] \in {"new", "decided"}
  /\ Over(r)
  /\ UNCHANGED ledger

\* The ledgers are lost, and with them every request that relied on them.
Restart ==
  /\ ledger' = [id \in SessionIds |-> NewLedger]
  /\ \E waiting \in SUBSET {r \in Requests : phase[r] = "new"} :
       phase' = [r \in Requests |-> IF r \in waiting THEN "new" ELSE "over"]
  /\ job' = [r \in Requests |-> NoJob]
  /\ dropped' = [r \in Requests |-> {}]

Next ==
  \/ \E r \in Requests : Observe(r) \/ PassGate(r) \/ Decide(r) \/ Learn(r) \/ Abandon(r)
  \/ Restart

Spec == Init /\ [][Next]_contractVars

==============================================================================
