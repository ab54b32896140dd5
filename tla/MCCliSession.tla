---------------------------- MODULE MCCliSession -----------------------------
(* Small instances of CliSession for TLC.  A behaviour is about one command *)
(* that logs in, or about commands that share the tokens of a login that is *)
(* over.                                                                    *)
EXTENDS CliSession, TLC

CONSTANT Parts

VARIABLE part   \* what a behaviour is about

mcVars == <<vars, part>>

Symmetry == Permutations(Cmds)

\* A login whose answer travelled for some of the timeout.
Saved ==
  \E exp \in (now + AccessLife - HttpTimeout)..(now + AccessLife) :
    file = [state |-> "ok", creds |-> [exp |-> exp, refresh |-> 1, expiry |-> now + AccessLife]]

MCInit ==
  /\ part \in Parts
  /\ now = 1
  /\ proc = [p \in Cmds |-> Idle]
  /\ code = [p \in Cmds |-> NoCode]
  /\ IF part = "tokens"
     THEN Saved /\ inode = 1 /\ good = {1} /\ issued = 1
     ELSE file = NoFile /\ inode = 0 /\ good = {} /\ issued = 0
  /\ rotates \in BOOLEAN
  /\ lost = FALSE /\ started = 0 /\ faults = 0

MCNext ==
  /\ Next
  /\ part = "login" => started' <= 1
  /\ part = "tokens" => now' <= 4 /\ \A p \in Cmds : code'[p].polled = 0
  /\ UNCHANGED part

MCSpec == MCInit /\ [][MCNext]_mcVars
=============================================================================
