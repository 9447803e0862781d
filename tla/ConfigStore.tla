---------------------------- MODULE ConfigStore ----------------------------
(***************************************************************************)
(* What anchormap.yaml promises to the commands that write it (init, map)  *)
(* and to anyone who reads it: the path always holds either nothing or one *)
(* complete configuration; a writer replaces it in one indivisible step;   *)
(* a writer that fails has not replaced it.                                *)
(*                                                                         *)
(* The store has two layers.  `store' is what a process that reads the     *)
(* path sees, `durable' is what a power loss would leave.  Both only ever  *)
(* hold complete configurations.                                           *)
(***************************************************************************)

CONSTANTS
  Writers,    \* the write attempts, each with a configuration of its own
  Initial,    \* the configuration that is there before any of them
  Absent      \* no anchormap.yaml

VARIABLES
  store,      \* Absent, Initial, or the writer whose configuration it is
  durable,    \* the same, after a power loss
  phase       \* how far each writer has come

svars == <<store, durable, phase>>

Configs == Writers \union {Initial, Absent}
Phases  == {"pending", "committed", "ok", "failed", "killed"}

SInit ==
  /\ store \in {Initial, Absent}
  /\ durable = store
  /\ phase = [w \in Writers |-> "pending"]

\* The one visible change: the writer's configuration replaces the old one.
Commit(w) ==
  /\ phase[w] = "pending"
  /\ store' = w
  /\ phase' = [phase EXCEPT ![w] = "committed"]
  /\ UNCHANGED durable

\* Success is reported after the commit, and nothing can fail in between.
ReportOk(w) ==
  /\ phase[w] = "committed"
  /\ phase' = [phase EXCEPT ![w] = "ok"]
  /\ UNCHANGED <<store, durable>>

\* A failure is reported only by a writer that did not commit.
ReportFailure(w) ==
  /\ phase[w] = "pending"
  /\ phase' = [phase EXCEPT ![w] = "failed"]
  /\ UNCHANGED <<store, durable>>

Killed(w) ==
  /\ phase[w] \in {"pending", "committed"}
  /\ phase' = [phase EXCEPT ![w] = "killed"]
  /\ UNCHANGED <<store, durable>>

\* The operating system makes the current configuration durable on its own.
Persist ==
  /\ durable' = store
  /\ UNCHANGED <<store, phase>>

\* A power loss brings the durable configuration back.  Writers that were
\* running die with the machine; those that had not started may run later.
LosePower ==
  /\ store' = durable
  /\ \E dead \in SUBSET {w \in Writers : phase[w] \in {"pending", "committed"}} :
        phase' = [w \in Writers |-> IF w \in dead THEN "killed" ELSE phase[w]]
  /\ UNCHANGED durable

SNext ==
  \/ \E w \in Writers : Commit(w) \/ ReportOk(w) \/ ReportFailure(w) \/ Killed(w)
  \/ Persist
  \/ LosePower

SSpec == SInit /\ [][SNext]_svars
=============================================================================
