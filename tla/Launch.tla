------------------------------- MODULE Launch -------------------------------
(***************************************************************************)
(* How start_router hands its thread configurations to the lcores: the     *)
(* launch and wait protocol of DPDK's EAL (eal_thread.c,                   *)
(* eal_common_launch.c), one shared access a step.  A slave is commanded   *)
(* over one pipe and acknowledges over another; its state goes from WAIT   *)
(* to RUNNING, to FINISHED, and is set back to WAIT by the master.         *)
(* rte_eal_init launches a dummy function on every slave first.  The       *)
(* router numbers its workers from 0, the EAL its lcores by CPU.           *)
(***************************************************************************)
EXTENDS Integers, FiniteSets, Sequences

CONSTANTS
  RTE_MAX_LCORE,
  LcoreSets       \* the sets of CPUs the process may be allowed to run on

Ids == 0 .. RTE_MAX_LCORE - 1

ASSUME LaunchAssumption == RTE_MAX_LCORE \in Nat /\ LcoreSets \subseteq (SUBSET Ids) \ {{}}

Sync == -1              \* the argument of sync_func
NoJob == -2

VARIABLES
  lcores,         \* the enabled lcores
  state,          \* lcore -> lcore_config[].state
  job,            \* lcore -> lcore_config[].f and arg: Sync, or the index of a thread configuration
  m2s, s2m,       \* lcore -> bytes in its two pipes
  loop,           \* slave -> where it is in eal_thread_loop
  ran,            \* slave -> the thread configurations it has run
  lpc,            \* where the master is
  todo,           \* lcores its current loop still has to go through
  round,          \* "init" in rte_eal_init, "router" in start_router
  refused,        \* whether a launch returned -EBUSY
  force_quit,
  freed           \* whether router_finalize has freed the configurations

slaveVars == <<loop, ran>>
lvars == <<lcores, state, job, m2s, s2m, slaveVars, lpc, todo, round, refused, force_quit, freed>>

master == CHOOSE l \in lcores : \A k \in lcores : l <= k
Slaves == lcores \ {master}

\* The lcores start_router launches workers on.
WorkerIdsMutant == 2 .. Cardinality(lcores) - 1
WorkerIds == 1 .. Cardinality(lcores) - 1

\* Both loops go by increasing id.
First(l) == l \in todo /\ \A k \in todo : l <= k

LInit ==
  /\ lcores \in LcoreSets
  /\ state = [l \in Ids |-> "WAIT"]
  /\ job = [l \in Ids |-> NoJob]
  /\ m2s = [l \in Ids |-> 0] /\ s2m = [l \in Ids |-> 0]
  /\ loop = [l \in Slaves |-> "read"]
  /\ ran = [l \in Slaves |-> <<>>]
  /\ lpc = "launch" /\ todo = Slaves /\ round = "init"
  /\ refused = FALSE /\ force_quit = FALSE /\ freed = FALSE
-----------------------------------------------------------------------------
(***************************************************************************)
(* The master.                                                             *)
(***************************************************************************)
\* start_thread: the index of the configuration lcore l gets.
ThrIdx(l) == l

\* rte_eal_remote_launch up to the command; start_thread ignores a refusal.
rte_eal_remote_launch(l) ==
  /\ lpc = "launch" /\ First(l) /\ l \in Slaves
  /\ IF state[l] # "WAIT"
       THEN refused' = TRUE /\ todo' = todo \ {l} /\ UNCHANGED <<job, m2s, lpc>>
       ELSE /\ job' = [job EXCEPT ![l] = IF round = "init" THEN Sync ELSE ThrIdx(l)]
            /\ m2s' = [m2s EXCEPT ![l] = @ + 1]
            /\ lpc' = "ack"
            /\ UNCHANGED <<refused, todo>>
  /\ UNCHANGED <<lcores, state, s2m, slaveVars, round, force_quit, freed>>

WaitAck(l) ==
  /\ lpc = "ack" /\ First(l) /\ s2m[l] > 0
  /\ s2m' = [s2m EXCEPT ![l] = @ - 1]
  /\ todo' = todo \ {l}
  /\ lpc' = "launch"
  /\ UNCHANGED <<lcores, state, job, m2s, slaveVars, round, refused, force_quit, freed>>

\* The lcore is not a slave: its pipes were never made, both file descriptors
\* are 0, and it depends on the standard input whether the write and the read
\* succeed, panic, or block for ever.
LaunchOff(l) ==
  /\ lpc = "launch" /\ First(l) /\ l \notin Slaves
  /\ \/ lpc' = "panic" /\ UNCHANGED <<job, todo>>
     \/ /\ job' = [job EXCEPT ![l] = ThrIdx(l)]
        /\ todo' = todo \ {l}
        /\ UNCHANGED lpc
  /\ UNCHANGED <<lcores, state, m2s, s2m, slaveVars, round, refused, force_quit, freed>>

\* In start_router the master then runs router_thread itself until force_quit.
LaunchEnd ==
  /\ lpc = "launch" /\ todo = {}
  /\ round = "router" => force_quit
  /\ lpc' = "wait" /\ todo' = Slaves
  /\ UNCHANGED <<lcores, state, job, m2s, s2m, slaveVars, round, refused, force_quit, freed>>

Waitable(l) == state[l] # "RUNNING"

rte_eal_wait_lcoreMutant(l) ==
  /\ lpc = "wait" /\ First(l) /\ Waitable(l)
  /\ todo' = todo \ {l}
  /\ UNCHANGED <<lcores, state, job, m2s, s2m, slaveVars, lpc, round, refused, force_quit, freed>>
\* One slave of rte_eal_mp_wait_lcore.
rte_eal_wait_lcore(l) ==
  /\ lpc = "wait" /\ First(l) /\ Waitable(l)
  /\ state' = [state EXCEPT ![l] = "WAIT"]
  /\ todo' = todo \ {l}
  /\ UNCHANGED <<lcores, job, m2s, s2m, slaveVars, lpc, round, refused, force_quit, freed>>

start_router ==
  /\ lpc = "wait" /\ todo = {} /\ round = "init"
  /\ lpc' = "launch" /\ todo' = WorkerIds /\ round' = "router"
  /\ UNCHANGED <<lcores, state, job, m2s, s2m, slaveVars, refused, force_quit, freed>>

router_finalize ==
  /\ lpc = "wait" /\ todo = {} /\ round = "router"
  /\ freed' = TRUE
  /\ lpc' = "end"
  /\ UNCHANGED <<lcores, state, job, m2s, s2m, slaveVars, todo, round, refused, force_quit>>

Master == \/ \E l \in Ids : rte_eal_remote_launch(l) \/ WaitAck(l) \/ rte_eal_wait_lcore(l)
          \/ LaunchEnd \/ start_router \/ router_finalize

\* The handler is installed by router_init, after rte_eal_init.
signal_handler ==
  /\ round = "router" /\ lpc \notin {"end", "panic"} /\ ~force_quit
  /\ force_quit' = TRUE
  /\ UNCHANGED <<lcores, state, job, m2s, s2m, slaveVars, lpc, todo, round, refused, freed>>
-----------------------------------------------------------------------------
(***************************************************************************)
(* A slave: eal_thread_loop.                                               *)
(***************************************************************************)
Goes(l, from, to) == lpc # "panic" /\ loop[l] = from /\ loop' = [loop EXCEPT ![l] = to]

ReadCommand(l) ==
  /\ Goes(l, "read", "command")
  /\ m2s[l] > 0
  /\ m2s' = [m2s EXCEPT ![l] = @ - 1]
  /\ UNCHANGED <<lcores, state, job, s2m, ran, lpc, todo, round, refused, force_quit, freed>>

SetRunningMutant(l) ==
  /\ Goes(l, "command", "running")
  /\ UNCHANGED <<lcores, state, job, m2s, s2m, ran, lpc, todo, round, refused, force_quit, freed>>
SetRunning(l) ==
  /\ Goes(l, "command", "running")
  /\ state' = [state EXCEPT ![l] = "RUNNING"]
  /\ UNCHANGED <<lcores, job, m2s, s2m, ran, lpc, todo, round, refused, force_quit, freed>>

\* The acknowledgement leaves only after the state is RUNNING.
SendAck(l) ==
  /\ Goes(l, "running", "call")
  /\ s2m' = [s2m EXCEPT ![l] = @ + 1]
  /\ UNCHANGED <<lcores, state, job, m2s, ran, lpc, todo, round, refused, force_quit, freed>>

\* The function is called: sync_func returns at once, router_thread works.
Call(l) ==
  /\ Goes(l, "call", IF job[l] = Sync THEN "return" ELSE "work")
  /\ ran' = IF job[l] = Sync THEN ran ELSE [ran EXCEPT ![l] = Append(@, job[l])]
  /\ UNCHANGED <<lcores, state, job, m2s, s2m, lpc, todo, round, refused, force_quit, freed>>

\* router_thread returns at force_quit.
Quit(l) ==
  /\ Goes(l, "work", "return") /\ force_quit
  /\ UNCHANGED <<lcores, state, job, m2s, s2m, ran, lpc, todo, round, refused, force_quit, freed>>

Finish(l) ==
  /\ Goes(l, "return", "read")
  /\ state' = [state EXCEPT ![l] = "FINISHED"]
  /\ UNCHANGED <<lcores, job, m2s, s2m, ran, lpc, todo, round, refused, force_quit, freed>>

Slave(l) == ReadCommand(l) \/ SetRunning(l) \/ SendAck(l) \/ Call(l) \/ Quit(l) \/ Finish(l)

LNext == Master \/ (\E l \in Ids : LaunchOff(l)) \/ signal_handler \/ \E l \in Slaves : Slave(l)

LSpec == LInit /\ [][LNext]_lvars

\* Every lcore keeps running; the standard input owes nothing.
LFairSpec == LSpec /\ WF_lvars(Master) /\ \A l \in Ids : WF_lvars(l \in Slaves /\ Slave(l))
-----------------------------------------------------------------------------
\* The configurations are freed only when no slave runs router_thread, or has
\* been commanded to: rte_eal_wait_lcore returns at once for a slave in state
\* WAIT, so this rests on the slave being RUNNING before it acknowledges.
FreedAfterLast ==
  freed => \A l \in Slaves : loop[l] = "read" /\ m2s[l] = 0

\* start_thread may ignore the result of rte_eal_remote_launch: no slave is
\* ever found busy.
LaunchNeverRefused == ~refused

Contiguous == lcores = 0 .. Cardinality(lcores) - 1

\* On CPUs numbered from 0 without a gap the router serves with all of them,
\* and ends after the signal with every configuration run once.
EndsAfterQuit ==
  Contiguous => (force_quit ~> (lpc = "end" /\ \A l \in Slaves : ran[l] = <<l>>))
=============================================================================
