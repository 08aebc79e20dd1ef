-------------------------- MODULE ComponentProofs --------------------------
(***************************************************************************)
(* Three components that stand by themselves.                              *)
(*                                                                         *)
(* The launch of the threads, for every set of lcores: router_finalize     *)
(* frees the configurations only when every slave is back at its pipe, and *)
(* no launch is refused.  The invariant follows one slave through a        *)
(* launch: what its state, its loop and its two pipes may be together,     *)
(* depending on whether the master is waiting for its acknowledgement.     *)
(*                                                                         *)
(* The forwarder, for every set of interfaces, burst size, ring size and   *)
(* number of packets: its threads never share a queue, its counters never  *)
(* run ahead, and with one thread they are exact.  The counters need more  *)
(* than the property: a thread that is about to write back a stale value   *)
(* must leave room for what all threads have not counted yet.              *)
(*                                                                         *)
(* The pointer list, for every width of unsigned int and every number of   *)
(* elements: each call on the array does to the sequence, and returns,     *)
(* what the call of that name and arguments does in SeqList, and the list  *)
(* ends the process only for a reason.  What has to be kept is that _cap   *)
(* is the number of cells there really are; the rest is what each call     *)
(* leaves of the cells.                                                    *)
(***************************************************************************)
EXTENDS Launch, Forwarder, PointerList, TLAPS

(***************************************************************************)
(* The launch of the threads.                                              *)
(***************************************************************************)
\* A slave the master is not talking to: idle, or running what it was given.
Quiet(l) ==
  /\ m2s[l] = 0 /\ s2m[l] = 0
  /\ \/ loop[l] = "read" /\ state[l] \in {"WAIT", "FINISHED"}
     \/ loop[l] \in {"call", "work", "return"} /\ state[l] = "RUNNING"

\* A slave between the command and the end of its acknowledgement.
Pending(l) ==
  \/ m2s[l] = 1 /\ s2m[l] = 0 /\ loop[l] = "read" /\ state[l] = "WAIT"
  \/ m2s[l] = 0 /\ s2m[l] = 0 /\ loop[l] = "command" /\ state[l] = "WAIT"
  \/ m2s[l] = 0 /\ s2m[l] = 0 /\ loop[l] = "running" /\ state[l] = "RUNNING"
  \/ m2s[l] = 0 /\ s2m[l] = 1 /\ loop[l] \in {"call", "work", "return"} /\ state[l] = "RUNNING"
  \/ m2s[l] = 0 /\ s2m[l] = 1 /\ loop[l] = "read" /\ state[l] = "FINISHED"

Ready(l) == loop[l] = "read" /\ state[l] = "WAIT"
Acking(l) == lpc = "ack" /\ First(l)

\* A slave a loop of the master has yet to launch is ready, and so is one it
\* has waited for.
SlaveInv(l) ==
  /\ IF Acking(l) THEN Pending(l) ELSE Quiet(l)
  /\ lpc \in {"launch", "ack"} /\ l \in todo /\ ~Acking(l) => Ready(l)
  /\ lpc = "wait" /\ l \notin todo => Ready(l)
  /\ lpc = "end" => Ready(l)

Shape ==
  /\ lcores \subseteq Ids
  /\ todo \subseteq Int
  /\ state \in [Ids -> {"WAIT", "RUNNING", "FINISHED"}]
  /\ m2s \in [Ids -> Nat] /\ s2m \in [Ids -> Nat]
  /\ loop \in [Slaves -> {"read", "command", "running", "call", "work", "return"}]
  /\ lpc \in {"launch", "ack", "wait", "end", "panic"}
  /\ lpc = "ack" => \E l \in Slaves : First(l)
  /\ freed => lpc = "end"

LaunchIInv == Shape /\ ~refused /\ \A l \in Slaves : SlaveInv(l)

LEMMA IdsAreInts == Ids \subseteq Int
BY LaunchAssumption DEF Ids

LEMMA SlavesAreIds == Shape => Slaves \subseteq Ids
BY Zenon DEF Shape, Slaves

\* The first of a loop is one lcore.
LEMMA FirstUnique ==
  ASSUME todo \subseteq Int, NEW l, NEW k, First(l), First(k)
  PROVE  l = k
<1>1. l \in Int /\ k \in Int /\ l <= k /\ k <= l
  BY DEF First
<1>. QED BY <1>1

LEMMA LaunchInit == LInit => LaunchIInv
<1>. SUFFICES ASSUME LInit PROVE LaunchIInv
  BY Zenon
<1>0. lcores \subseteq Ids
  BY LaunchAssumption, Zenon DEF LInit
<1>1. Slaves \subseteq Ids /\ Slaves \subseteq Int
  BY <1>0, IdsAreInts, Zenon DEF Slaves
<1>2. Shape
  BY <1>0, <1>1, Zenon DEF LInit, Shape
<1>3. ASSUME NEW l \in Slaves PROVE SlaveInv(l)
  BY <1>1, Zenon DEF LInit, SlaveInv, Quiet, Ready, Acking
<1>. QED BY <1>2, <1>3, Zenon DEF LaunchIInv, LInit

LEMMA LaunchInv ==
  ASSUME LaunchIInv, NEW l \in Ids, rte_eal_remote_launch(l)
  PROVE  LaunchIInv'
<1>1. l \in Slaves /\ First(l) /\ lpc = "launch" /\ Ready(l) /\ Quiet(l)
  BY Zenon DEF LaunchIInv, SlaveInv, rte_eal_remote_launch, First, Acking
<1>2. state[l] = "WAIT" /\ m2s[l] = 0
  BY <1>1, Zenon DEF Ready, Quiet
<1>3. /\ m2s' = [m2s EXCEPT ![l] = @ + 1] /\ lpc' = "ack" /\ ~refused' /\ todo' = todo
      /\ UNCHANGED <<lcores, state, s2m, loop, freed>>
  BY <1>2, Zenon DEF rte_eal_remote_launch, slaveVars, LaunchIInv
<1>4. Slaves' = Slaves /\ (\A k : First(k)' = First(k))
  BY <1>3, Zenon DEF Slaves, master, First
<1>5. Shape'
  BY <1>1, <1>3, <1>4 DEF LaunchIInv, Shape
<1>6. ASSUME NEW k \in Slaves PROVE SlaveInv(k)'
  <2>1. CASE k = l
    <3>1. Pending(l)'
      BY <1>1, <1>2, <1>3 DEF Pending, Ready, Quiet, LaunchIInv, Shape
    <3>2. Acking(l)'
      BY <1>1, <1>3, <1>4, Zenon DEF Acking
    <3>. QED BY <1>3, <2>1, <3>1, <3>2, Zenon DEF SlaveInv
  <2>2. CASE k # l
    <3>1. ~First(k)
      BY <1>1, <2>2, FirstUnique, Zenon DEF LaunchIInv, Shape
    <3>2. ~Acking(k) /\ ~Acking(k)'
      BY <1>4, <3>1 DEF Acking
    <3>3. Quiet(k)' = Quiet(k) /\ Ready(k)' = Ready(k)
      BY <1>3, <2>2 DEF Quiet, Ready, LaunchIInv, Shape
    <3>4. SlaveInv(k)
      BY DEF LaunchIInv
    <3>. QED BY <1>1, <1>3, <3>2, <3>3, <3>4, Zenon DEF SlaveInv
  <2>. QED BY <2>1, <2>2
<1>. QED BY <1>3, <1>4, <1>5, <1>6, Zenon DEF LaunchIInv

LEMMA WaitAckInv ==
  ASSUME LaunchIInv, NEW l \in Ids, WaitAck(l)
  PROVE  LaunchIInv'
<1>1. First(l) /\ lpc = "ack" /\ s2m[l] > 0 /\ Acking(l)
  BY Zenon DEF WaitAck, Acking
<1>2. l \in Slaves
  BY <1>1, FirstUnique, Zenon DEF LaunchIInv, Shape
<1>3. Pending(l)
  BY <1>1, <1>2, Zenon DEF LaunchIInv, SlaveInv
<1>4. /\ s2m' = [s2m EXCEPT ![l] = @ - 1] /\ lpc' = "launch" /\ todo' = todo \ {l}
      /\ UNCHANGED <<lcores, state, m2s, loop, freed, refused>>
  BY Zenon DEF WaitAck, slaveVars
<1>5. Slaves' = Slaves
  BY <1>4, Zenon DEF Slaves, master
<1>6. s2m[l] = 1
  BY <1>1, <1>3 DEF Pending
<1>7. Shape'
  <2>1. s2m' \in [Ids -> Nat]
    BY <1>4, <1>6 DEF LaunchIInv, Shape
  <2>. QED BY <1>1, <1>4, <1>5, <2>1, Zenon DEF LaunchIInv, Shape
<1>8. ASSUME NEW k \in Slaves PROVE SlaveInv(k)'
  <2>0. ~Acking(k)'
    BY <1>4, Zenon DEF Acking
  <2>1. CASE k = l
    <3>1. Quiet(l)'
      BY <1>2, <1>3, <1>4, <1>6 DEF Pending, Quiet, LaunchIInv, Shape
    <3>. QED BY <1>4, <2>0, <2>1, <3>1, Zenon DEF SlaveInv
  <2>2. CASE k # l
    <3>1. ~Acking(k)
      BY <1>1, <2>2, FirstUnique, Zenon DEF LaunchIInv, Shape, Acking
    <3>2. Quiet(k)' = Quiet(k) /\ Ready(k)' = Ready(k)
      BY <1>4, <2>2 DEF Quiet, Ready, LaunchIInv, Shape
    <3>3. SlaveInv(k)
      BY DEF LaunchIInv
    <3>. QED BY <1>1, <1>4, <2>0, <3>1, <3>2, <3>3, Zenon DEF SlaveInv
  <2>. QED BY <2>1, <2>2
<1>. QED BY <1>4, <1>5, <1>7, <1>8, Zenon DEF LaunchIInv

LEMMA WaitLcoreInv ==
  ASSUME LaunchIInv, NEW l \in Ids, rte_eal_wait_lcore(l)
  PROVE  LaunchIInv'
<1>1. /\ lpc = "wait" /\ state[l] # "RUNNING" /\ lpc' = lpc
      /\ state' = [state EXCEPT ![l] = "WAIT"] /\ todo' = todo \ {l}
      /\ UNCHANGED <<lcores, m2s, s2m, loop, freed, refused>>
  BY Zenon DEF rte_eal_wait_lcore, Waitable, slaveVars
<1>2. Slaves' = Slaves /\ (\A k : ~Acking(k) /\ ~Acking(k)')
  BY <1>1, Zenon DEF Slaves, master, Acking
<1>3. Shape'
  BY <1>1, <1>2, Zenon DEF LaunchIInv, Shape
<1>4. ASSUME NEW k \in Slaves PROVE SlaveInv(k)'
  <2>0. SlaveInv(k) /\ Quiet(k)
    BY <1>2, Zenon DEF LaunchIInv, SlaveInv
  <2>1. CASE k = l
    <3>1. loop[l] = "read"
      BY <1>1, <2>0, <2>1, Zenon DEF Quiet
    <3>2. Quiet(l)' /\ Ready(l)'
      BY <1>1, <2>0, <2>1, <3>1, Zenon DEF Quiet, Ready, LaunchIInv, Shape
    <3>. QED BY <1>1, <1>2, <2>1, <3>2, Zenon DEF SlaveInv
  <2>2. CASE k # l
    <3>1. Quiet(k)' = Quiet(k) /\ Ready(k)' = Ready(k)
      BY <1>1, <2>2 DEF Quiet, Ready, LaunchIInv, Shape
    <3>. QED BY <1>1, <1>2, <2>0, <2>2, <3>1, Zenon DEF SlaveInv
  <2>. QED BY <2>1, <2>2
<1>. QED BY <1>1, <1>2, <1>3, <1>4, Zenon DEF LaunchIInv

\* The steps of the master that touch no slave.
LEMMA OtherMasterInv ==
  ASSUME LaunchIInv,
         (\E l \in Ids : LaunchOff(l)) \/ LaunchEnd \/ start_router \/ router_finalize
           \/ signal_handler \/ UNCHANGED lvars
  PROVE  LaunchIInv'
<1>1. UNCHANGED <<lcores, state, m2s, s2m, loop, refused>>
  BY Zenon DEF LaunchOff, LaunchEnd, start_router, router_finalize, signal_handler, slaveVars, lvars
<1>2. /\ Slaves' = Slaves
      /\ \A k \in Slaves : Quiet(k)' = Quiet(k) /\ Ready(k)' = Ready(k) /\ Pending(k)' = Pending(k)
  BY <1>1 DEF Slaves, master, Quiet, Ready, Pending
<1>3. ASSUME NEW l \in Ids, LaunchOff(l) PROVE LaunchIInv'
  <2>1. /\ lpc = "launch" /\ lpc' \in {"launch", "panic"} /\ todo' \in {todo, todo \ {l}}
        /\ freed' = freed
    BY <1>3, Zenon DEF LaunchOff
  <2>2. ASSUME NEW k \in Slaves PROVE SlaveInv(k)'
    BY <1>2, <2>1, Zenon DEF LaunchIInv, SlaveInv, Acking
  <2>. QED BY <1>1, <1>2, <2>1, <2>2, Zenon DEF LaunchIInv, Shape
<1>4. CASE LaunchEnd
  <2>1. lpc = "launch" /\ todo = {} /\ lpc' = "wait" /\ todo' = Slaves /\ freed' = freed
    BY <1>4, Zenon DEF LaunchEnd
  <2>2. ASSUME NEW k \in Slaves PROVE SlaveInv(k)'
    BY <1>2, <2>1, Zenon DEF LaunchIInv, SlaveInv, Acking
  <2>3. Slaves \subseteq Int
    BY SlavesAreIds, IdsAreInts, Zenon DEF LaunchIInv
  <2>. QED BY <1>1, <1>2, <2>1, <2>2, <2>3, Zenon DEF LaunchIInv, Shape
<1>5. CASE start_router
  <2>1. lpc = "wait" /\ todo = {} /\ lpc' = "launch" /\ todo' = WorkerIds /\ freed' = freed
    BY <1>5, Zenon DEF start_router
  <2>2. ASSUME NEW k \in Slaves PROVE SlaveInv(k)'
    BY <1>2, <2>1, Zenon DEF LaunchIInv, SlaveInv, Acking
  <2>3. WorkerIds \subseteq Int
    BY DEF WorkerIds
  <2>. QED BY <1>1, <1>2, <2>1, <2>2, <2>3, Zenon DEF LaunchIInv, Shape
<1>6. CASE router_finalize
  <2>1. lpc = "wait" /\ todo = {} /\ lpc' = "end" /\ todo' = todo
    BY <1>6, Zenon DEF router_finalize
  <2>2. ASSUME NEW k \in Slaves PROVE SlaveInv(k)'
    BY <1>2, <2>1, Zenon DEF LaunchIInv, SlaveInv, Acking
  <2>. QED BY <1>1, <1>2, <2>1, <2>2, Zenon DEF LaunchIInv, Shape
<1>7. CASE signal_handler \/ UNCHANGED lvars
  <2>1. UNCHANGED <<lpc, todo, freed>>
    BY <1>7, Zenon DEF signal_handler, lvars
  <2>2. \A k : Acking(k)' = Acking(k) /\ First(k)' = First(k)
    BY <2>1, Zenon DEF Acking, First
  <2>3. ASSUME NEW k \in Slaves PROVE SlaveInv(k)'
    BY <1>2, <2>1, <2>2, Zenon DEF LaunchIInv, SlaveInv
  <2>. QED BY <1>1, <1>2, <2>1, <2>2, <2>3, Zenon DEF LaunchIInv, Shape
<1>. QED BY <1>3, <1>4, <1>5, <1>6, <1>7, Zenon

\* A slave's step changes only what is its own; it is enough to look at the
\* slave itself, which is not one that has to be ready.
LEMMA SlaveFrame ==
  ASSUME LaunchIInv, NEW l \in Slaves,
         UNCHANGED <<lcores, lpc, todo, freed, refused>>,
         Shape',
         \A k \in Slaves \ {l} : /\ m2s'[k] = m2s[k] /\ s2m'[k] = s2m[k]
                                 /\ state'[k] = state[k] /\ loop'[k] = loop[k],
         IF Acking(l) THEN Pending(l)' ELSE Quiet(l)' /\ ~Ready(l)
  PROVE  LaunchIInv'
<1>1. Slaves' = Slaves /\ (\A k : Acking(k)' = Acking(k))
  BY Zenon DEF Slaves, master, Acking, First
<1>2. ASSUME NEW k \in Slaves PROVE SlaveInv(k)'
  <2>1. SlaveInv(k)
    BY Zenon DEF LaunchIInv
  <2>2. CASE k # l
    BY <1>1, <2>1, <2>2, Zenon DEF SlaveInv, Quiet, Pending, Ready
  <2>3. CASE k = l
    BY <1>1, <2>1, <2>3, Zenon DEF SlaveInv, Acking
  <2>. QED BY <2>2, <2>3, Zenon
<1>. QED BY <1>1, <1>2, Zenon DEF LaunchIInv

LEMMA SlaveStepInv ==
  ASSUME LaunchIInv, NEW l \in Slaves, Slave(l)
  PROVE  LaunchIInv'
<1>0. l \in Ids /\ Slaves' = Slaves /\ UNCHANGED <<lcores, lpc, todo, freed, refused>>
  BY SlavesAreIds, Zenon DEF LaunchIInv, Slave, ReadCommand, SetRunning, SendAck, Call, Quit, Finish, Slaves, master
<1>1. IF Acking(l) THEN Pending(l) ELSE Quiet(l)
  BY Zenon DEF LaunchIInv, SlaveInv
<1>s. \A k : First(k)' = First(k)
  BY <1>0, Zenon DEF First
<1>2. CASE ReadCommand(l)
  <2>1. /\ loop[l] = "read" /\ m2s[l] > 0 /\ loop' = [loop EXCEPT ![l] = "command"]
        /\ m2s' = [m2s EXCEPT ![l] = @ - 1] /\ UNCHANGED <<state, s2m>>
    BY <1>2, Zenon DEF ReadCommand, Goes
  <2>2. Acking(l) /\ m2s[l] = 1 /\ s2m[l] = 0 /\ state[l] = "WAIT"
    BY <1>1, <2>1 DEF Pending, Quiet
  <2>3. Shape'
    BY <1>0, <1>s, <2>1, <2>2 DEF LaunchIInv, Shape
  <2>4. Pending(l)'
    BY <1>0, <2>1, <2>2 DEF Pending, LaunchIInv, Shape
  <2>. QED BY <1>0, <2>1, <2>2, <2>3, <2>4, SlaveFrame DEF LaunchIInv, Shape
<1>3. CASE SetRunning(l)
  <2>1. /\ loop[l] = "command" /\ loop' = [loop EXCEPT ![l] = "running"]
        /\ state' = [state EXCEPT ![l] = "RUNNING"] /\ UNCHANGED <<m2s, s2m>>
    BY <1>3, Zenon DEF SetRunning, Goes
  <2>2. Acking(l) /\ m2s[l] = 0 /\ s2m[l] = 0
    BY <1>1, <2>1, Zenon DEF Pending, Quiet
  <2>3. Shape'
    BY <1>0, <1>s, <2>1, Zenon DEF LaunchIInv, Shape
  <2>4. Pending(l)'
    BY <1>0, <2>1, <2>2, ZenonT(40) DEF Pending, LaunchIInv, Shape
  <2>. QED BY <1>0, <2>1, <2>2, <2>3, <2>4, SlaveFrame DEF LaunchIInv, Shape
<1>4. CASE SendAck(l)
  <2>1. /\ loop[l] = "running" /\ loop' = [loop EXCEPT ![l] = "call"]
        /\ s2m' = [s2m EXCEPT ![l] = @ + 1] /\ UNCHANGED <<m2s, state>>
    BY <1>4, Zenon DEF SendAck, Goes
  <2>2. Acking(l) /\ m2s[l] = 0 /\ s2m[l] = 0 /\ state[l] = "RUNNING"
    BY <1>1, <2>1, Zenon DEF Pending, Quiet
  <2>3. Shape'
    BY <1>0, <1>s, <2>1 DEF LaunchIInv, Shape
  <2>4. Pending(l)'
    BY <1>0, <2>1, <2>2 DEF Pending, LaunchIInv, Shape
  <2>. QED BY <1>0, <2>1, <2>2, <2>3, <2>4, SlaveFrame DEF LaunchIInv, Shape
<1>5. CASE Call(l) \/ Quit(l)
  <2>1. PICK from \in {"call", "work"}, to \in {"work", "return"} :
          loop[l] = from /\ loop' = [loop EXCEPT ![l] = to] /\ UNCHANGED <<m2s, s2m, state>>
    BY <1>5, Zenon DEF Call, Quit, Goes
  <2>3. Shape'
    BY <1>0, <1>s, <2>1, Zenon DEF LaunchIInv, Shape
  <2>4. loop'[l] \in {"call", "work", "return"}
    BY <2>1, Zenon DEF LaunchIInv, Shape
  <2>5. IF Acking(l) THEN Pending(l)' ELSE Quiet(l)' /\ ~Ready(l)
    BY <1>1, <2>1, <2>4, ZenonT(40) DEF Pending, Quiet, Ready
  <2>. QED BY <1>0, <2>1, <2>3, <2>5, SlaveFrame, Zenon DEF LaunchIInv, Shape
<1>6. CASE Finish(l)
  <2>1. /\ loop[l] = "return" /\ loop' = [loop EXCEPT ![l] = "read"]
        /\ state' = [state EXCEPT ![l] = "FINISHED"] /\ UNCHANGED <<m2s, s2m>>
    BY <1>6, Zenon DEF Finish, Goes
  <2>3. Shape'
    BY <1>0, <1>s, <2>1, Zenon DEF LaunchIInv, Shape
  <2>4. loop'[l] = "read" /\ state'[l] = "FINISHED"
    BY <1>0, <2>1, Zenon DEF LaunchIInv, Shape
  <2>5. IF Acking(l) THEN Pending(l)' ELSE Quiet(l)' /\ ~Ready(l)
    BY <1>1, <2>1, <2>4, ZenonT(40) DEF Pending, Quiet, Ready
  <2>. QED BY <1>0, <2>1, <2>3, <2>5, SlaveFrame DEF LaunchIInv, Shape
<1>. QED BY <1>2, <1>3, <1>4, <1>5, <1>6, Zenon DEF Slave

LEMMA LaunchInductive == LSpec => []LaunchIInv
<1>1. LaunchIInv /\ [LNext]_lvars => LaunchIInv'
  BY LaunchInv, WaitAckInv, WaitLcoreInv, OtherMasterInv, SlaveStepInv, Zenon DEF LNext, Master
<1>. QED BY LaunchInit, <1>1, PTL DEF LSpec

\* Whatever CPUs the process runs on, router_finalize frees nothing a slave
\* still reads, or is about to.
THEOREM FinalizeIsSafe == LSpec => []FreedAfterLast
<1>1. LaunchIInv => FreedAfterLast
  BY Zenon DEF LaunchIInv, Shape, SlaveInv, FreedAfterLast, Acking, Ready, Quiet
<1>. QED BY LaunchInductive, <1>1, PTL

\* Whatever CPUs the process runs on, rte_eal_remote_launch never returns
\* -EBUSY to start_thread, which would not notice.
THEOREM EveryLaunchIsTaken == LSpec => []LaunchNeverRefused
<1>1. LaunchIInv => LaunchNeverRefused
  BY DEF LaunchIInv, LaunchNeverRefused
<1>. QED BY LaunchInductive, <1>1, PTL
-----------------------------------------------------------------------------
(***************************************************************************)
(* The forwarder.                                                          *)
(***************************************************************************)
\* Quotient and remainder.
LEMMA DivMod ==
  ASSUME NEW a \in Nat, NEW d \in Nat \ {0}
  PROVE  a = d * (a \div d) + (a % d) /\ a % d \in 0 .. d - 1 /\ a \div d \in Nat
BY SMT

LEMMA MulMonotone ==
  ASSUME NEW a \in Int, NEW b \in Int, NEW d \in Nat, a <= b
  PROVE  d * a <= d * b
BY SMT

\* There is one remainder only.
LEMMA ModUnique ==
  ASSUME NEW a \in Nat, NEW d \in Nat \ {0}, NEW q \in Nat, NEW m \in 0 .. d - 1, a = d * q + m
  PROVE  m = a % d
<1>1. PICK k \in Nat, n \in 0 .. d - 1 : a = d * k + n /\ n = a % d
  BY DivMod, Zenon
<1>2. d * q \in Int /\ d * k \in Int /\ d * (q + 1) = d * q + d /\ d * (k + 1) = d * k + d
  OBVIOUS
<1>3. CASE k + 1 <= q
  <2>1. d * (k + 1) <= d * q
    BY <1>3, MulMonotone
  <2>. QED BY <1>1, <1>2, <2>1
<1>4. CASE q + 1 <= k
  <2>1. d * (q + 1) <= d * k
    BY <1>4, MulMonotone
  <2>. QED BY <1>1, <1>2, <2>1
<1>5. CASE k = q
  <2>1. PICK e \in Int : e = d * k /\ e = d * q
    BY <1>2, <1>5, Zenon
  <2>2. a = e + m /\ a = e + n
    BY <1>1, <2>1, Zenon
  <2>3. m = n
    BY <2>2
  <2>. QED BY <1>1, <2>3, Zenon
<1>. QED BY <1>3, <1>4, <1>5

\* A remainder can be taken before an addition, and is not larger than the number.
LEMMA AddMod ==
  ASSUME NEW d \in Nat \ {0}, NEW x \in Nat, NEW y \in Nat
  PROVE  /\ ((x % d) + y) % d = (x + y) % d
         /\ x % d \in Nat /\ x % d <= x
<1>1. PICK q \in Nat, m \in 0 .. d - 1 : x = d * q + m /\ m = x % d
  BY DivMod, Zenon
<1>2. m + y \in Nat /\ x + y \in Nat
  OBVIOUS
<1>3. PICK k \in Nat, n \in 0 .. d - 1 : m + y = d * k + n /\ n = (m + y) % d
  BY <1>2, DivMod, Zenon
<1>4. d * q \in Nat /\ d * k \in Nat /\ d * (q + k) = d * q + d * k /\ q + k \in Nat
  OBVIOUS
<1>5. x + y = d * (q + k) + n
  <2>1. PICK e, f \in Nat : e = d * q /\ f = d * k
    BY <1>4, Zenon
  <2>2. x = e + m /\ m + y = f + n /\ d * (q + k) = e + f
    BY <1>1, <1>3, <1>4, <2>1, Zenon
  <2>. QED BY <2>2
<1>6. n = (x + y) % d
  BY <1>2, <1>4, <1>5, ModUnique, ZenonT(40)
<1>7. m \in Nat /\ m <= x
  BY <1>1, <1>4
<1>. QED BY <1>1, <1>3, <1>6, <1>7, Zenon

Phases == {"off", "poll", "send", "sent", "counting", "burst", "adding"}

\* Packets a thread has sent, and received, and not counted yet.
Uncounted(t) == IF pc[t] \in {"sent", "counting"} THEN 1 ELSE 0
Unadded(t) == IF pc[t] \in {"send", "sent", "counting", "burst", "adding"} THEN rx[t] ELSE 0

TypeInv ==
  /\ pc \in [Threads -> Phases]
  /\ rx \in [Threads -> Nat]
  /\ i \in [Threads -> Nat]
  /\ reg \in [Threads -> Nat]
  /\ config \in [Threads -> [src : Interfaces \cup {-1}, dst : Interfaces \cup {-1}]]
  /\ waiting \in [Interfaces -> Nat]
  /\ sent_pkts \in Nat /\ recv_pkts \in Nat /\ sent \in Nat /\ received \in Nat
  /\ configured \subseteq Interfaces

CounterInv ==
  /\ sent_pkts + Uncounted(1) + Uncounted(2) <= sent
  /\ recv_pkts + Unadded(1) + Unadded(2) <= received
  /\ \A t \in Threads : pc[t] = "counting" => reg[t] + Uncounted(1) + Uncounted(2) <= sent
  /\ \A t \in Threads : pc[t] = "adding" => reg[t] + Unadded(1) + Unadded(2) <= received

\* As long as the first thread is the only one no counter is behind, but for what it
\* has not counted yet, and it never writes back a stale value.
AloneInv ==
  pc[2] = "off" => /\ sent_pkts = (sent - Uncounted(1)) % UINT32
                   /\ recv_pkts = (received - Unadded(1)) % UINT32
                   /\ pc[1] = "counting" => reg[1] = sent_pkts
                   /\ pc[1] = "adding" => reg[1] = recv_pkts

\* How far main has got, and what the threads it has started work on.
MainInv ==
  /\ mpc \in {"s", "d", "open", "exit", "first"} => pc[1] = "off" /\ pc[2] = "off"
  /\ mpc \in {"first", "second"} => {src_interface, dst_interface} \subseteq configured
  /\ mpc = "second" => /\ pc[2] = "off"
                       /\ src_interface # dst_interface
                       /\ config[1].src = src_interface /\ config[1].dst = dst_interface
  /\ QueuesExclusive

ForwarderIInv == TypeInv /\ CounterInv /\ AloneInv /\ MainInv

LEMMA ForwarderInit == FInit => ForwarderIInv
BY ForwarderAssumption
   DEF FInit, ForwarderIInv, TypeInv, CounterInv, AloneInv, MainInv, QueuesExclusive, Phases, Threads, NoConfig, Uncounted, Unadded

\* A step of a thread leaves main and its configuration alone and no thread off.
LEMMA ThreadKeepsMain ==
  ASSUME ForwarderIInv, NEW t \in Threads, run_thread(t)
  PROVE  MainInv'
<1>1. pc[t] # "off" /\ UNCHANGED main /\ \A u \in Threads : pc'[u] = "off" <=> pc[u] = "off"
  BY Zenon DEF run_thread, Receive, Transmit, ReadSent, WriteSent, ReadRecv, WriteRecv, ForwarderIInv, TypeInv, Phases
<1>. QED BY <1>1, Zenon DEF ForwarderIInv, MainInv, QueuesExclusive, main, globals, Threads

LEMMA ThreadKeepsCounters ==
  ASSUME ForwarderIInv, NEW t \in Threads, run_thread(t)
  PROVE  TypeInv' /\ CounterInv'
<1> USE DEF ForwarderIInv, TypeInv, Threads, main, globals, counters, totals, nic
<1>1. CASE Receive(t)
  <2> DEFINE n == Least(waiting[config[t].src], BURST)
  <2>1. pc[t] = "poll" /\ config[t].src \in Interfaces
    BY <1>1, Zenon DEF Receive, MainInv, QueuesExclusive
  <2>2. n \in Nat /\ n <= waiting[config[t].src] /\ waiting[config[t].src] \in Nat
    <3>1. waiting \in [Interfaces -> Nat]
      BY Zenon DEF ForwarderIInv, TypeInv
    <3>2. waiting[config[t].src] \in Nat
      BY <2>1, <3>1, Zenon
    <3>3. BURST \in Nat
      BY ForwarderAssumption
    <3>. QED BY <3>2, <3>3 DEF Least
  <2>3. /\ waiting' = [waiting EXCEPT ![config[t].src] = @ - n]
        /\ rx' = [rx EXCEPT ![t] = n] /\ i' = [i EXCEPT ![t] = 0]
        /\ received' = received + n /\ pc' = [pc EXCEPT ![t] = IF n > 0 THEN "send" ELSE "burst"]
        /\ UNCHANGED <<main, reg, counters, sent>>
    BY <1>1, Zenon DEF Receive
  <2> HIDE DEF n
  <2>4. TypeInv'
    BY <2>1, <2>2, <2>3 DEF Phases
  <2>5. CounterInv'
    BY <2>1, <2>2, <2>3 DEF CounterInv, Uncounted, Unadded
  <2>. QED BY <2>4, <2>5, Zenon
<1>2. CASE Transmit(t)
  <2>1. TypeInv'
    BY <1>2 DEF Transmit, Phases
  <2>2. CounterInv'
    BY <1>2 DEF Transmit, CounterInv, Uncounted, Unadded
  <2>. QED BY <2>1, <2>2, Zenon
<1>3. CASE ReadSent(t)
  <2>1. TypeInv'
    BY <1>3, Zenon DEF ReadSent, Phases
  <2>2. CounterInv'
    BY <1>3 DEF ReadSent, CounterInv, Uncounted, Unadded
  <2>. QED BY <2>1, <2>2, Zenon
<1>4. CASE WriteSent(t)
  <2>0. sent_pkts' \in Nat /\ sent_pkts' <= reg[t] + 1
    <3>1. reg[t] + 1 \in Nat /\ UINT32 \in Nat \ {0}
      BY ForwarderAssumption
    <3>. QED BY <1>4, <3>1, AddMod, Zenon DEF WriteSent
  <2>1. TypeInv'
    BY <1>4, <2>0 DEF WriteSent, Phases
  <2>2. CounterInv'
    <3>1. PICK next \in {"send", "burst"} :
            pc[t] = "counting" /\ pc' = [pc EXCEPT ![t] = next] /\ UNCHANGED <<rx, reg, recv_pkts, totals>>
      BY <1>4, Zenon DEF WriteSent
    <3>2. \A u \in Threads : Unadded(u)' = Unadded(u)
      BY <3>1, Zenon DEF Unadded
    <3>3. Uncounted(t) = 1 /\ Uncounted(t)' = 0 /\ \A u \in Threads : u # t => Uncounted(u)' = Uncounted(u)
      BY <3>1, Zenon DEF Uncounted
    <3>4. \A u \in Threads : pc'[u] \in {"counting", "adding"} => u # t /\ pc'[u] = pc[u]
      BY <3>1, Zenon
    <3>5. \A u \in Threads : Uncounted(u) \in Nat
      BY Zenon, SMT DEF Uncounted
    <3>6. /\ sent_pkts' + Uncounted(1)' + Uncounted(2)' <= sent'
          /\ \A u \in Threads : pc'[u] = "counting" => reg'[u] + Uncounted(1)' + Uncounted(2)' <= sent'
      BY <2>0, <3>1, <3>3, <3>4, <3>5 DEF CounterInv
    <3>7. /\ recv_pkts' + Unadded(1)' + Unadded(2)' <= received'
          /\ \A u \in Threads : pc'[u] = "adding" => reg'[u] + Unadded(1)' + Unadded(2)' <= received'
      BY <3>1, <3>2, <3>4, Zenon DEF CounterInv
    <3>. QED BY <3>6, <3>7, Zenon DEF CounterInv
  <2>. QED BY <2>1, <2>2, Zenon
<1>5. CASE ReadRecv(t)
  <2>1. TypeInv'
    BY <1>5, ZenonT(40) DEF ReadRecv, Phases
  <2>2. CounterInv'
    BY <1>5 DEF ReadRecv, CounterInv, Uncounted, Unadded
  <2>. QED BY <2>1, <2>2, Zenon
<1>6. CASE WriteRecv(t)
  <2>0. recv_pkts' \in Nat /\ recv_pkts' <= reg[t] + rx[t]
    <3>1. reg[t] + rx[t] \in Nat /\ UINT32 \in Nat \ {0}
      BY ForwarderAssumption
    <3>. QED BY <1>6, <3>1, AddMod, Zenon DEF WriteRecv, Gain
  <2>1. TypeInv'
    BY <1>6, <2>0 DEF WriteRecv, Phases
  <2>2. CounterInv'
    <3>1. /\ pc[t] = "adding" /\ pc' = [pc EXCEPT ![t] = "poll"]
          /\ UNCHANGED <<rx, reg, sent_pkts, totals>>
      BY <1>6, Zenon DEF WriteRecv
    <3>. QED BY <2>0, <3>1 DEF CounterInv, Uncounted, Unadded
  <2>. QED BY <2>1, <2>2, Zenon
<1>. QED BY <1>1, <1>2, <1>3, <1>4, <1>5, <1>6, Zenon DEF run_thread

\* The counters a thread writes back after it has read them undisturbed.
LEMMA ThreadKeepsAlone ==
  ASSUME ForwarderIInv, NEW t \in Threads, run_thread(t)
  PROVE  AloneInv'
<1> SUFFICES ASSUME pc'[2] = "off"
             PROVE  /\ sent_pkts' = (sent' - Uncounted(1)') % UINT32
                    /\ recv_pkts' = (received' - Unadded(1)') % UINT32
                    /\ pc'[1] = "counting" => reg'[1] = sent_pkts'
                    /\ pc'[1] = "adding" => reg'[1] = recv_pkts'
  BY Zenon DEF AloneInv
<1>1. t = 1 /\ pc[2] = "off"
  <2>1. pc[t] # "off" /\ \A u \in Threads : pc'[u] = "off" <=> pc[u] = "off"
    BY Zenon DEF run_thread, Receive, Transmit, ReadSent, WriteSent, ReadRecv, WriteRecv, ForwarderIInv, TypeInv, Phases
  <2>. QED BY <2>1, Zenon DEF Threads
<1>2. /\ pc \in [Threads -> Phases] /\ rx \in [Threads -> Nat] /\ reg \in [Threads -> Nat]
      /\ sent \in Nat /\ received \in Nat /\ sent_pkts \in Nat /\ recv_pkts \in Nat
      /\ UINT32 \in Nat \ {0} /\ 1 \in Threads
  BY ForwarderAssumption, Zenon DEF ForwarderIInv, TypeInv, Threads
<1>3. /\ sent_pkts = (sent - Uncounted(1)) % UINT32
      /\ recv_pkts = (received - Unadded(1)) % UINT32
      /\ pc[1] = "counting" => reg[1] = sent_pkts
      /\ pc[1] = "adding" => reg[1] = recv_pkts
  BY <1>1, Zenon DEF ForwarderIInv, AloneInv
<1>4. CASE Receive(1)
  <2>1. PICK n : /\ rx' = [rx EXCEPT ![1] = n] /\ received' = received + n
                 /\ pc[1] = "poll" /\ pc' = [pc EXCEPT ![1] = IF n > 0 THEN "send" ELSE "burst"]
                 /\ n = Least(waiting[config[1].src], BURST)
    BY <1>4, Zenon DEF Receive
  <2>2. n \in Nat
    <3>1. config[1].src \in Interfaces
      BY <1>2, <2>1, Zenon DEF ForwarderIInv, MainInv, QueuesExclusive, TypeInv
    <3>2. waiting[config[1].src] \in Nat /\ BURST \in Nat
      BY <3>1, ForwarderAssumption, Zenon DEF ForwarderIInv, TypeInv
    <3>. QED BY <2>1, <3>2 DEF Least
  <2>3. UNCHANGED <<sent, sent_pkts, recv_pkts, reg>>
    BY <1>4, Zenon DEF Receive, counters
  <2>4. pc'[1] \in {"send", "burst"} /\ rx'[1] = n
    BY <1>2, <2>1, Zenon
  <2>5. Uncounted(1)' = 0 /\ Unadded(1)' = n /\ Uncounted(1) = 0 /\ Unadded(1) = 0
    BY <2>1, <2>4, Zenon DEF Uncounted, Unadded
  <2>6. received' - Unadded(1)' = received - Unadded(1)
    BY <1>2, <2>1, <2>2, <2>5
  <2>. QED BY <1>3, <2>3, <2>4, <2>5, <2>6, Zenon
<1>5. CASE Transmit(1)
  <2>1. /\ pc[1] = "send" /\ pc'[1] = "sent" /\ sent' = sent + 1
        /\ UNCHANGED <<rx, reg, sent_pkts, recv_pkts, received>>
    BY <1>2, <1>5, Zenon DEF Transmit, counters
  <2>2. Uncounted(1)' = 1 /\ Unadded(1)' = Unadded(1) /\ Uncounted(1) = 0
    BY <2>1, Zenon DEF Uncounted, Unadded
  <2>3. sent' - Uncounted(1)' = sent - Uncounted(1)
    BY <1>2, <2>1, <2>2
  <2>. QED BY <1>3, <2>1, <2>2, <2>3, Zenon
<1>6. CASE ReadSent(1)
  <2>1. /\ pc[1] = "sent" /\ pc'[1] = "counting" /\ reg'[1] = sent_pkts
        /\ UNCHANGED <<rx, sent_pkts, recv_pkts, received, sent>>
    BY <1>2, <1>6, Zenon DEF ReadSent, counters, totals
  <2>2. Uncounted(1)' = Uncounted(1) /\ Unadded(1)' = Unadded(1)
    BY <2>1, Zenon DEF Uncounted, Unadded
  <2>. QED BY <1>3, <2>1, <2>2, Zenon
<1>7. CASE WriteSent(1)
  <2>1. /\ pc[1] = "counting" /\ pc'[1] \in {"send", "burst"} /\ sent_pkts' = (sent_pkts + 1) % UINT32
        /\ UNCHANGED <<rx, reg, recv_pkts, received, sent>>
    BY <1>2, <1>3, <1>7, Zenon DEF WriteSent, totals
  <2>2. Uncounted(1)' = 0 /\ Uncounted(1) = 1 /\ Unadded(1)' = Unadded(1)
    BY <2>1, Zenon DEF Uncounted, Unadded
  <2>3. sent_pkts + Uncounted(1) + Uncounted(2) <= sent /\ Uncounted(2) = 0
    BY <1>1, Zenon DEF ForwarderIInv, CounterInv, Uncounted
  <2>4. PICK x \in Nat : x = sent - 1 /\ sent = x + 1 /\ sent' - Uncounted(1)' = x + 1
    BY <1>2, <2>1, <2>2, <2>3
  <2>5. sent_pkts = x % UINT32
    BY <1>3, <2>2, <2>4, Zenon
  <2>6. ((x % UINT32) + 1) % UINT32 = (x + 1) % UINT32
    <3>1. 1 \in Nat
      OBVIOUS
    <3>. QED BY <1>2, <3>1, AddMod, Zenon
  <2>7. sent_pkts' = (sent' - Uncounted(1)') % UINT32
    BY <2>1, <2>4, <2>5, <2>6, Zenon
  <2>. QED BY <1>3, <2>1, <2>2, <2>7, Zenon
<1>8. CASE ReadRecv(1)
  <2>1. /\ pc[1] = "burst" /\ pc'[1] = "adding" /\ reg'[1] = recv_pkts
        /\ UNCHANGED <<rx, sent_pkts, recv_pkts, received, sent>>
    BY <1>2, <1>8, Zenon DEF ReadRecv, counters, totals
  <2>2. Uncounted(1)' = Uncounted(1) /\ Unadded(1)' = Unadded(1)
    BY <2>1, Zenon DEF Uncounted, Unadded
  <2>. QED BY <1>3, <2>1, <2>2, Zenon
<1>9. CASE WriteRecv(1)
  <2>1. /\ pc[1] = "adding" /\ pc'[1] = "poll" /\ recv_pkts' = (recv_pkts + rx[1]) % UINT32
        /\ UNCHANGED <<rx, reg, sent_pkts, received, sent>>
    BY <1>2, <1>3, <1>9, Zenon DEF WriteRecv, Gain, totals
  <2>2. Unadded(1)' = 0 /\ Unadded(1) = rx[1] /\ Uncounted(1)' = Uncounted(1) /\ rx[1] \in Nat
    BY <1>2, <2>1, Zenon DEF Uncounted, Unadded
  <2>3. recv_pkts + Unadded(1) + Unadded(2) <= received /\ Unadded(2) = 0
    BY <1>1, Zenon DEF ForwarderIInv, CounterInv, Unadded
  <2>4. PICK x \in Nat : x = received - rx[1] /\ received' - Unadded(1)' = x + rx[1]
    BY <1>2, <2>1, <2>2, <2>3
  <2>5. recv_pkts = x % UINT32
    BY <1>3, <2>2, <2>4, Zenon
  <2>6. ((x % UINT32) + rx[1]) % UINT32 = (x + rx[1]) % UINT32
    BY <1>2, <2>2, AddMod, Zenon
  <2>7. recv_pkts' = (received' - Unadded(1)') % UINT32
    BY <2>1, <2>4, <2>5, <2>6, Zenon
  <2>. QED BY <1>3, <2>1, <2>2, <2>7, Zenon
<1>. QED BY <1>1, <1>4, <1>5, <1>6, <1>7, <1>8, <1>9, Zenon DEF run_thread

LEMMA MainKeepsInv ==
  ASSUME ForwarderIInv, Main
  PROVE  ForwarderIInv'
<1> USE DEF ForwarderIInv, TypeInv, MainInv, QueuesExclusive, Threads, threads, counters, totals, nic, globals
<1>1. CASE OptionS
  BY <1>1, Zenon DEF OptionS, CounterInv, AloneInv, Uncounted, Unadded
<1>2. CASE OptionD
  BY <1>2, Zenon DEF OptionD, CounterInv, AloneInv, Uncounted, Unadded
<1>3. CASE OpenQueues
  <2>1. TypeInv' /\ CounterInv' /\ AloneInv'
    BY <1>3, Zenon DEF OpenQueues, CounterInv, AloneInv, Uncounted, Unadded
  <2>2. MainInv'
    BY <1>3, Zenon DEF OpenQueues
  <2>. QED BY <2>1, <2>2, Zenon
<1>4. CASE StartFirst
  <2>1. TypeInv'
    BY <1>4, Zenon DEF StartFirst, start_thread, Phases
  <2>2. CounterInv' /\ AloneInv'
    BY <1>4, Zenon DEF StartFirst, start_thread, CounterInv, AloneInv, Uncounted, Unadded
  <2>3. MainInv'
    BY <1>4 DEF StartFirst, start_thread
  <2>. QED BY <2>1, <2>2, <2>3, Zenon
<1>5. CASE StartSecond
  <2>1. TypeInv'
    BY <1>5, Zenon DEF StartSecond, start_thread, Phases
  <2>2. CounterInv' /\ AloneInv'
    BY <1>5, ZenonT(40) DEF StartSecond, start_thread, CounterInv, AloneInv, Uncounted, Unadded
  <2>3. MainInv'
    BY <1>5 DEF StartSecond, start_thread
  <2>. QED BY <2>1, <2>2, <2>3, Zenon
<1>. QED BY <1>1, <1>2, <1>3, <1>4, <1>5, Zenon DEF Main

LEMMA NetworkKeepsInv ==
  ASSUME ForwarderIInv, NEW p \in Interfaces, Arrive(p) \/ Depart(p)
  PROVE  ForwarderIInv'
BY DEF ForwarderIInv, TypeInv, CounterInv, AloneInv, MainInv, QueuesExclusive, Uncounted, Unadded, Arrive, Depart, main,
       globals, threads, counters, totals

LEMMA ForwarderInductive == FSpec => []ForwarderIInv
<1>1. ForwarderIInv /\ [FNext]_fvars => ForwarderIInv'
  <2> SUFFICES ASSUME ForwarderIInv, [FNext]_fvars PROVE ForwarderIInv'
    OBVIOUS
  <2>1. CASE Main
    BY <2>1, MainKeepsInv
  <2>2. ASSUME NEW t \in Threads, run_thread(t) PROVE ForwarderIInv'
    BY <2>2, ThreadKeepsMain, ThreadKeepsCounters, ThreadKeepsAlone, Zenon DEF ForwarderIInv
  <2>3. ASSUME NEW p \in Interfaces, Arrive(p) \/ Depart(p) PROVE ForwarderIInv'
    BY <2>3, NetworkKeepsInv
  <2>4. CASE UNCHANGED fvars
    BY <2>4, Zenon DEF fvars, main, globals, counters, nic, totals, ForwarderIInv, TypeInv, CounterInv, AloneInv,
                MainInv, QueuesExclusive, Uncounted, Unadded
  <2>. QED BY <2>1, <2>2, <2>3, <2>4, Zenon DEF FNext
<1>. QED BY <1>1, ForwarderInit, PTL DEF FSpec

\* The threads never share a receive or a transmit queue, whatever the options.
THEOREM QueuesNeverShared == FSpec => []QueuesExclusive
BY ForwarderInductive, PTL DEF ForwarderIInv, MainInv

\* Lost updates only lose: the statistics never exceed what happened.
LEMMA CountersNeverAhead == FSpec => []NeverOvercounts
<1>1. ForwarderIInv => NeverOvercounts
  BY DEF ForwarderIInv, TypeInv, CounterInv, NeverOvercounts, Uncounted, Unadded, Threads
<1>. QED BY <1>1, ForwarderInductive, PTL

\* One thread alone loses nothing: its statistics are exact each time it polls.
LEMMA CountersExactAlone == FSpec => []ExactAlone
<1>1. ForwarderIInv => ExactAlone
  <2> SUFFICES ASSUME ForwarderIInv, pc[1] = "poll", pc[2] = "off"
               PROVE  recv_pkts = received % UINT32 /\ sent_pkts = sent % UINT32
    BY Zenon DEF ExactAlone
  <2>1. Uncounted(1) = 0 /\ Unadded(1) = 0
    BY Zenon DEF Uncounted, Unadded
  <2>2. sent - 0 = sent /\ received - 0 = received
    BY DEF ForwarderIInv, TypeInv
  <2>. QED BY <2>1, <2>2, Zenon DEF ForwarderIInv, AloneInv
<1>. QED BY <1>1, ForwarderInductive, PTL

\* The statistics go wrong by lost updates of two threads only, and then too low.
THEOREM CountersLoseOnly == FSpec => []OnlyInterleavingLoses
BY CountersNeverAhead, CountersExactAlone, PTL DEF OnlyInterleavingLoses
-----------------------------------------------------------------------------
(***************************************************************************)
(* The pointer list.                                                       *)
(***************************************************************************)
Cell == Values \cup {Garbage}

\* TypeOK, with _list a sequence of cells, and ExitsExplained.
ListInv ==
  /\ len \in 0 .. MaxLen
  /\ cap \in 0 .. UINT - 1
  /\ list = NULL \/ list \in Seq(Cell)
  /\ status = "ok" => len <= cap /\ cap = Len(Cells) /\ \A q \in 1 .. len : Cells[q] \in Values
  /\ result \in Values \cup {NULL}
  /\ denied \in BOOLEAN
  /\ status \in {"ok", "exit_alloc", "exit_grow"}
  /\ ExitsExplained

\* The sequence s is the first n cells.
Is(s, n, cells) == s \in Seq(Values) /\ Len(s) = n /\ \A q \in 1 .. n : s[q] = cells[q]

LEMMA SameSeq ==
  ASSUME NEW s, NEW t, NEW n, NEW cells, Is(s, n, cells), Is(t, n, cells)
  PROVE  s = t
<1>1. s = [q \in 1 .. n |-> s[q]] /\ t = [q \in 1 .. n |-> t[q]]
  BY DEF Is
<1>2. \A q \in 1 .. n : s[q] = t[q]
  BY Zenon DEF Is
<1>. QED BY <1>1, <1>2, Zenon

LEMMA SubSeqIs ==
  ASSUME NEW cells \in Seq(Cell), NEW n \in 0 .. Len(cells), \A q \in 1 .. n : cells[q] \in Values
  PROVE  Is(SubSeq(cells, 1, n), n, cells)
<1>1. PICK s : s = SubSeq(cells, 1, n)
  BY Zenon
<1>2. s \in Seq(Cell) /\ Len(s) = n /\ \A q \in 1 .. n : s[q] = cells[q]
  BY <1>1
<1>3. s \in Seq(Values)
  BY <1>2
<1>. QED BY <1>1, <1>2, <1>3, Zenon DEF Is

LEMMA CellsAre ==
  ASSUME ListInv
  PROVE  /\ Cells \in Seq(Cell) /\ len \in Nat /\ cap \in Nat
         /\ status = "ok" => Len(Cells) = cap /\ DOMAIN Cells = 1 .. cap /\ Is(Elements, len, Cells)
<1>1. Cells \in Seq(Cell)
  BY DEF ListInv, Cells
<1>2. len \in Nat /\ cap \in Nat
  BY PointerListAssumption DEF ListInv
<1>3. ASSUME status = "ok" PROVE Len(Cells) = cap /\ DOMAIN Cells = 1 .. cap /\ Is(Elements, len, Cells)
  BY <1>1, <1>2, <1>3, SubSeqIs DEF ListInv, Elements
<1>. QED BY <1>1, <1>2, <1>3

\* What a call that returns leaves, and one that exits.
LEMMA LeavesInv ==
  ASSUME ListInv, status = "ok", NEW cells \in Seq(Cell), NEW n \in 0 .. MaxLen, NEW x \in Values \cup {NULL},
         n <= Len(cells), \A q \in 1 .. n : cells[q] \in Values, Len(cells) \in 0 .. UINT - 1,
         Leaves(cells, n, x), cap' = Len(cells), UNCHANGED <<denied, status>>
  PROVE  ListInv' /\ Is(Elements', n, cells)
<1>1. Cells' = cells
  BY PointerListAssumption, Zenon DEF Leaves, Cells, Cell
<1>2. ListInv'
  BY <1>1, Zenon DEF ListInv, Leaves, ExitsExplained
<1>3. status' = "ok" /\ len' = n
  BY Zenon DEF Leaves
<1>4. n \in 0 .. Len(cells)
  BY PointerListAssumption
<1>5. Is(SubSeq(cells, 1, n), n, cells)
  BY <1>4, SubSeqIs, Zenon
<1>. QED BY <1>1, <1>2, <1>3, <1>5, Zenon DEF Elements, Leaves

\* The effect a caller of the list sees: the elements are s and the result x, or
\* the process has ended.
Seen(s, x) ==
  \/ Elements' = s /\ result' = x /\ status' = "ok"
  \/ UNCHANGED <<Elements, result>> /\ status' # "ok"

LEMMA SmallMod == ASSUME NEW x \in 0 .. UINT - 1 PROVE x % UINT = x
BY PointerListAssumption

LEMMA ExpandedIs ==
  ASSUME NEW c \in 0 .. UINT - 1
  PROVE  /\ ExpandedCap(c) \in 0 .. UINT - 1
         /\ ExpandedCap(c) <= c => c + c \div 2 + 1 >= UINT
<1>1. PICK h \in Nat : h = c + c \div 2 + 1 /\ h > c
  BY PointerListAssumption
<1>2. h % UINT \in 0 .. UINT - 1
  BY PointerListAssumption
<1>3. h < UINT => h % UINT = h
  BY <1>1, SmallMod, PointerListAssumption
<1>. QED BY <1>1, <1>2, <1>3, PointerListAssumption DEF ExpandedCap

LEMMA ContractedIs ==
  ASSUME NEW c \in Nat
  PROVE  ContractedCap(c) \in 0 .. c /\ (ContractedCap(c) = 0 => c \in {0, 1})
BY DEF ContractedCap

\* The number of cells an append writes to.
NewCap == IF len >= cap THEN ExpandedCap(cap) ELSE cap

LEMMA RoomyIs ==
  ASSUME ListInv, status = "ok", len < NewCap
  PROVE  /\ Roomy \in Seq(Cell) /\ NewCap \in 0 .. UINT - 1 /\ Len(Roomy) = NewCap /\ DOMAIN Roomy = 1 .. NewCap
         /\ \A q \in 1 .. len : Roomy[q] = Cells[q] /\ Roomy[q] \in Values
<1>1. Cells \in Seq(Cell) /\ len \in Nat /\ cap \in Nat /\ Len(Cells) = cap /\ DOMAIN Cells = 1 .. cap
  BY CellsAre
<1>2. len <= cap /\ cap \in 0 .. UINT - 1 /\ \A q \in 1 .. len : Cells[q] \in Values
  BY Zenon DEF ListInv
<1>3. CASE len >= cap
  <2>0. ExpandedCap(cap) \in 0 .. UINT - 1
    BY <1>2, ExpandedIs, Zenon
  <2>1. PICK e \in Nat : e = ExpandedCap(cap) /\ e \in 0 .. UINT - 1 /\ e = NewCap /\ len < e
    BY <1>3, <2>0, PointerListAssumption DEF NewCap
  <2>2. Roomy = [q \in 1 .. e |-> IF q <= cap THEN Cells[q] ELSE Garbage]
    BY <1>1, <1>3, <2>1, Zenon DEF Roomy, Resized
  <2>3. \A q \in 1 .. e : (IF q <= cap THEN Cells[q] ELSE Garbage) \in Cell
    BY <1>1 DEF Cell
  <2>4. Roomy \in [1 .. e -> Cell]
    BY <2>2, <2>3
  <2>5. Roomy \in Seq(Cell) /\ Len(Roomy) = e /\ DOMAIN Roomy = 1 .. e
    BY <2>1, <2>4
  <2>6. \A q \in 1 .. len : Roomy[q] = Cells[q]
    BY <1>1, <1>2, <2>1, <2>2
  <2>. QED BY <1>2, <2>1, <2>5, <2>6, Zenon
<1>4. CASE ~(len >= cap)
  BY <1>1, <1>2, <1>4, Zenon DEF Roomy, NewCap
<1>. QED BY <1>3, <1>4, Zenon

LEMMA GrowInv ==
  ASSUME ListInv, status = "ok", len < MaxLen, NEW cells, Grow(cells),
         len < NewCap => /\ cells \in Seq(Cell) /\ Len(cells) = NewCap
                       /\ \A q \in 1 .. len + 1 : cells[q] \in Values
  PROVE  /\ ListInv'
         /\ \/ len < NewCap /\ Is(Elements', len + 1, cells) /\ UNCHANGED <<result, status>>
            \/ UNCHANGED <<Elements, result>> /\ status' # "ok"
<1>1. /\ len \in Nat /\ cap \in Nat /\ len <= cap /\ cap \in 0 .. UINT - 1 /\ len + 1 \in 0 .. MaxLen
      /\ result \in Values \cup {NULL}
  BY CellsAre, PointerListAssumption DEF ListInv
<1>2. ASSUME len < NewCap, Leaves(cells, len + 1, result), cap' = NewCap, UNCHANGED <<denied, status>>
      PROVE  ListInv' /\ len < NewCap /\ Is(Elements', len + 1, cells) /\ UNCHANGED <<result, status>>
  <2>1. Len(cells) \in 0 .. UINT - 1 /\ len + 1 <= Len(cells)
    BY <1>1, <1>2, RoomyIs, PointerListAssumption
  <2>2. ListInv' /\ Is(Elements', len + 1, cells)
    BY <1>1, <1>2, <2>1, LeavesInv, Zenon
  <2>. QED BY <1>2, <2>2, Zenon DEF Leaves
<1>3. ASSUME UNCHANGED <<list, len, cap, result>>, status' = "exit_alloc", denied' = TRUE
      PROVE  ListInv' /\ UNCHANGED <<Elements, result>> /\ status' # "ok"
  BY <1>3, Zenon DEF ListInv, ExitsExplained, Elements, Cells
<1>4. ASSUME UNCHANGED <<list, len, cap, result, denied>>, status' = "exit_grow", ExpandedCap(cap) <= cap
      PROVE  ListInv' /\ UNCHANGED <<Elements, result>> /\ status' # "ok"
  <2>1. cap + cap \div 2 + 1 >= UINT
    BY <1>1, <1>4, ExpandedIs, Zenon
  <2>2. ExitsExplained'
    BY <1>4, <2>1, Zenon DEF ExitsExplained
  <2>. QED BY <1>4, <2>2, Zenon DEF ListInv, Elements, Cells
<1>5. CASE len < cap
  BY <1>1, <1>2, <1>5 DEF Grow, NewCap
<1>6. CASE len >= cap
  <2>1. pointer_list_expand(cells)
    BY <1>1, <1>6 DEF Grow
  <2>2. CASE ExpandedCap(cap) <= cap /\ status' = "exit_grow" /\ UNCHANGED <<list, len, cap, result, denied>>
    BY <1>4, <2>2, Zenon
  <2>3. CASE ExpandedCap(cap) > cap /\ pointer_list_realloc(ExpandedCap(cap), cells, len + 1, result)
    <3>1. PICK e \in Nat : e = ExpandedCap(cap) /\ e > cap /\ e > 0 /\ e = NewCap /\ len < NewCap
      BY <1>1, <1>6, <2>3, ExpandedIs, PointerListAssumption DEF NewCap
    <3>. QED BY <1>2, <1>3, <2>3, <3>1, Zenon DEF pointer_list_realloc
  <2>. QED BY <2>1, <2>2, <2>3, Zenon DEF pointer_list_expand
<1>. QED BY <1>1, <1>5, <1>6

LEMMA AppendSeen ==
  ASSUME ListInv, NEW v \in Values, pointer_list_append(v)
  PROVE  ListInv' /\ status = "ok" /\ Seen(Append(Elements, v), result)
<1>1. status = "ok" /\ len < MaxLen /\ Grow([Roomy EXCEPT ![len + 1] = v])
  BY DEF pointer_list_append
<1>2. PICK cells : cells = [Roomy EXCEPT ![len + 1] = v]
  BY Zenon
<1>3. len \in Nat /\ Is(Elements, len, Cells)
  BY <1>1, CellsAre, Zenon
<1>4. ASSUME len < NewCap
      PROVE  /\ cells \in Seq(Cell) /\ Len(cells) = NewCap
             /\ (\A q \in 1 .. len : cells[q] = Cells[q]) /\ cells[len + 1] = v
             /\ \A q \in 1 .. len + 1 : cells[q] \in Values
  <2>1. PICK r \in Nat : /\ r = NewCap /\ len < r
                         /\ Roomy \in Seq(Cell) /\ Len(Roomy) = r /\ DOMAIN Roomy = 1 .. r
                         /\ \A q \in 1 .. len : Roomy[q] = Cells[q] /\ Roomy[q] \in Values
    BY <1>1, <1>4, RoomyIs, PointerListAssumption
  <2>2. len + 1 \in 1 .. r /\ v \in Cell
    BY <1>3, <2>1 DEF Cell
  <2>3. cells \in Seq(Cell) /\ Len(cells) = r
    BY <1>2, <2>1, <2>2
  <2>4. (\A q \in 1 .. len : cells[q] = Cells[q] /\ cells[q] \in Values) /\ cells[len + 1] = v
    BY <1>2, <1>3, <2>1, <2>2
  <2>5. \A q \in 1 .. len + 1 : q \in 1 .. len \/ q = len + 1
    BY <1>3
  <2>. QED BY <2>1, <2>3, <2>4, <2>5, Zenon
<1>5. /\ ListInv'
      /\ \/ len < NewCap /\ Is(Elements', len + 1, cells) /\ UNCHANGED <<result, status>>
         \/ UNCHANGED <<Elements, result>> /\ status' # "ok"
  BY <1>1, <1>2, <1>4, GrowInv, Zenon
<1>6. ASSUME len < NewCap PROVE Is(Append(Elements, v), len + 1, cells)
  <2>1. PICK s : s = Elements /\ s \in Seq(Values) /\ Len(s) = len /\ \A q \in 1 .. len : s[q] = Cells[q]
    BY <1>3 DEF Is
  <2>2. Append(s, v) \in Seq(Values) /\ Len(Append(s, v)) = len + 1
    BY <2>1
  <2>3. \A q \in 1 .. len + 1 : Append(s, v)[q] = IF q = len + 1 THEN v ELSE s[q]
    BY <1>3, <2>1
  <2>4. \A q \in 1 .. len + 1 : q = len + 1 \/ q \in 1 .. len
    BY <1>3
  <2>5. \A q \in 1 .. len + 1 : Append(s, v)[q] = cells[q]
    BY <1>4, <1>6, <2>1, <2>3, <2>4
  <2>. QED BY <2>1, <2>2, <2>5, Zenon DEF Is
<1>. QED BY <1>1, <1>5, <1>6, SameSeq, Zenon DEF Seen

LEMMA ConcatIs ==
  ASSUME NEW M, NEW x \in Seq(M), NEW y \in Seq(M)
  PROVE  /\ x \o y \in Seq(M) /\ Len(x \o y) = Len(x) + Len(y) /\ Len(x) \in Nat /\ Len(y) \in Nat
         /\ \A q \in 1 .. Len(x) + Len(y) : (x \o y)[q] = IF q <= Len(x) THEN x[q] ELSE y[q - Len(x)]
OBVIOUS

\* t is s with v put in before what was at pos, counted from 0.
Inserted(t, s, pos, v) ==
  /\ t \in Seq(Values) /\ Len(t) = Len(s) + 1
  /\ \A q \in 1 .. Len(s) + 1 : t[q] = IF q <= pos THEN s[q] ELSE IF q = pos + 1 THEN v ELSE s[q - 1]

LEMMA InsertAtIs ==
  ASSUME NEW s \in Seq(Values), NEW pos \in 0 .. Len(s), NEW v \in Values
  PROVE  Inserted(S!InsertAt(s, pos + 1, v), s, pos, v)
<1>1. PICK n \in Nat : n = Len(s) /\ DOMAIN s = 1 .. n
  OBVIOUS
<1>2. PICK x : x = SubSeq(s, 1, pos)
  BY Zenon
<1>3. x \in Seq(Values) /\ Len(x) = pos /\ \A q \in 1 .. pos : x[q] = s[q]
  BY <1>1, <1>2
<1>4. PICK z : z = SubSeq(s, pos + 1, n)
  BY Zenon
<1>5. z \in Seq(Values) /\ Len(z) = n - pos /\ \A q \in 1 .. n - pos : z[q] = s[pos + q]
  BY <1>1, <1>4
<1>6. PICK y : y = x \o <<v>>
  BY Zenon
<1>7. y \in Seq(Values) /\ Len(y) = pos + 1 /\ (\A q \in 1 .. pos : y[q] = s[q]) /\ y[pos + 1] = v
  BY <1>1, <1>3, <1>6
<1>8. PICK w : w = y \o z
  BY Zenon
<1>9. /\ w \in Seq(Values) /\ Len(w) = Len(y) + Len(z)
      /\ \A q \in 1 .. Len(y) + Len(z) : w[q] = IF q <= Len(y) THEN y[q] ELSE z[q - Len(y)]
  BY <1>5, <1>7, <1>8, ConcatIs, ZenonT(40)
<1>10. Len(w) = n + 1 /\ \A q \in 1 .. n + 1 : w[q] = IF q <= pos + 1 THEN y[q] ELSE z[q - (pos + 1)]
  BY <1>1, <1>5, <1>7, <1>9
<1>11. ASSUME NEW q \in 1 .. n + 1 PROVE w[q] = IF q <= pos THEN s[q] ELSE IF q = pos + 1 THEN v ELSE s[q - 1]
  <2>1. CASE q <= pos
    BY <1>1, <1>7, <1>10, <2>1
  <2>2. CASE q = pos + 1
    BY <1>1, <1>7, <1>10, <2>2
  <2>3. CASE q > pos + 1
    <3>1. q - (pos + 1) \in 1 .. n - pos /\ pos + (q - (pos + 1)) = q - 1
      BY <1>1, <2>3
    <3>2. z[q - (pos + 1)] = s[q - 1]
      BY <1>5, <3>1, Zenon
    <3>. QED BY <1>1, <1>10, <2>3, <3>2
  <2>. QED BY <1>1, <2>1, <2>2, <2>3
<1>12. (pos + 1) - 1 = pos
  OBVIOUS
<1>13. S!InsertAt(s, pos + 1, v) = w
  BY <1>1, <1>2, <1>4, <1>6, <1>8, <1>12, Zenon DEF S!InsertAt
<1>. QED BY <1>1, <1>9, <1>10, <1>11, <1>13, Zenon DEF Inserted

LEMMA InsertSeen ==
  ASSUME ListInv, NEW v \in Values, NEW pos \in Nat, status = "ok", len < MaxLen, pos <= len,
         Grow(Shifted(Roomy, pos, v))
  PROVE  ListInv' /\ Seen(S!InsertAt(Elements, pos + 1, v), result)
<1>1. status = "ok" /\ len < MaxLen /\ pos <= len /\ Grow(Shifted(Roomy, pos, v))
  BY Zenon
<1>2. PICK cells : cells = Shifted(Roomy, pos, v)
  OBVIOUS
<1>3. len \in Nat /\ pos \in 0 .. len /\ Is(Elements, len, Cells)
  BY <1>1, CellsAre, PointerListAssumption
<1>4. PICK s : s = Elements /\ s \in Seq(Values) /\ Len(s) = len /\ \A q \in 1 .. len : s[q] = Cells[q]
  BY <1>3, Zenon DEF Is
<1>a. PICK t : t = S!InsertAt(s, pos + 1, v) /\ Inserted(t, s, pos, v)
  BY <1>3, <1>4, InsertAtIs, Zenon
<1>5. /\ t = S!InsertAt(s, pos + 1, v) /\ t \in Seq(Values) /\ Len(t) = len + 1
      /\ \A q \in 1 .. len + 1 : t[q] = IF q <= pos THEN s[q] ELSE IF q = pos + 1 THEN v ELSE s[q - 1]
  BY <1>4, <1>a, Zenon DEF Inserted
<1>6. ASSUME len < NewCap
      PROVE  /\ cells \in Seq(Cell) /\ Len(cells) = NewCap
             /\ \A q \in 1 .. len + 1 : cells[q] = t[q]
  <2>1. PICK r \in Nat : /\ r = NewCap /\ len < r
                         /\ Roomy \in Seq(Cell) /\ Len(Roomy) = r /\ DOMAIN Roomy = 1 .. r
                         /\ \A q \in 1 .. len : Roomy[q] = Cells[q] /\ Roomy[q] \in Values
    BY <1>1, <1>6, RoomyIs, PointerListAssumption
  <2>2. cells = [q \in 1 .. r |-> IF q = pos + 1 THEN v
                                  ELSE IF q \in pos + 2 .. len + 1 THEN Roomy[q - 1] ELSE Roomy[q]]
    BY <1>2, <2>1, Zenon DEF Shifted
  <2>3. v \in Cell /\ \A q \in 1 .. r : Roomy[q] \in Cell
    BY <2>1 DEF Cell
  <2>4. \A q \in 1 .. r : q \in pos + 2 .. len + 1 => q - 1 \in 1 .. r
    BY <1>3
  <2>5. \A q \in 1 .. r : cells[q] \in Cell
    BY <2>2, <2>3, <2>4, Zenon
  <2>6. cells \in [1 .. r -> Cell]
    BY <2>2, <2>5, Zenon
  <2>7. ASSUME NEW q \in 1 .. len + 1 PROVE cells[q] = t[q]
    <3>1. q \in 1 .. r
      BY <1>3, <2>1
    <3>2. CASE q <= pos
      <4>1. q \in 1 .. len /\ q # pos + 1 /\ q \notin pos + 2 .. len + 1
        BY <1>3, <3>2
      <4>. QED BY <1>4, <1>5, <2>1, <2>2, <3>1, <3>2, <4>1, ZenonT(40)
    <3>3. CASE q = pos + 1
      <4>1. ~(q <= pos)
        BY <1>3, <3>3
      <4>. QED BY <1>5, <2>2, <3>1, <3>3, <4>1, Zenon
    <3>4. CASE q > pos + 1
      <4>1. q - 1 \in 1 .. len /\ q # pos + 1 /\ q \in pos + 2 .. len + 1 /\ ~(q <= pos)
        BY <1>3, <3>4
      <4>. QED BY <1>4, <1>5, <2>1, <2>2, <3>1, <4>1, Zenon
    <3>. QED BY <1>3, <3>2, <3>3, <3>4
  <2>. QED BY <2>1, <2>6, <2>7
<1>7. \A q \in 1 .. len + 1 : t[q] \in Values
  BY <1>5
<1>8. /\ ListInv'
      /\ \/ len < NewCap /\ Is(Elements', len + 1, cells) /\ UNCHANGED <<result, status>>
         \/ UNCHANGED <<Elements, result>> /\ status' # "ok"
  BY <1>1, <1>2, <1>6, <1>7, GrowInv, Zenon
<1>9. ASSUME len < NewCap PROVE Is(t, len + 1, cells)
  BY <1>5, <1>6, <1>9, Zenon DEF Is
<1>. QED BY <1>1, <1>4, <1>5, <1>8, <1>9, SameSeq, Zenon DEF Seen

\* t is s without its element at index, counted from 0.
Without(t, s, index) ==
  /\ t \in Seq(Values) /\ Len(t) = Len(s) - 1
  /\ \A q \in 1 .. Len(s) - 1 : t[q] = IF q <= index THEN s[q] ELSE s[q + 1]

LEMMA RemoveAtIs ==
  ASSUME NEW s \in Seq(Values), NEW index \in 0 .. Len(s) - 1
  PROVE  Without(S!RemoveAt(s, index + 1), s, index)
<1>1. PICK n \in Nat : n = Len(s) /\ DOMAIN s = 1 .. n /\ index + 1 \in 1 .. n
  OBVIOUS
<1>2. PICK x : x = SubSeq(s, 1, index)
  BY Zenon
<1>3. x \in Seq(Values) /\ Len(x) = index /\ \A q \in 1 .. index : x[q] = s[q]
  BY <1>1, <1>2
<1>4. PICK z : z = SubSeq(s, (index + 1) + 1, n)
  BY Zenon
<1>5. z \in Seq(Values) /\ Len(z) = n - (index + 1) /\ \A q \in 1 .. n - (index + 1) : z[q] = s[(index + 1) + q]
  BY <1>1, <1>4
<1>6. PICK w : w = x \o z
  BY Zenon
<1>7. /\ w \in Seq(Values) /\ Len(w) = Len(x) + Len(z)
      /\ \A q \in 1 .. Len(x) + Len(z) : w[q] = IF q <= Len(x) THEN x[q] ELSE z[q - Len(x)]
  BY <1>3, <1>5, <1>6, ConcatIs, ZenonT(40)
<1>8. Len(w) = n - 1 /\ \A q \in 1 .. n - 1 : w[q] = IF q <= index THEN x[q] ELSE z[q - index]
  BY <1>1, <1>3, <1>5, <1>7
<1>9. ASSUME NEW q \in 1 .. n - 1 PROVE w[q] = IF q <= index THEN s[q] ELSE s[q + 1]
  <2>1. CASE q <= index
    <3>1. q \in 1 .. index
      BY <2>1
    <3>. QED BY <1>3, <1>8, <2>1, <3>1, Zenon
  <2>2. CASE ~(q <= index)
    <3>1. q - index \in 1 .. n - (index + 1) /\ (index + 1) + (q - index) = q + 1
      BY <1>1, <2>2
    <3>2. z[q - index] = s[q + 1]
      BY <1>5, <3>1, Zenon
    <3>. QED BY <1>1, <1>8, <2>2, <3>2, Zenon
  <2>. QED BY <2>1, <2>2, Zenon
<1>10. (index + 1) - 1 = index
  OBVIOUS
<1>11. S!RemoveAt(s, index + 1) = w
  BY <1>1, <1>2, <1>4, <1>6, <1>10, Zenon DEF S!RemoveAt
<1>. QED BY <1>1, <1>7, <1>8, <1>9, <1>11, Zenon DEF Without

\* The exit of a call that found no memory.
LEMMA DeniedInv ==
  ASSUME ListInv, status' = "exit_alloc", denied' \in BOOLEAN, denied' \/ (len = 1 /\ cap = 1),
         UNCHANGED <<list, len, cap, result>>
  PROVE  ListInv' /\ UNCHANGED <<Elements, result>> /\ status' # "ok"
BY Zenon DEF ListInv, ExitsExplained, Elements, Cells

LEMMA RemoveSeen ==
  ASSUME ListInv, status = "ok", NEW index \in Nat, index < len, NEW x \in Values \cup {NULL}, Remove(index, x)
  PROVE  ListInv' /\ Seen(S!RemoveAt(Elements, index + 1), x)
<1>1. PICK n, k \in Nat : /\ n = cap /\ k = len - 1 /\ index <= k /\ k < n /\ len = k + 1 /\ n \in 0 .. UINT - 1
                          /\ k \in 0 .. MaxLen
  BY PointerListAssumption DEF ListInv
<1>2. Cells \in Seq(Cell) /\ Len(Cells) = n /\ DOMAIN Cells = 1 .. n /\ Is(Elements, len, Cells)
  BY <1>1, CellsAre, Zenon
<1>3. PICK s : s = Elements /\ s \in Seq(Values) /\ Len(s) = k + 1 /\ \A q \in 1 .. k + 1 : s[q] = Cells[q]
  BY <1>1, <1>2, ZenonT(40) DEF Is
<1>4. PICK t : t = S!RemoveAt(s, index + 1) /\ Without(t, s, index)
  BY ONLY <1>1, <1>3, RemoveAtIs
<1>5. t \in Seq(Values) /\ Len(t) = k /\ \A q \in 1 .. k : t[q] = IF q <= index THEN s[q] ELSE s[q + 1]
  BY <1>1, <1>3, <1>4, Zenon DEF Without
<1>6. PICK cells : cells = Closed(index)
  OBVIOUS
<1>7. cells = [q \in 1 .. n |-> IF q > index /\ q < k + 1 THEN Cells[q + 1] ELSE Cells[q]]
  BY ONLY <1>1, <1>2, <1>6, Zenon DEF Closed
<1>8. cells \in Seq(Cell) /\ Len(cells) = n /\ DOMAIN cells = 1 .. n
  <2>1. \A q \in 1 .. n : q < k + 1 => q + 1 \in 1 .. n
    BY <1>1
  <2>2. \A q \in 1 .. n : cells[q] \in Cell
    <3>1. \A q \in 1 .. n : Cells[q] \in Cell
      BY <1>2
    <3>. QED BY <1>7, <2>1, <3>1, Zenon
  <2>3. cells \in [1 .. n -> Cell]
    BY <1>7, <2>2, Zenon
  <2>. QED BY <2>3
<1>9. \A q \in 1 .. k : cells[q] = t[q]
  <2>1. SUFFICES ASSUME NEW q \in 1 .. k PROVE cells[q] = t[q]
    OBVIOUS
  <2>2. q \in 1 .. n /\ q \in 1 .. k + 1 /\ q + 1 \in 1 .. k + 1 /\ q < k + 1
    BY <1>1
  <2>3. CASE q <= index
    BY ONLY <1>1, <1>3, <1>5, <1>7, <2>2, <2>3
  <2>4. CASE q > index
    BY <1>1, <1>3, <1>5, <1>7, <2>2, <2>4
  <2>. QED BY <1>1, <2>3, <2>4
<1>10. \A q \in 1 .. k : t[q] \in Values
  BY <1>5
<1>12. ASSUME NEW d \in Seq(Cell), NEW m \in Nat, Len(d) = m, m <= n, k <= m, \A q \in 1 .. k : d[q] = cells[q],
              Leaves(d, k, x), cap' = m, UNCHANGED <<denied, status>>
       PROVE  ListInv' /\ Seen(t, x)
  <2>1. m \in 0 .. UINT - 1 /\ \A q \in 1 .. k : d[q] = t[q] /\ d[q] \in Values
    BY ONLY <1>1, <1>9, <1>10, <1>12, PointerListAssumption
  <2>2. ListInv' /\ Is(Elements', k, d)
    BY <1>1, <1>12, <2>1, LeavesInv, Zenon
  <2>3. Is(t, k, d)
    BY <1>5, <2>1, Zenon DEF Is
  <2>. QED BY <1>12, <2>2, <2>3, SameSeq, Zenon DEF Seen, Leaves
<1>13. CASE ~Shrinks(len - 1)
  <2>1. Leaves(cells, k, x) /\ UNCHANGED <<cap, denied, status>>
    BY <1>1, <1>6, <1>13, ZenonT(40) DEF Remove
  <2>2. ListInv' /\ Seen(t, x)
    BY <1>1, <1>8, <1>12, <2>1
  <2>. QED BY <1>3, <1>4, <2>2, Zenon
<1>14. CASE Shrinks(len - 1)
  <2>1. PICK m \in Nat : m = ContractedCap(cap) /\ k <= m /\ m < n /\ (m = 0 => n \in {0, 1})
    BY <1>1, <1>14, ContractedIs DEF Shrinks
  <2>2. pointer_list_realloc(m, SubSeq(cells, 1, m), k, x)
    BY <1>1, <1>6, <1>14, <2>1, Zenon DEF Remove
  <2>3. PICK d : d = SubSeq(cells, 1, m)
    BY Zenon
  <2>4. d \in Seq(Cell) /\ Len(d) = m /\ m <= n /\ \A q \in 1 .. k : d[q] = cells[q]
    BY <1>1, <1>8, <2>1, <2>3
  <2>5. CASE m > 0 /\ cap' = m /\ Leaves(SubSeq(cells, 1, m), k, x) /\ UNCHANGED <<denied, status>>
    <3>1. ListInv' /\ Seen(t, x)
      BY ONLY <1>12, <2>1, <2>3, <2>4, <2>5, ZenonT(40)
    <3>. QED BY <1>3, <1>4, <3>1, Zenon
  <2>6. CASE status' = "exit_alloc" /\ denied' = (denied \/ m > 0) /\ UNCHANGED <<list, len, cap, result>>
    <3>1. m > 0 \/ (len = 1 /\ cap = 1)
      BY ONLY <1>1, <2>1
    <3>2. denied' \in BOOLEAN /\ (denied' \/ (len = 1 /\ cap = 1))
      BY <2>6, <3>1, Zenon DEF ListInv
    <3>3. ListInv' /\ UNCHANGED <<Elements, result>> /\ status' # "ok"
      BY <2>6, <3>2, DeniedInv, Zenon
    <3>. QED BY <1>3, <3>3, ZenonT(40) DEF Seen
  <2>. QED BY <2>2, <2>5, <2>6, Zenon DEF pointer_list_realloc
<1>. QED BY <1>13, <1>14, Zenon

LEMMA SetSeen ==
  ASSUME ListInv, NEW index \in Nat, index < len, NEW v \in Values, pointer_list_set(index, v)
  PROVE  ListInv' /\ Seen([Elements EXCEPT ![index + 1] = v], result)
<1>1. /\ status = "ok" /\ index < len /\ list' = [list EXCEPT ![index + 1] = v]
      /\ UNCHANGED <<len, cap, result, denied, status>>
  BY CellsAre DEF pointer_list_set
<1>2. /\ Cells \in Seq(Cell) /\ len \in Nat /\ cap \in Nat /\ Len(Cells) = cap /\ DOMAIN Cells = 1 .. cap
      /\ Is(Elements, len, Cells)
  BY <1>1, CellsAre, Zenon
<1>3. len <= cap /\ cap \in 0 .. UINT - 1 /\ len \in 0 .. MaxLen /\ result \in Values \cup {NULL}
  BY <1>1, ZenonT(40) DEF ListInv
<1>4. index + 1 \in 1 .. len /\ index + 1 \in 1 .. cap
  BY <1>1, <1>2, <1>3
<1>5. list # NULL /\ Cells = list
  <2>1. SUFFICES ASSUME list = NULL PROVE FALSE
    BY DEF Cells
  <2>2. Cells = <<>>
    BY <2>1 DEF Cells
  <2>. QED BY <1>2, <1>4, <2>2
<1>6. PICK c : c = [Cells EXCEPT ![index + 1] = v]
  BY Zenon
<1>7. c \in Seq(Cell) /\ Len(c) = cap /\ c[index + 1] = v /\ \A q \in 1 .. cap : q # index + 1 => c[q] = Cells[q]
  BY <1>2, <1>4, <1>6 DEF Cell
<1>8. PICK s : s = Elements /\ s \in Seq(Values) /\ Len(s) = len /\ DOMAIN s = 1 .. len
               /\ \A q \in 1 .. len : s[q] = Cells[q]
  BY <1>2 DEF Is
<1>9. PICK t : t = [s EXCEPT ![index + 1] = v]
  BY Zenon
<1>10. t \in Seq(Values) /\ Len(t) = len /\ t[index + 1] = v /\ \A q \in 1 .. len : q # index + 1 => t[q] = s[q]
  BY <1>4, <1>8, <1>9
<1>11. \A q \in 1 .. len : q \in 1 .. cap
  BY <1>2, <1>3
<1>12. Is(t, len, c)
  BY <1>4, <1>7, <1>8, <1>10, <1>11, ZenonT(40) DEF Is
<1>13. \A q \in 1 .. len : c[q] \in Values
  BY ONLY <1>10, <1>12 DEF Is
<1>14. Leaves(c, len, result)
  BY <1>1, <1>5, <1>6 DEF Leaves
<1>15. ListInv' /\ Is(Elements', len, c)
  BY <1>1, <1>3, <1>7, <1>13, <1>14, LeavesInv, Zenon
<1>16. Elements' = t
  BY <1>12, <1>15, SameSeq
<1>. QED BY <1>1, <1>4, <1>8, <1>9, <1>15, <1>16, Zenon DEF Seen

LEMMA NullIsEmpty ==
  ASSUME ListInv, status = "ok", list = NULL
  PROVE  len = 0 /\ cap = 0
<1>1. Len(Cells) = 0
  BY DEF Cells
<1>. QED BY <1>1, CellsAre DEF ListInv

LEMMA ClearSeen ==
  ASSUME ListInv, pointer_list_clear
  PROVE  ListInv' /\ status = "ok" /\ Seen(<<>>, result)
<1>0. list = NULL => len = 0 /\ cap = 0
  BY NullIsEmpty DEF pointer_list_clear
<1>1. status = "ok" /\ list' = NULL /\ len' = 0 /\ cap' = 0 /\ UNCHANGED <<result, denied, status>>
  BY <1>0, Zenon DEF pointer_list_clear, memory
<1>2. Cells' = <<>> /\ Len(<<>>) = 0
  BY <1>1 DEF Cells
<1>3. Elements' = <<>>
  BY <1>1, <1>2 DEF Elements
<1>4. 0 \in 0 .. MaxLen /\ 0 \in 0 .. UINT - 1 /\ 1 .. 0 = {}
  BY PointerListAssumption
<1>5. ListInv'
  BY <1>1, <1>2, <1>4 DEF ListInv, ExitsExplained
<1>. QED BY <1>1, <1>3, <1>5 DEF Seen

LEMMA SortSeen ==
  ASSUME ListInv, pointer_list_sort, list # NULL
  PROVE  /\ ListInv' /\ status = "ok" /\ UNCHANGED <<result, status>>
         /\ Elements \in Seq(Values) /\ Elements' \in Seq(Values) /\ Len(Elements') = Len(Elements)
         /\ \A q, j \in 1 .. Len(Elements') : q < j => Elements'[q] <= Elements'[j]
         /\ \A v \in Values : Occurrences(Elements', v) = Occurrences(Elements, v)
<1>1. status = "ok" /\ list # NULL /\ UNCHANGED <<len, cap, result, denied, status>>
  BY Zenon DEF pointer_list_sort
<1>2. PICK s \in [1 .. len -> Values] :
        /\ \A q, j \in 1 .. len : q < j => s[q] <= s[j]
        /\ \A v \in Values : Occurrences(s, v) = Occurrences(Elements, v)
        /\ list' = s \o SubSeq(list, len + 1, Len(list))
  BY Zenon DEF pointer_list_sort
<1>3. /\ list \in Seq(Cell) /\ len \in Nat /\ cap \in Nat /\ Len(list) = cap
      /\ Is(Elements, len, list)
  BY <1>1, CellsAre, Zenon DEF Cells
<1>4. len <= cap /\ cap \in 0 .. UINT - 1 /\ len \in 0 .. MaxLen /\ result \in Values \cup {NULL}
  BY <1>1, Zenon DEF ListInv
<1>5. s \in Seq(Values) /\ s \in Seq(Cell) /\ Len(s) = len
  BY <1>3 DEF Cell
<1>6. PICK z : z = SubSeq(list, len + 1, Len(list))
  BY Zenon
<1>7. z \in Seq(Cell) /\ Len(z) = cap - len
  BY <1>3, <1>4, <1>6
<1>8. PICK c : c = s \o z
  BY Zenon
<1>9. c \in Seq(Cell) /\ Len(c) = cap /\ \A q \in 1 .. len : c[q] = s[q]
  <2>1. /\ c \in Seq(Cell) /\ Len(c) = Len(s) + Len(z)
        /\ \A q \in 1 .. Len(s) + Len(z) : c[q] = IF q <= Len(s) THEN s[q] ELSE z[q - Len(s)]
    BY <1>5, <1>7, <1>8, ConcatIs, ZenonT(40)
  <2>2. Len(s) + Len(z) = cap /\ \A q \in 1 .. len : q \in 1 .. cap /\ q <= len
    BY <1>3, <1>4, <1>5, <1>7
  <2>. QED BY <1>5, <2>1, <2>2, Zenon
<1>10. Leaves(c, len, result)
  BY <1>1, <1>2, <1>6, <1>8, Zenon DEF Leaves
<1>11. \A q \in 1 .. len : c[q] \in Values
  BY <1>2, <1>9, Zenon
<1>12. ListInv' /\ Is(Elements', len, c)
  BY <1>1, <1>4, <1>9, <1>10, <1>11, LeavesInv, Zenon
<1>13. Is(s, len, c)
  BY <1>5, <1>9 DEF Is
<1>14. Elements' = s
  BY <1>12, <1>13, SameSeq
<1>. QED BY <1>1, <1>2, <1>3, <1>5, <1>12, <1>14, Zenon DEF Is

LEMMA InitList == Init => ListInv
<1>1. <<>> \in Seq(Cell) /\ Len(<<>>) = 0 /\ 1 .. 0 = {} /\ 0 \in 0 .. MaxLen /\ 0 \in 0 .. UINT - 1 /\ 0 <= 0
  BY PointerListAssumption
<1>2. SUFFICES ASSUME Init PROVE ListInv
  OBVIOUS
<1>3. Cells = <<>>
  BY <1>2 DEF Init, Cells
<1>. QED BY <1>1, <1>2, <1>3, Zenon DEF Init, ListInv, ExitsExplained

LEMMA SameCount == \A T : S!Cardinality(T) = Cardinality(T)
BY DEF S!Cardinality, Cardinality

\* A call that does nothing.
LEMMA NothingSeen ==
  ASSUME ListInv, status = "ok", UNCHANGED memory
  PROVE  ListInv' /\ S!Becomes(Elements, result)
<1>1. UNCHANGED <<list, len, cap, result, denied, status>>
  BY Zenon DEF memory
<1>2. ListInv' /\ UNCHANGED <<Elements, result, status>>
  BY <1>1, Zenon DEF ListInv, ExitsExplained, Cells, Elements
<1>. QED BY <1>2, Zenon DEF S!Becomes

LEMMA PopSeen ==
  ASSUME ListInv, pointer_list_pop
  PROVE  ListInv' /\ S!pop
<1>1. status = "ok"
  BY DEF pointer_list_pop
<1>2. PICK s : /\ s = Elements /\ s \in Seq(Values) /\ len \in Nat /\ Len(s) = len
               /\ \A q \in 1 .. len : s[q] = Cells[q]
  BY <1>1, CellsAre, ZenonT(40) DEF Is
<1>3. CASE len <= 0
  <2>1. result' = NULL /\ UNCHANGED <<list, len, cap, denied, status>>
    BY <1>3 DEF pointer_list_pop
  <2>2. ListInv' /\ UNCHANGED Elements
    BY <2>1, Zenon DEF ListInv, ExitsExplained, Cells, Elements
  <2>3. s = <<>>
    BY <1>2, <1>3
  <2>. QED BY <1>1, <1>2, <2>1, <2>2, <2>3, ZenonT(40) DEF S!pop, S!Becomes
<1>4. CASE ~(len <= 0)
  <2>1. Remove(len - 1, Cells[len])
    BY <1>4 DEF pointer_list_pop
  <2>2. len - 1 \in Nat /\ (len - 1) + 1 = len /\ len \in 1 .. len /\ len - 1 < len
    BY <1>2, <1>4
  <2>3. Cells[len] = s[len] /\ s[len] \in Values
    BY <1>2, <2>2
  <2>4. ListInv' /\ Seen(S!RemoveAt(s, len), Cells[len])
    BY <1>1, <1>2, <2>1, <2>2, <2>3, RemoveSeen, ZenonT(40)
  <2>5. S!RemoveAt(s, len) = SubSeq(s, 1, Len(s) - 1) /\ s # <<>> /\ Cells[len] = s[Len(s)]
    <3>1. PICK k \in Nat : k = len - 1 /\ len = k + 1
      BY <2>2
    <3>2. PICK t : t = S!RemoveAt(s, k + 1) /\ Without(t, s, k)
      BY <1>2, <3>1, RemoveAtIs
    <3>3. t \in Seq(Values) /\ Len(t) = k /\ \A q \in 1 .. k : t[q] = s[q]
      BY <1>2, <3>1, <3>2 DEF Without
    <3>4. SubSeq(s, 1, k) \in Seq(Values) /\ Len(SubSeq(s, 1, k)) = k /\ \A q \in 1 .. k : SubSeq(s, 1, k)[q] = s[q]
      BY <1>2, <3>1
    <3>5. t = SubSeq(s, 1, k)
      BY <3>3, <3>4
    <3>. QED BY <1>2, <2>3, <3>1, <3>2, <3>5
  <2>. QED BY <1>1, <1>2, <2>4, <2>5, Zenon DEF Seen, S!pop, S!Becomes, S!OutOfMemory
<1>. QED BY <1>3, <1>4

LEMMA GetSeen ==
  ASSUME ListInv, NEW index \in Nat, pointer_list_get(index)
  PROVE  ListInv' /\ S!get(index)
<1>1. status = "ok" /\ UNCHANGED <<list, len, cap, denied, status>>
  BY Zenon DEF pointer_list_get
<1>2. PICK s : /\ s = Elements /\ s \in Seq(Values) /\ len \in Nat /\ Len(s) = len
               /\ \A q \in 1 .. len : s[q] = Cells[q]
  BY <1>1, CellsAre, ZenonT(40) DEF Is
<1>3. result' = (IF index < len THEN s[index + 1] ELSE NULL) /\ result' \in Values \cup {NULL}
  <2>1. CASE index < len
    <3>1. index + 1 \in 1 .. len /\ ~(index >= len)
      BY <1>2, <2>1
    <3>2. s[index + 1] \in Values
      BY <1>2, <3>1
    <3>. QED BY <1>2, <2>1, <3>1, <3>2, Zenon DEF pointer_list_get
  <2>2. CASE ~(index < len)
    <3>1. index >= len
      BY <1>2, <2>2
    <3>. QED BY <2>2, <3>1, Zenon DEF pointer_list_get
  <2>. QED BY <2>1, <2>2
<1>4. ListInv' /\ UNCHANGED <<Elements, status>>
  BY <1>1, <1>3, Zenon DEF ListInv, ExitsExplained, Cells, Elements
<1>. QED BY <1>2, <1>3, <1>4, Zenon DEF S!get, S!Becomes

LEMMA SortsSeq ==
  ASSUME ListInv, pointer_list_sort
  PROVE  ListInv' /\ status = "ok" /\ S!sort
<1>1. CASE list # NULL
  <2>1. /\ ListInv' /\ status = "ok" /\ UNCHANGED <<result, status>> /\ Len(Elements') = Len(Elements)
        /\ DOMAIN Elements' = 1 .. Len(Elements')
        /\ \A q, j \in 1 .. Len(Elements') : q < j => Elements'[q] <= Elements'[j]
        /\ \A v \in Values : Occurrences(Elements', v) = Occurrences(Elements, v)
    BY <1>1, SortSeen
  <2>2. S!sort
    BY <2>1, SameCount, Zenon DEF S!sort, Occurrences
  <2>. QED BY <2>1, <2>2, Zenon
<1>2. CASE list = NULL
  <2>1. status = "ok" /\ list' = NULL /\ UNCHANGED <<list, len, cap, result, denied, status>>
    BY <1>2, Zenon DEF pointer_list_sort
  <2>2. ListInv' /\ UNCHANGED Elements
    BY <2>1, Zenon DEF ListInv, ExitsExplained, Cells, Elements
  <2>3. len = 0 /\ Is(Elements, len, Cells)
    BY <1>2, <2>1, NullIsEmpty, CellsAre
  <2>4. DOMAIN Elements = {}
    BY <2>3 DEF Is
  <2>5. S!sort
    BY <2>1, <2>2, <2>4, Zenon DEF S!sort
  <2>. QED BY <2>1, <2>2, <2>5, Zenon
<1>. QED BY <1>1, <1>2, Zenon

\* Every call does what the sequence does in that call, or ends the process.
LEMMA NextList ==
  ASSUME ListInv, [Next]_vars
  PROVE  ListInv' /\ [S!Next]_(S!vars)
<1>0. ASSUME status = "ok" PROVE Len(Elements) = len /\ len \in Nat
  BY <1>0, CellsAre DEF Is
<1>1. ASSUME NEW s, Seen(s, result), status = "ok"
      PROVE  S!Becomes(s, result) \/ S!OutOfMemory
  BY <1>1, Zenon DEF Seen, S!Becomes, S!OutOfMemory
<1>2. ASSUME NEW v \in Values, called' = <<"append", v>>, pointer_list_append(v) PROVE ListInv' /\ S!Next
  <2>1. ListInv' /\ status = "ok" /\ Seen(Append(Elements, v), result)
    BY <1>2, AppendSeen, Zenon
  <2>2. S!append(v)
    BY <1>1, <2>1, Zenon DEF S!append
  <2>. QED BY <1>2, <2>1, <2>2, Zenon DEF S!Next
<1>3. ASSUME NEW v \in Values, NEW pos \in Indexes, called' = <<"insert", v, pos>>, pointer_list_insert(v, pos)
      PROVE  ListInv' /\ S!Next
  <2>1. status = "ok" /\ pos \in Nat
    BY <1>3 DEF pointer_list_insert, Indexes
  <2>2. Len(Elements) = len /\ len \in Nat
    BY <1>0, <2>1, Zenon
  <2>3. CASE pos > len /\ UNCHANGED memory
    <3>1. ~(pos <= len)
      BY <2>1, <2>2, <2>3
    <3>2. ListInv' /\ S!Becomes(Elements, result)
      BY <2>1, <2>3, NothingSeen, Zenon
    <3>. QED BY <1>3, <2>1, <2>2, <3>1, <3>2, Zenon DEF S!Next, S!insert
  <2>4. CASE pos <= len /\ len < MaxLen /\ Grow(Shifted(Roomy, pos, v))
    <3>1. ListInv' /\ Seen(S!InsertAt(Elements, pos + 1, v), result)
      BY <2>1, <2>4, InsertSeen, Zenon
    <3>2. S!insert(v, pos)
      BY <1>1, <2>1, <2>2, <2>4, <3>1, Zenon DEF S!insert
    <3>. QED BY <1>3, <2>1, <3>1, <3>2, Zenon DEF S!Next
  <2>. QED BY <1>3, <2>3, <2>4, Zenon DEF pointer_list_insert
<1>4. ASSUME NEW index \in Indexes, called' = <<"remove", index>>, pointer_list_remove(index) PROVE ListInv' /\ S!Next
  <2>1. status = "ok" /\ index \in Nat /\ result \in Values \cup {NULL}
    BY <1>4 DEF pointer_list_remove, Indexes, ListInv
  <2>2. Len(Elements) = len /\ len \in Nat
    BY <1>0, <2>1, Zenon
  <2>3. CASE index < len
    <3>1. Remove(index, result)
      <4>1. ~(index >= len)
        BY <2>1, <2>2, <2>3
      <4>. QED BY <1>4, <4>1, Zenon DEF pointer_list_remove
    <3>2. ListInv' /\ Seen(S!RemoveAt(Elements, index + 1), result)
      BY <2>1, <2>3, <3>1, RemoveSeen, ZenonT(40)
    <3>3. S!remove(index)
      BY <1>1, <2>1, <2>2, <2>3, <3>2, Zenon DEF S!remove
    <3>. QED BY <1>4, <2>1, <3>2, <3>3, Zenon DEF S!Next
  <2>4. CASE ~(index < len)
    <3>1. index >= len
      BY <2>1, <2>2, <2>4
    <3>2. ListInv' /\ S!Becomes(Elements, result)
      BY <1>4, <2>1, <3>1, NothingSeen, Zenon DEF pointer_list_remove
    <3>. QED BY <1>4, <2>1, <2>2, <2>4, <3>2, Zenon DEF S!Next, S!remove
  <2>. QED BY <2>3, <2>4, Zenon
<1>5. ASSUME called' = <<"pop">>, pointer_list_pop PROVE ListInv' /\ S!Next
  BY <1>5, PopSeen, Zenon DEF S!Next, pointer_list_pop
<1>6. ASSUME NEW index \in Indexes, called' = <<"get", index>>, pointer_list_get(index) PROVE ListInv' /\ S!Next
  <2>1. index \in Nat
    BY DEF Indexes
  <2>. QED BY <1>6, <2>1, GetSeen, Zenon DEF S!Next, pointer_list_get
<1>7. ASSUME NEW index \in Indexes, NEW v \in Values, called' = <<"set", index, v>>, pointer_list_set(index, v)
      PROVE  ListInv' /\ S!Next
  <2>1. status = "ok" /\ index \in Nat /\ UNCHANGED status
    BY <1>7 DEF pointer_list_set, Indexes
  <2>2. Len(Elements) = len /\ len \in Nat
    BY <1>0, <2>1, Zenon
  <2>3. CASE index < len
    <3>1. ListInv' /\ Seen([Elements EXCEPT ![index + 1] = v], result)
      BY <1>7, <2>1, <2>3, SetSeen, Zenon
    <3>2. S!set(index, v)
      BY <2>1, <2>2, <2>3, <3>1, Zenon DEF S!set, S!Becomes, Seen
    <3>. QED BY <1>7, <2>1, <3>1, <3>2, Zenon DEF S!Next
  <2>4. CASE ~(index < len)
    <3>1. index >= len
      BY <2>1, <2>2, <2>4
    <3>2. ListInv' /\ S!Becomes(Elements, result)
      BY <1>7, <2>1, <3>1, NothingSeen, Zenon DEF pointer_list_set, memory
    <3>3. S!set(index, v)
      BY <2>2, <2>4, <3>2, Zenon DEF S!set
    <3>. QED BY <1>7, <2>1, <3>2, <3>3, Zenon DEF S!Next
  <2>. QED BY <2>3, <2>4, Zenon
<1>8. ASSUME called' = <<"clear">>, pointer_list_clear PROVE ListInv' /\ S!Next
  <2>1. ListInv' /\ status = "ok" /\ Seen(<<>>, result) /\ UNCHANGED status
    BY <1>8, ClearSeen, Zenon DEF pointer_list_clear, memory
  <2>2. S!clear
    BY <2>1, Zenon DEF S!clear, S!Becomes, Seen
  <2>. QED BY <1>8, <2>1, <2>2, Zenon DEF S!Next
<1>9. ASSUME called' = <<"sort">>, pointer_list_sort PROVE ListInv' /\ S!Next
  BY <1>9, SortsSeq, Zenon DEF S!Next
<1>10. CASE UNCHANGED vars
  BY <1>10, Zenon DEF vars, memory, ListInv, ExitsExplained, Cells, Elements, S!vars
<1>. QED BY <1>2, <1>3, <1>4, <1>5, <1>6, <1>7, <1>8, <1>9, <1>10, ZenonT(40) DEF Next

LEMMA ListIsKept == Spec => []ListInv
<1>1. ListInv /\ [Next]_vars => ListInv'
  BY NextList
<1>. QED BY InitList, <1>1, PTL DEF Spec

\* Whatever the calls, _cap is the number of cells that _pointer_list_realloc has
\* allocated, and the elements are written cells among them.
THEOREM ListIsTyped == Spec => []TypeOK
<1>1. ListInv => TypeOK
  <2>1. ASSUME list \in Seq(Cell) PROVE \A q \in DOMAIN list : list[q] \in Cell
    BY <2>1
  <2>. QED BY <2>1, Zenon DEF ListInv, TypeOK, Cell
<1>. QED BY ListIsKept, <1>1, PTL

\* Whatever the width of unsigned int: pointer_list_expand gives up only at a
\* capacity it cannot exceed, and realloc is blamed only if it refused, or was
\* asked for zero bytes by the last pointer_list_remove.
THEOREM EveryExitHasItsCause == Spec => []ExitsExplained
<1>1. ListInv => ExitsExplained
  BY DEF ListInv
<1>. QED BY ListIsKept, <1>1, PTL

\* Every call of pointer_list.c, with its arguments, does to the array and returns
\* what SeqList says of that very call, through every expansion, contraction and
\* shift and for every index; only append, insert, remove and pop may end the process.
THEOREM ListIsSequence == Spec => ImplementsSeqList
<1>1. Init => S!Init
  <2>1. ASSUME Init PROVE S!Init
    <3>1. Elements = <<>>
      BY <2>1 DEF Init, Elements, Cells
    <3>. QED BY <2>1, <3>1 DEF Init, S!Init
  <2>. QED BY <2>1
<1>2. ListInv /\ [Next]_vars => [S!Next]_(S!vars)
  BY NextList
<1>. QED BY <1>1, <1>2, ListIsKept, PTL DEF Spec, ImplementsSeqList, S!Spec
=============================================================================
