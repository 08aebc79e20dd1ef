------------------------------ MODULE VirtioTx ------------------------------
(***************************************************************************)
(* rte_eth_tx_burst on a virtio port (virtio_xmit_pkts), one packet a      *)
(* call, as the router and the forwarder call it.  Sent buffers are freed  *)
(* lazily, by later calls that need their descriptors.                     *)
(***************************************************************************)
EXTENDS Virtqueue

CONSTANTS
  free_thresh,    \* vq_free_thresh
  Slots           \* descriptors a packet may need: 1 pushed or indirect, 2 with a header

ASSUME VirtioTxAssumption == free_thresh \in 0 .. nentries - 1 /\ Slots \subseteq {1, 2}

VARIABLES
  pc,             \* where the driver is: idle, clean, reclaim, publish or refused
  txm,            \* the packet of the call
  slots,          \*   and the descriptors it needs
  num,            \* used entries virtio_xmit_cleanup still has to go through
  pool            \* the free buffers

vars == <<vq, device, pc, txm, slots, num, pool>>

Init ==
  /\ vq = NewQueue /\ device = NewDevice
  /\ pc = "idle" /\ txm = NULL /\ slots = 0 /\ num = 0 /\ pool = Mbufs

\* A call begins by reclaiming all that is used, if that is nearly everything.
Begin ==
  /\ pc' = "clean"
  /\ num' = IF VIRTQUEUE_NUSED(vq) > nentries - free_thresh THEN VIRTQUEUE_NUSED(vq) ELSE 0
  /\ UNCHANGED <<vq, device>>

Call ==
  /\ pc = "idle"
  /\ \E m \in pool : txm' = m /\ pool' = pool \ {m}
  /\ slots' \in Slots
  /\ Begin

FreedMutant(m) == {}
Freed(m) == {m} \ {NULL}

\* One entry of the loop: its descriptors and its buffer are freed.
virtio_xmit_cleanup ==
  /\ pc \in {"clean", "reclaim"} /\ num > 0
  /\ vq' = PopUsed(vq).q
  /\ pool' = pool \cup Freed(PopUsed(vq).cookie)
  /\ num' = num - 1
  /\ UNCHANGED <<device, pc, txm, slots>>

\* How many used entries to reclaim for a packet that lacks need descriptors.
ReclaimMutant(need) == 0
ReclaimUnusedMutant(need) == IF need <= 0 THEN 0 ELSE need
Reclaim(need) ==
  IF need <= 0 THEN 0 ELSE IF need < VIRTQUEUE_NUSED(vq) THEN need ELSE VIRTQUEUE_NUSED(vq)

Need ==
  /\ pc = "clean" /\ num = 0
  /\ num' = Reclaim(slots - vq.free_cnt)
  /\ pc' = "reclaim"
  /\ UNCHANGED <<vq, device, txm, slots, pool>>

Fits == slots <= vq.free_cnt

virtqueue_enqueue_xmit ==
  /\ pc = "reclaim" /\ num = 0
  /\ IF Fits
       THEN vq' = Enqueue(vq, txm, slots) /\ pc' = "publish" /\ txm' = NULL /\ slots' = 0
       ELSE pc' = "refused" /\ UNCHANGED <<vq, txm, slots>>
  /\ UNCHANGED <<device, num, pool>>

Publish ==
  /\ pc = "publish"
  /\ vq' = vq_update_avail_idx(vq)
  /\ pc' = "idle"
  /\ UNCHANGED <<device, txm, slots, num, pool>>

\* The caller tries again, or frees the packet.
Retry == pc = "refused" /\ Begin /\ UNCHANGED <<txm, slots, pool>>
GiveUp ==
  /\ pc = "refused"
  /\ pc' = "idle" /\ txm' = NULL /\ slots' = 0 /\ pool' = pool \cup {txm}
  /\ UNCHANGED <<vq, device, num>>

Driver == virtio_xmit_cleanup \/ Need \/ virtqueue_enqueue_xmit \/ Publish \/ Retry
Card == Device /\ UNCHANGED <<pc, txm, slots, num, pool>>

Next == Call \/ Driver \/ GiveUp \/ Card

Spec == Init /\ [][Next]_vars

\* The worker keeps trying, unless it gives up, and the device keeps sending.
FairSpec == Spec /\ WF_vars(Driver) /\ WF_vars(Card)
-----------------------------------------------------------------------------
\* A buffer is free, in the caller's hands or on the queue, and once: a buffer
\* the device has been shown is not freed before the device returned it, nor twice.
SentOnce ==
  /\ \A h \in Shown : vq.cookie[h] # NULL
  /\ \A m \in Mbufs :
       Cardinality({d \in Descs : vq.cookie[d] = m}) + (IF txm = m THEN 1 ELSE 0)
         + (IF m \in pool THEN 1 ELSE 0) = 1

\* Lazy reclaiming is enough: a caller that does not give up gets its packet onto
\* the queue, however full the queue was (forwarder/fwd.c:40 retries for ever).
RetrySucceeds == pc = "refused" ~> pc \in {"publish", "idle"}
=============================================================================
