----------------------------- MODULE Virtqueue -----------------------------
(***************************************************************************)
(* One virtqueue of the virtio driver, the only network driver the router  *)
(* is linked with (virtqueue.h, virtio_rxtx.c): the descriptor table with  *)
(* its free chain, the available ring the driver fills and the used ring   *)
(* the device fills.  The ring indexes are 16-bit words, modulo U16.       *)
(* VirtioTx runs the transmit direction on it.                             *)
(***************************************************************************)
EXTENDS Integers, FiniteSets, SequencesExt

CONSTANTS
  nentries,       \* vq_nentries, a power of two
  U16,            \* number of values of an index, a multiple of nentries
  FirstIndex,     \* where the indexes start
  Mbufs,
  NULL            \* no mbuf

ASSUME VirtqueueAssumption ==
  /\ nentries \in Nat \ {0} /\ U16 \in Nat /\ U16 % nentries = 0
  /\ FirstIndex \in 0 .. U16 - 1
  /\ NULL \notin Mbufs

Descs == 0 .. nentries - 1
END == nentries             \* VQ_RING_DESC_CHAIN_END

VARIABLES
  vq,             \* the queue as the driver and the device share it
  device          \* last_avail, and the heads of the chains the device works on

\* vring_desc_init and the first state of the queue.
NewQueue ==
  [next |-> [d \in Descs |-> d + 1],                    \* desc[].next
   more |-> [d \in Descs |-> FALSE],                    \* desc[].flags & VRING_DESC_F_NEXT
   cookie |-> [d \in Descs |-> NULL], ndescs |-> [d \in Descs |-> 0],   \* vq_descx[]
   free_cnt |-> nentries, desc_head_idx |-> 0, desc_tail_idx |-> nentries - 1,
   avail_ring |-> [i \in Descs |-> 0], avail_idx |-> FirstIndex, avail |-> FirstIndex,
   used_ring |-> [i \in Descs |-> 0], used |-> FirstIndex, used_cons_idx |-> FirstIndex]

Distance(i, j) == (i - j) % U16
VIRTQUEUE_NUSED(q) == Distance(q.used, q.used_cons_idx)

\* The descriptors of a chain, from d on.
RECURSIVE Chain(_, _)
Chain(q, d) == IF q.more[d] THEN <<d>> \o Chain(q, q.next[d]) ELSE <<d>>

vq_ring_free_chainMutant(q, d) ==
  LET last == Last(Chain(q, d))
      linked == IF q.desc_tail_idx = END THEN q.next ELSE [q.next EXCEPT ![q.desc_tail_idx] = d]
  IN  [q EXCEPT !.free_cnt = (@ + q.ndescs[d]) % U16, !.ndescs[d] = 0,
                !.desc_head_idx = IF q.desc_tail_idx = END THEN d ELSE @,
                !.desc_tail_idx = d, !.next = [linked EXCEPT ![last] = END]]
\* The chain is appended to the free chain.
vq_ring_free_chain(q, d) ==
  LET last == Last(Chain(q, d))
      linked == IF q.desc_tail_idx = END THEN q.next ELSE [q.next EXCEPT ![q.desc_tail_idx] = d]
  IN  [q EXCEPT !.free_cnt = (@ + q.ndescs[d]) % U16, !.ndescs[d] = 0,
                !.desc_head_idx = IF q.desc_tail_idx = END THEN d ELSE @,
                !.desc_tail_idx = last, !.next = [linked EXCEPT ![last] = END]]

\* The next entry of the used ring is taken and its descriptors are freed.
PopUsed(q) ==
  LET d == q.used_ring[q.used_cons_idx % nentries]
      freed == vq_ring_free_chain([q EXCEPT !.used_cons_idx = (@ + 1) % U16], d)
  IN  [q |-> [freed EXCEPT !.cookie[d] = NULL], cookie |-> q.cookie[d]]

\* virtqueue_enqueue_xmit: the first n free descriptors become the chain of m.
Enqueue(q, m, n) ==
  LET h == q.desc_head_idx
      used == [q EXCEPT !.more = [d \in Descs |-> IF d = h THEN n = 2
                                                  ELSE IF n = 2 /\ d = q.next[h] THEN FALSE ELSE @[d]]]
      idx == IF n = 2 THEN q.next[q.next[h]] ELSE q.next[h]
  IN  [used EXCEPT !.cookie[h] = m, !.ndescs[h] = n, !.free_cnt = @ - n,
                   !.desc_head_idx = idx, !.desc_tail_idx = IF idx = END THEN END ELSE @,
                   !.avail_ring[q.avail_idx % nentries] = h,             \* vq_update_avail_ring
                   !.avail_idx = (@ + 1) % U16]

vq_update_avail_idx(q) == [q EXCEPT !.avail = q.avail_idx]
-----------------------------------------------------------------------------
(***************************************************************************)
(* The device: it fetches chains in the order of the available ring and    *)
(* returns them in any order.                                              *)
(***************************************************************************)
NewDevice == [last_avail |-> FirstIndex, heads |-> <<>>]

DeviceFetch ==
  /\ device.last_avail # vq.avail
  /\ device' = [last_avail |-> (device.last_avail + 1) % U16,
                heads |-> Append(device.heads, vq.avail_ring[device.last_avail % nentries])]
  /\ UNCHANGED vq

DeviceUse ==
  \E i \in DOMAIN device.heads :
    /\ device' = [device EXCEPT !.heads = RemoveAt(@, i)]
    /\ vq' = [vq EXCEPT !.used_ring[vq.used % nentries] = device.heads[i], !.used = (@ + 1) % U16]

Device == DeviceFetch \/ DeviceUse
-----------------------------------------------------------------------------
\* The free chain from descriptor d on, cut off after n descriptors.
RECURSIVE Walk(_, _, _)
Walk(q, d, n) == IF d = END \/ n = 0 THEN <<>> ELSE <<d>> \o Walk(q, q.next[d], n - 1)

\* The heads of the chains that are out: posted, with the device, or used.
Out(q) == {d \in Descs : q.ndescs[d] > 0}

\* The heads the device has, or may fetch.
Shown ==
  ToSet(device.heads) \cup {vq.avail_ring[(device.last_avail + i) % nentries] :
                       i \in 0 .. Distance(vq.avail, device.last_avail) - 1}

\* A chain the device has been shown stays as it is until it is returned: the
\* driver never relinks or reuses a descriptor the device may be reading.
InFlightStable ==
  [][\A h \in Shown : Chain(vq', h) = Chain(vq, h) /\ vq'.cookie[h] = vq.cookie[h]]_<<vq, device>>

\* Every descriptor is free or in one chain that is out: the free chain is
\* free_cnt long, ends at vq_desc_tail_idx and meets no chain that is out, after
\* any order of completions and any number of index overflows.
DescriptorsConserved ==
  LET free == Walk(vq, vq.desc_head_idx, nentries + 1)
  IN  /\ Len(free) = vq.free_cnt
      /\ vq.desc_tail_idx = (IF free = <<>> THEN END ELSE Last(free))
      /\ \A h \in Out(vq) : Len(Chain(vq, h)) = vq.ndescs[h]
      /\ vq.free_cnt + MapThenSumSet(LAMBDA h : vq.ndescs[h], Out(vq)) = nentries
      /\ Descs = ToSet(free) \cup UNION {ToSet(Chain(vq, h)) : h \in Out(vq)}
=============================================================================
