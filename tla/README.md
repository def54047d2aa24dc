# rpmsg_netif in TLA+

`rpmsg_netif` carries Ethernet frames between Linux and a FreeRTOS core over
rpmsg.  The repository holds a Linux network driver (`linux/rpmsg_eth.c`), an
lwIP network interface for FreeRTOS (`freertos/`), a FreeRTOS port of lwIP
(`lwip_arch_xilinx/`) and a vendored copy of lwIP 2.1.1 (`lwip211_v1_8/`).  It
has no tests and no documents of its own, so what the code is meant to do is
taken from its comments, from lwIP's interface comments and from the code.

In what follows *linux* is `linux/rpmsg_eth.c`, *freertos* is
`freertos/rpmsg_eth.c`, and lwIP paths are relative to
`lwip211_v1_8/src/lwip-2.1.1/src/`.

## Inventory

| component | state | operations | properties that make it correct |
|---|---|---|---|
| Linux transmit path and removal (*linux* 68-185, 278-308) | `priv->skb`, `is_delayed`, `is_shutdown`, two work items, the stopped queue | `rpmsg_eth_xmit`, two work handlers, open, stop, remove | every packet is returned once and sent at most once; the queue is never left stopped; nothing runs after the removal |
| Linux binding and receive path (194-276) | driver data, `net_device`, endpoint | probe, `rpmsg_eth_rx_cb` | the callback never runs on absent or freed state; the remote learns the return address |
| FreeRTOS netif driver (*freertos*) | endpoint with its `priv`, netif, return address | `rpmsg_eth_init`, `rpmsg_endpoint_cb`, `low_level_output` | the callback finds its `priv`; only created endpoints are used; a refused packet is freed once |
| FreeRTOS start-up (`freertos/network.c`, `core/netif.c`) | `netif_list`, default netif, up flag | `network_init` | FreeRTOS is able to answer once both ends are up |
| Receive path (`core/pbuf.c`, `core/memp.c`, `api/tcpip.c`, `api/api_msg.c`) | pbuf pool, two message pools, `tcpip_mbox`, `pbuf_free_ooseq_pending`, a netconn's mailbox | `pbuf_alloc`, `tcpip_inpkt`, `tcpip_callback`, `tcpip_thread`, `recv_udp`, `pbuf_free_ooseq` | no pbuf or message is lost or freed twice; the pool does not stay empty |
| IP reassembly (`core/ipv4/ip4_frag.c`) | the list of `ip_reassdata`, the count of pbufs | `ip4_reass`, `ip_reass_tmr` | a datagram is returned when it is whole; limits and count hold; fragments are let go |
| ARP (`core/ipv4/etharp.c`) | the table with its queues, the cached index, the pool of queue elements | `etharp_output`, `etharp_query`, `etharp_input`, `etharp_tmr`, `etharp_cleanup_netif` | packets go where the last answer said, in order; none is lost track of or waits for ever |
| TCP, receiving half (`core/tcp_in.c`, `core/tcp.c`, `core/tcp_out.c`) | `rcv_nxt`, window, announced edge, out-of-sequence queue, refused data | `tcp_input`, `tcp_receive`, `tcp_recved`, `tcp_fasttmr`, `tcp_free_ooseq` | every byte once and in order, then the end; no octet of window lost; no announced edge taken back |
| Heap (`core/mem.c`) | the block list, `lfree`, `mem_free_count` | `mem_malloc`, `mem_free`, `mem_trim` | callers' memory is disjoint; nothing lost; fails only when full; returns |
| tcpip thread: timeouts (`api/tcpip.c`, `core/timeouts.c`) | the timeout list, its pool, `tcpip_tcp_timer_active` | `sys_timeout`, `sys_untimeout`, `sys_check_timeouts`, `lwip_cyclic_timer`, `tcpip_tcp_timer`, `tcpip_timeouts_mbox_fetch` | sorted, never early, never lost, across the clock's wraparound |
| Port: clock and mailboxes (`lwip_arch_xilinx/sys_arch.c`) | the tick count, FreeRTOS queues | `sys_now`, `sys_arch_mbox_fetch`, `sys_mbox_post`, `sys_mbox_trypost` | a clock lwIP can take differences of |
| Port: semaphores, mutexes, threads, critical sections | FreeRTOS objects, interrupt mask | `sys_sem_*`, `sys_mutex_*`, `sys_arch_protect` | the mutual exclusion the other modules assume |

How they meet.  FreeRTOS announces its endpoint; the Linux rpmsg core binds the
driver and gives it an endpoint.  The driver sends a fake first packet, from
which FreeRTOS learns where to send.  The two ends then share two rings of
buffers.  On Linux, the network stack, two work items, the rpmsg core and the
administrator run concurrently on one structure.  On FreeRTOS, the task that
polls the ring calls `rpmsg_endpoint_cb`, which copies the packet into a pbuf of
the pool and posts it to the tcpip thread; the thread hands it to ARP, to
reassembly, to TCP or to the mailbox of a netconn.  The tcpip thread, other tasks
under the core lock and the task in `network_init` may all reach
`low_level_output`.  The heap is shared by all tasks.

What is hard: the removal racing transmission and retry; opening and closing the
interface under a packet in flight; a second binding against a FreeRTOS that already has
an address; set-up code that continues after a failure; clock and sequence
arithmetic at the wraparound; pools and mailboxes at their limits, where every
path must give back exactly what it took; a heap whose search is interrupted by
frees; fragments, segments and answers that are lost, repeated or reordered.  `PROJECT.json` lists each hazard at its line.

## Modules

- `LinuxXmit`: the transmit path and the removal.  A critical section under
  `shutdown_lock` is one step.  Outside it, every access another context can see
  is a step of its own.  `imm_pc`, `del_running`, `xmit_pc` and `rm_pc` say where
  each context is; `own`, `attempts` and `wire` record what happened to each
  packet.
- `RpmsgLink`: both ends from the announcement to the removal, and the two
  message queues.  The steps of `rpmsg_eth_probe` and of `rpmsg_eth_init` are
  split where the other end can act.  Every allocation and every send may fail.
  A fault variable per end records the use of a null, freed or uninitialised
  pointer and stops that end.  `early_poll` chooses whether another task polls
  the ring while `network_init` runs.  The repository does not say which; the
  property on it covers the case where polling starts afterwards.
- `TcpipTimers`: the tcpip thread as it waits for messages and serves timeouts.
  A `u32_t` is a number modulo `Word`; `SysNow` translates the port's overflowing
  product.  `left` is the true time until a timeout is due, which the properties
  compare with what the code computes.  The pool of timeouts has no entry to
  spare, and the TCP timer is started and stopped on demand.
- `Allocator`: what a heap promises, without blocks or lists.
- `MemHeap`: `core/mem.c` with `LWIP_ALLOW_MEM_FREE_FROM_OTHER_CONTEXT`, which
  this port sets.  `mem_malloc` leaves its critical section between any two
  blocks, so each block it looks at is a step; `mem_free` is one step, and
  `mem_trim` two, because it reads the size before it enters the section.  A
  pointer is an offset.  `ImplementsAllocator` maps the blocks callers hold to
  the regions of `Allocator`.
- `IpReass`: `ip4_reass` and its timer as functions on a record, with an action
  for an arriving fragment and one for a tick.
- `RxPath`: the whole way of a received frame.  It composes the driver's
  callback, the pbuf pool, both message pools, the mailbox, the tcpip thread,
  `IpReass` (by `INSTANCE`), the out-of-sequence queues and the application.
  Each operation on a pool or a queue is a critical section and one step.
- `EthArp`: the ARP table.  `wire` holds what the last step sent; packets to one
  address are numbered so that their order can be seen.
- `TcpReceive`: the receiving half of one connection.  The peer's segments may be
  cut anew at any time, and any segment the announced window allows may arrive at
  any time, which covers loss, repetition and reordering.  The octet that probes
  a shut window may come again after it was taken, until the peer hears of it.
  A segment carries the position of its bytes beside its sequence number; the
  code only reads the latter.  An acknowledgement arrives, is lost in the
  network, fails in `ip_output`, or finds no memory.  The ghost field `told` of `pcb` is what the last
  one that arrived said.  The application reports its data (`DataDone`) and, like
  the netconn API, may report the FIN as one more octet (`FinDone`, `fin_read`).
- `LinuxXmitProofs`, `RpmsgLinkProofs`, `TcpipTimersProofs`, `MemHeapProofs`,
  `IpReassProofs`, `RxPathProofs`, `EthArpProofs` and `TcpReceiveProofs`: the
  theorems about these modules (see Proofs).  `RxPathProofs` takes what it needs of reassembly from
  `IpReassProofs`.
- `MCLinuxXmit`, `MCRpmsgLink`, `MCTcpipTimers`, `MCMemHeap`, `MCIpReass`,
  `MCRxPath`, `MCEthArp` and `MCTcpReceive` give these modules their constants
  for TLC.

Related facts are joined into one invariant per subject: `HeapSane` is
`ListSane`, `LowestFree`, `BlocksDisjoint` and `NothingLost`, and so on.

External, modelled from how the code uses them: the Linux work queue, network
core and rpmsg core; FreeRTOS queues and tick; OpenAMP's `rpmsg_send` (needs a
return address and a free buffer) and dispatch.

## Runs

| run | bounds | shows |
|---|---|---|
| `xmit` | 3 packets, 3 opens | ownership, no duplicates, the comments marked "invariant" in `rpmsg_eth_remove`; while the interface was opened only once, no leak and the meaning of `is_delayed`; the queue resumes, every packet comes back, the removal ends |
| `link_handshake` | 2 data frames (one of two pbufs) and the ARP, rings of 2, 2 bindings | which faults cannot happen; the fake first packet establishes the link |
| `timers_fullwidth` | clock of 28 values, 2 ms per tick, periods 1, 4 and 3 ms, lateness up to 3 ms, a pool with no entry to spare | the timeout list on a clock that uses the whole word: no timer lost, none early, none overtaken; the TCP timer runs whenever there is a connection |
| `mem_heap` | 16 bytes, alignment 2, requests of 1, 4 and 5 bytes | the heap stays consistent while it is searched, implements `Allocator`, fails only when full, and `mem_malloc` returns |
| `ip_reass` | 4 pbufs, limit 3, 3 datagrams for 2 entries, 3 units each, cut in every way, with overlaps, options, too long and overflowing ones | pbufs, count and entries stay in step; a datagram is returned exactly when it is whole; every fragment is let go |
| `rx_path` | 3 pbufs, 1 input and 2 callback messages, mailboxes of 2 and 1, 2 connections | no pbuf or message is lost or given back twice; the reclaim flag never sticks; the pool refills |
| `etharp` | 3 addresses, 2 slots, queues of 2, 3 queue elements | right place, right order, no request storm, no packet waits for ever |
| `tcp_receive` | 6 bytes and a FIN, window 4, MSS 3, sequence numbers modulo 64 that wrap after 3 | the stream intact, the window conserved, the edge never taken back, the end reached and acknowledged to the peer |

Findings, each a run that ends in a counterexample:

| run | the code | the comment |
|---|---|---|
| `xmit_use_after_return` | *linux* 92 reads `skb->len` after the worker sent and consumed the packet (the drop path, 87, does the same to itself during a removal; the property leaves that out) | 159 "return the skb to the network stack" |
| `xmit_reenable` | open (177) restarts the queue while the work of a packet is pending; the next packet overwrites `priv->skb` | 74 "will be re-enabled by the work queue" |
| `link_rebind` | a driver bound again can get a message before the fake packet and before `dev_set_drvdata` | 259 "expects a fake first packet" |
| `timers_wrap` | `sys_now` wraps at 2^32 / `configTICK_RATE_HZ` (`sys_arch.c` 563) | `include/lwip/sys.h` 447 "Don't care for wraparound" |

What the model shows without a run of its own, because it is read off a few
lines: `rpmsg_eth_remove` takes its structure from `ept->priv`
(*linux* 280), which the driver never sets (`RemoveStart` allows both values the
external core could leave there); `low_level_output` sends one message per pbuf
of a chain (*freertos* 163), so a frame in two pbufs arrives as two packets; and
`network_init` brings the interface up whether or not `netif_add` accepted it
(`freertos/network.c` 27-39).  `tcp_fasttmr` clears the acknowledgement flags
even if the acknowledgement could not be sent (`core/tcp.c` 1507), although
`core/tcp_out.c` 2049 says it will retry.  `StreamEnds` shows that a peer that
retransmits hears all the same that the stream and its FIN were taken: every
repeated segment is answered, whether it is old, outside the window or after the
FIN.  The netconn API reports the FIN as one octet read (`api/api_lib.c` 737), after
`tcp_input` gave that octet back by itself (`core/tcp_in.c` 538-540).
`core/tcp.c` 985-987 says "In passive close, we allow this", but only the branch
for a 16-bit wraparound does.  With a smaller window, such as the shipped 2048
(`lwip_arch_xilinx/include/lwipopts.h` 97), `FinDone` finds the window full and the
call fails the assertion "len overflowed TCP_WND_MAX" (995).  This port compiles
assertions to nothing (`include/arch/cc.h` 79), and `WindowConserved` shows that
the cap (997) keeps the window right.

Why the bounds are enough.  `LinuxXmit`: three packets are one in flight, one
overwriting it and one more behind the queue; the second open is the one that
does harm and the third repeats it.  `RpmsgLink`: the second binding is the first
that meets an address learned earlier; a ring of 2 can be empty, partly and
completely full.  `TcpipTimers`: the TCP and application
periods are not multiples of each other and the ARP period is shorter than a tick,
so both roundings occur; the lateness exceeds a period, so the overload branch of `lwip_cyclic_timer` is taken; the clock wraps
as often as it likes.  `MemHeap`: 16 bytes hold four blocks, enough for a block
that is merged on both sides while the search stands on it; the requests round
up, fit exactly and leave a rest too small to split.  `IpReass`: one datagram more
than entries and one pbuf more than the limit, so both evictions happen; three
units allow a hole in the middle and every overlap.  `RxPath`: every pool can be
empty and every mailbox full, in any combination.  `EthArp`: one address more
than slots forces recycling, and the queue elements run out before the queues
are full.  `TcpReceive`: the stream is longer than the window, so the window must
be reopened, the window is shut and probed, and out-of-sequence queues of several
segments with a FIN occur.  In `timers_wrap` the range of the clock is a quarter of
the word, which keeps the gap outside the window of `TIME_LESS_THAN`, as it is
for 2^32 / 100 or 2^32 / 1000.

Deadlock checking is off where the system may rest: no more packets, no more
bindings, or a fault that stopped an end.  It is on for the timers.

Fairness.  `LinuxXmit`: calls that have started proceed, queued work runs, armed
timers expire (the kernel guarantees this); nobody has to open, transmit or
remove.  `RpmsgLink`: probe and `network_init` proceed, queued messages are
dispatched; nobody has to bind or send.  `TcpipTimers`: the tcpip thread runs
(weak) and time advances (strong, because the bound `MaxLate` may hold the clock
back between two steps of the thread); nobody has to post.  `MemHeap`: a task in
`mem_malloc` or `mem_trim` runs on; nobody has to free.  `IpReass` and `EthArp`:
the cyclic timer ticks, which `timers_fullwidth` shows; at the port's tick rate
`FragmentsReleased` and `WaitEnds` therefore hold only until the overflow of
`timers_wrap`.  `RxPath`: the tasks run,
the thread serves its timeouts between messages (strong, because messages may
always be waiting and `tcpip_timeouts_mbox_fetch` checks the timeouts first), the
application reads, and frames keep arriving, since only an arriving frame finds
the pool empty; `PoolRefills` asks besides that the callback messages and the
mailbox do not stay exhausted.  `TcpReceive`: the peer repeats the first octet it
has not heard acknowledged, in some segment that the edge it was told allows or as
a probe, and in the end one copy and the answer to it get through (`Resent`, a
step of `Arrives`; retransmission and persist timers never give up here); the fast
timer runs, for a delayed acknowledgement as well as for refused data; the application does not
refuse for ever and reports what it took.  Acknowledgements that the fast timer
or a read sends may all be lost, and nobody has to report the FIN or send data
the other way.

## Proofs

TLC checks the instances above; the theorems hold for every value of the
constants the named `ASSUME`s allow.  Each proof rests on an inductive invariant,
because the property alone does not survive a step.

| module | theorems | inductive invariant, and what it adds |
|---|---|---|
| `LinuxXmitProofs` | `TypeCorrect`, `RemovalQuiescent`, `PacketsOwned`, `NoDuplicates`, `OpenedOnceIsSafe`, `ShutdownIsFinal` | `IInv`, `OnceInv`: who owns each packet at each program counter |
| `RpmsgLinkProofs` | `LinkTypeCorrect`, `LinkNoWildAccess`, `FirstBindingFakePacketFirst` | `LinkInv`: nothing is on its way before the first fake packet |
| `MemHeapProofs` | `HeapTypeCorrect`, `HeapAlwaysSane`, `MallocFailsOnlyWhenFull`, `HeapImplementsAllocator` | `HeapInv`: the set of block offsets, and what a search has passed |
| `IpReassProofs` | `ReassTypeCorrect`, `ReassAlwaysSane`, `ReassReturnsWhole` | `ReassInv`, `WholeInv`: what each entry's fragments cover |
| `RxPathProofs` | `RxTypeCorrect`, `RxConserves`, `RxPendingIsQueued`, `MailboxNeverFull` | `RxInv`: every pbuf and message in one place |
| `EthArpProofs` | `ArpTypeCorrect`, `ArpQueuesSane`, `ArpSentRight`, `ArpRerequestRate` | `ArpInv`: what each entry says by itself, and how far it is from the next request |
| `TcpReceiveProofs` | `TcpTypeCorrect`, `TcpStreamIntact`, `TcpReceiverSane`, `TcpEdgeMonotone` | `TcpInv`: the positions in the stream that the sequence numbers stand for |
| `TcpipTimersProofs` | `TimersNeverLost`, `TimersTypeCorrect`, `TimersListSane`, `TimersNeverEarly`, `TimersRightUntilOverflow` | `ListInv`, `ClockInv`: the true time until each timer is due |

**Linux transmit path.**  Assumes that `NULL` is no packet and that `MaxOpens` is
a natural number.  `IInv` joins the type invariant with three parts.
`ShutdownInv` ties where the removal is to `is_shutdown` and to what may still be
queued: `RemoveQuiesces` alone says nothing about the window between the flag and
the cancellations.  `OwnerInv` says which packets the driver owns at each program
counter; without it a step that consumes `priv->skb` could consume a packet that
is already gone.  `WireInv` ties a packet that was sent to the cleanup that must
follow, which is why no retry can send it again.  `OnceInv` adds what holds while
the interface has been opened at most once: at most one context works on the
packet in flight (`TokenInv`), and the queue is stopped while one does
(`StoppedInv`).  From this follow `NoLeak` and, through `AttemptsInv`, the meaning
of `is_delayed`.  The second open breaks `StoppedInv`, which is the
`xmit_reenable` finding.

**Link.**  `LinkInv` says that until the first binding has sent the fake packet
both rings are empty and FreeRTOS has no address (`QuietBeforeDummy`), and in
which order the steps of probe and `network_init` make what the callbacks use
(`Binding`, `Stages`).  `FirstBindingFakePacketFirst` is the part of the
`link_rebind` claim that is true.

**Heap.**  The type invariant says nothing about the shape of the list, so
`HeapInv` says that there is a set `B` of block offsets that the list links in
order (`Chain`), without two free neighbours (`Coalesced`), with `lfree` its
lowest free one (`LowestIs`), and that the blocks callers hold are in it
(`HeldBy`).  `InMalloc` is what makes failure right: unless a free or a trim has
disturbed the search, no free block behind it is large enough.  Each operation
changes `B` by a block or two; that the list walked from offset 0 is `B`, which
`HeapSane` speaks of, is shown once.  `HeapImplementsAllocator` shows that the
initial state maps to an initial state of `Allocator` and every step to a grant
of bytes nobody holds, a release, a shrink, or a stutter.

**Reassembly.**  `ReassAssumption` asks for a finite pool and at least one
fragment.  `ReassInv` holds for any fragments, well formed or not.
`ReassReturnsWhole` additionally assumes `SendersAgree`: fragments of one datagram
agree on where it ends.  A sender that does not can make `ip4_reass` return what
is not whole, so the assumption is needed; `MCIpReass` asserts it of the run's
fragments.

**Receive path.**  `Conserved` counts pbufs over ten places.  `OnePlace` says that
these places are disjoint, `Books` that messages and their pools add up, `Loaded`
which pbuf each task holds at each program counter, and `Flag` who will clear
`pbuf_free_ooseq_pending`.  `MailboxNeverFull` assumes `NumInpkt + NumApi <=
MboxSize`, which `lwip_arch_xilinx/include/lwipopts.h` satisfies (64 + 16 and 200,
lines 47, 65 and 66): in the shipped configuration no post of `tcpip_inpkt` or
`tcpip_try_callback` fails for want of room.

**ARP.**  `Good` says of each entry that only a pending one holds packets, in
order, and that a stable one has the address heard last.  `AllPaced` says how far
the watched entry is from its next request given what was asked in the last two
ticks; without it `RerequestRate` is not inductive.

**TCP.**  `TcpReceiveAssumption` asks that stream and window together fit
`tcpwnd_size_t`, and that twice its range fits the sequence numbers, as 2^16 and
2^32 do: the theorems are about a stream of fewer than 2^16 octets whose sequence
numbers start anywhere, wraparound included.  `PosOrder` then replaces every
comparison and difference of sequence numbers by that of positions in the stream.
`TcpInv` says that there is a position `n` of `rcv_nxt` and a position `e` of the
announced edge.  `CoreOK` bounds what the queue holds by both: a segment in it is
a piece of the stream, begins after `n` and ends at `e` or before.  The end matters
because an out-of-sequence segment at the head of the queue is not cut at the
window; only the edge keeps it inside.  `EdgeOK` says that the window to be
announced next reaches the old edge, without which sending an acknowledgement
could take it back; after the probe of a shut window `n` may be one octet beyond
`e`, the case for which `tcp_update_rcv_ann_wnd` has a branch of its own.  `UpOK`
says that what the application has and has refused are the first octets of the
stream, up to `n`.  Of `told` only its type
matters to safety.  When the FIN is reported all data has been, so the window is
full and the cap of `tcp_recved` leaves it so (`FinDoneOK`).  The lemmas follow the code: what `tcp_oos_insert_segment`,
the walk through the queue (`OutOfSequenceOK`), the trimming (`FrontTrimIs`), the
segments that go up together (`AbsorbIs`, `TakenIs`) and `tcp_input`'s passing of
data (`DeliverOK`) make of a state that satisfies the invariant.  `StepOK` also
says that `e` does not decrease, which is `EdgeMonotone`.  TLC checked `TcpInv` on
the instance of `tcp_receive` before it was proved.

**Timeouts.**  `TimersNeverLost` needs nothing of the clock: an entry goes back to
the pool before the handler that needs one runs, and the pool has one for every
timer (`PoolAssumption`).  The other theorems are about time.  `ClockInv` says that
there is a true time `real` until each timer is due, of which the due time in the
list is the value modulo the word, that the list is in its order, and that it
stays within a quarter of the word; `left` follows it only down to `-MaxLate`.  It
also bounds the age of the `now` of `sys_check_timeouts` and ties the length of a
sleep to the cyclic timers, because a timeout that another thread sets during a
sleep may be served late by as much as the sleep lasts.  `Margin` is what this
needs: there is a cyclic timer, and interval plus lateness fit a quarter of the
word (12 days; the longest interval of the stack is seconds).  `MCTcpipTimers`
asserts it of both runs.  The invariant is kept as long as a tick moves `sys_now`
on by its length.  `Hz = 1` gives a clock that wraps at the full word, where it
does so for ever; at any other rate `TimersRightUntilOverflow` says it does until
`ticks * 1000` overflows, and `timers_wrap` shows what happens then.

The proofs use induction over naturals as "a set of naturals that is not empty
has a least element" (`LeastNat`), from which follow the facts about the folds and
searches the models use.

Only model-checked: the liveness properties, since fairness is outside the
prover's reach.  Every invariant and every action property of the passing runs is
the statement of a theorem.

## Not modelled

- Semaphores, mutexes, threads and critical sections of the port: each is one
  call of FreeRTOS or one access to the interrupt mask; the modules take the
  mutual exclusion they give as granted.  `network_init` calls `netif_add` and
  `netif_set_up` without the core lock; `RpmsgLink` lets both contexts transmit
  at once but does not model races on lwIP's core.
- `lwip_sock_init` busy-waits for the tcpip thread (`core/init.c` 350); whether
  it returns depends on task priorities, which the repository leaves open.
- Frame contents beyond what the code switches on; checksums; statistics beyond
  the ones that read a packet late; MAC, MTU and names.
- TCP apart from receiving in ESTABLISHED and CLOSE_WAIT: sending, congestion
  control, retransmission, opening, the other closing states, resets, callbacks
  that abort.  The modelled peer keeps its FIN inside the announced window; lwIP's
  own sender does not count it, and an out-of-sequence segment at the head of the
  queue is not cut at the window (`core/tcp_in.c` 1579).  It sends no data beyond
  the window either, so the branches that cut a segment there (`Clip`,
  `FitWindow`) are translated but never needed.
- `ip4_frag` (sending fragments); IPv6, PPP, DHCP, DNS, SNMP, MQTT, TFTP, the
  httpd and the socket layer of lwIP, Xilinx's ports, examples and packaging data:
  vendored, not built into this system or not reached by its drivers.  They are
  most of the repository's lines.
- Weak memory effects: steps are sequentially consistent.

## Plan

1. Done: `LinuxXmit`, `RpmsgLink`, `TcpipTimers` with the pool and the TCP timer,
   `Allocator` and `MemHeap`, `IpReass`, `RxPath`, `EthArp` and `TcpReceive`, each
   with proofs of its safety properties.
2. The sending half of TCP, and `TxService`, an abstract transmit service that
   `LinuxXmit` implements.
