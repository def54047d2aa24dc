------------------------------ MODULE RpmsgLink ------------------------------
(***************************************************************************)
(* How the two ends of the link find each other: rpmsg_eth_probe,          *)
(* rpmsg_eth_rx_cb and rpmsg_eth_remove on Linux (linux/rpmsg_eth.c),      *)
(* network_init, rpmsg_eth_init, rpmsg_endpoint_cb and low_level_output on *)
(* FreeRTOS (freertos/), joined by one message queue in each direction.    *)
(*                                                                         *)
(* The rpmsg cores of both ends are external.  FreeRTOS announces its      *)
(* endpoint; the Linux core then binds the driver, gives it an endpoint of *)
(* its own before probe and takes that away after remove.  FreeRTOS learns *)
(* where to send from the first message it gets.                           *)
(***************************************************************************)
EXTENDS Naturals, Sequences

CONSTANTS
  Frame,           \* the Ethernet frames each end may send
  PbufCount,       \* how many pbufs lwIP chains for each frame
  Dummy,           \* the fake first packet of rpmsg_eth_probe
  Arp,             \* the gratuitous ARP of netif_set_up
  EptPriv,         \* what the Linux core may leave in ept->priv
  RingSize,        \* bound: the buffers of each direction
  MaxBinds         \* bound: how often the Linux driver is bound

ASSUME FrameAssumption == Dummy \notin Frame /\ Arp \in Frame
ASSUME PbufAssumption == PbufCount \in [Frame -> Nat \ {0}]
ASSUME PrivAssumption == EptPriv \subseteq {"null", "priv"}
ASSUME BoundAssumption == RingSize \in Nat \ {0} /\ MaxBinds \in Nat

VARIABLES
  lx_pc,      \* where probe or remove is
  lx_ept,     \* the core has an endpoint for the driver
  drvdata,    \* dev_get_drvdata(&rpdev->dev)
  netdev,     \* the net_device
  binds,      \* number of probe calls
  lx_fault,   \* what undefined access stopped Linux
  lx_left,    \* frames Linux has not yet sent
  lx_rx,      \* messages passed to netif_rx
  fr_pc,      \* where network_init is
  early_poll, \* another task polls the queue while network_init still runs
  fr_ept,     \* the endpoint is registered and announced
  ept_netif,  \* mailboxif->netif is set
  ept_priv,   \* mailboxif->lept.priv is set
  linkoutput, \* netif->output and netif->linkoutput are the driver's
  in_list,    \* the netif is in netif_list
  is_up,      \* NETIF_FLAG_UP
  dest,       \* the endpoint knows the return address
  fr_fault,   \* what undefined access stopped FreeRTOS
  fr_left,    \* frames FreeRTOS has not yet sent
  out,        \* per context, the pbufs low_level_output has yet to send
  lwip_rx,    \* packets passed to netif->input
  to_fr,      \* messages on their way to FreeRTOS
  to_lx       \* messages on their way to Linux

lxVars   == <<lx_pc, lx_ept, drvdata, netdev, binds>>
lxIO     == <<lx_left, lx_rx>>
frSetup  == <<fr_ept, ept_netif, ept_priv, linkoutput, in_list, is_up>>
frInit   == <<fr_pc, frSetup>>
frIO     == <<fr_left, out, lwip_rx>>
linux    == <<lxVars, lxIO, lx_fault>>
frLink   == <<dest, early_poll>>
freertos == <<frInit, frIO, frLink, fr_fault>>
vars     == <<linux, freertos, to_fr, to_lx>>
beyondInit == <<frIO, frLink, fr_fault, linux, to_fr, to_lx>>

(* A message is a pbuf of a frame. *)
Pbuf == {m \in Frame \X Nat : m[2] \in 1..PbufCount[m[1]]}
Sender == {"init", "tcpip"}   \* network_init's caller and the tcpip thread

LxPC == {"unbound", "alloc", "drvdata", "dummy", "register", "bound",
         "removing", "freed", "failed"}
FrPC == {"boot", "malloc", "create_ept", "set_netif", "set_priv", "insert",
         "set_up", "ready"}

TypeOK ==
  /\ lx_pc \in LxPC /\ lx_ept \in BOOLEAN
  /\ drvdata \in {"null", "priv"}
  /\ netdev \in {"none", "allocated", "registered", "freed"}
  /\ binds \in 0..MaxBinds
  /\ lx_fault \in {"none", "no_drvdata", "freed_netdev", "no_memory", "no_priv"}
  /\ lx_left \subseteq Frame /\ lx_rx \subseteq Pbuf
  /\ fr_pc \in FrPC /\ fr_ept \in BOOLEAN
  /\ ept_netif \in BOOLEAN /\ ept_priv \in BOOLEAN
  /\ linkoutput \in BOOLEAN /\ in_list \in BOOLEAN /\ is_up \in BOOLEAN
  /\ dest \in BOOLEAN /\ early_poll \in BOOLEAN
  /\ fr_fault \in {"none", "wild_priv", "wild_ept"}
  /\ fr_left \subseteq Frame /\ out \in [Sender -> Seq(Pbuf)]
  /\ lwip_rx \subseteq Frame \cup {Dummy}
  /\ to_fr \in Seq(Frame \cup {Dummy}) /\ Len(to_fr) <= RingSize
  /\ to_lx \in Seq(Pbuf) /\ Len(to_lx) <= RingSize

Init ==
  /\ lx_pc = "unbound" /\ lx_ept = FALSE /\ drvdata = "null" /\ netdev = "none"
  /\ binds = 0 /\ lx_fault = "none" /\ lx_left = Frame \ {Arp} /\ lx_rx = {}
  /\ early_poll \in BOOLEAN
  /\ fr_pc = "boot" /\ fr_ept = FALSE /\ ept_netif = FALSE /\ ept_priv = FALSE
  /\ linkoutput = FALSE /\ in_list = FALSE /\ is_up = FALSE /\ dest = FALSE
  /\ fr_fault = "none" /\ fr_left = Frame \ {Arp} /\ lwip_rx = {}
  /\ out = [c \in Sender |-> <<>>]
  /\ to_fr = <<>> /\ to_lx = <<>>

LxRuns == lx_fault = "none"
FrRuns == fr_fault = "none"

-----------------------------------------------------------------------------
(***************************************************************************)
(* Linux: the rpmsg core binds the driver that rpmsg_eth_init registered.  *)
(***************************************************************************)
Bind ==
  /\ LxRuns /\ lx_pc = "unbound" /\ fr_ept /\ binds < MaxBinds
  /\ lx_ept' = TRUE /\ binds' = binds + 1
  /\ lx_pc' = "alloc"
  /\ UNCHANGED <<drvdata, netdev, lxIO, lx_fault, freertos, to_fr, to_lx>>

(* rpmsg_eth_probe.  alloc_etherdev returns NULL for no memory, IS_ERR does
   not catch it and the next assignment goes through the null pointer. *)
ProbeAlloc ==
  /\ LxRuns /\ lx_pc = "alloc"
  /\ \/ netdev' = "allocated" /\ lx_pc' = "drvdata" /\ UNCHANGED lx_fault
     \/ lx_fault' = "no_memory" /\ UNCHANGED <<netdev, lx_pc>>
  /\ UNCHANGED <<lx_ept, drvdata, binds, lxIO, freertos, to_fr, to_lx>>

SetDrvdata == drvdata' = "priv"

ProbeSetDrvdata ==
  /\ LxRuns /\ lx_pc = "drvdata"
  /\ SetDrvdata
  /\ lx_pc' = "dummy"
  /\ UNCHANGED <<lx_ept, netdev, binds, lxIO, lx_fault, freertos, to_fr, to_lx>>

SendDummyNot == UNCHANGED to_fr             \* mutant: no fake first packet
SendDummy == to_fr' = Append(to_fr, Dummy)

ProbeSendDummy ==
  /\ LxRuns /\ lx_pc = "dummy"
  /\ \/ Len(to_fr) < RingSize /\ SendDummy /\ lx_pc' = "register" /\ UNCHANGED netdev
     \/ netdev' = "freed" /\ lx_pc' = "failed" /\ UNCHANGED to_fr
  /\ UNCHANGED <<lx_ept, drvdata, binds, lxIO, lx_fault, freertos, to_lx>>

(* A failed register_netdev leaves the net_device allocated. *)
ProbeRegister ==
  /\ LxRuns /\ lx_pc = "register"
  /\ \/ netdev' = "registered" /\ lx_pc' = "bound"
     \/ UNCHANGED netdev /\ lx_pc' = "failed"
  /\ UNCHANGED <<lx_ept, drvdata, binds, lxIO, lx_fault, freertos, to_fr, to_lx>>

(* rpmsg_eth_remove takes its structure from the endpoint. *)
RemoveStart ==
  /\ LxRuns /\ lx_pc = "bound"
  /\ \/ "priv" \in EptPriv /\ lx_pc' = "removing" /\ UNCHANGED lx_fault
     \/ "null" \in EptPriv /\ lx_fault' = "no_priv" /\ UNCHANGED lx_pc
  /\ UNCHANGED <<lx_ept, drvdata, netdev, binds, lxIO, freertos, to_fr, to_lx>>

RemoveFree ==
  /\ LxRuns /\ lx_pc = "removing"
  /\ netdev' = "freed" /\ lx_pc' = "freed"
  /\ UNCHANGED <<lx_ept, drvdata, binds, lxIO, lx_fault, freertos, to_fr, to_lx>>

(* The cores drop the endpoint and the driver data after a failed probe or
   after remove. *)
Unbind ==
  /\ LxRuns /\ lx_pc \in {"failed", "freed"}
  /\ lx_ept' = FALSE /\ drvdata' = "null" /\ netdev' = "none"
  /\ lx_pc' = "unbound"
  /\ UNCHANGED <<binds, lxIO, lx_fault, freertos, to_fr, to_lx>>

(* A frame the transmit path gets through rpmsg_trysend. *)
LinuxSend(f) ==
  /\ LxRuns /\ lx_pc \in {"bound", "removing"} /\ f \in lx_left
  /\ Len(to_fr) < RingSize
  /\ to_fr' = Append(to_fr, f)
  /\ lx_left' = lx_left \ {f}
  /\ UNCHANGED <<lxVars, lx_rx, lx_fault, freertos, to_lx>>

(* rpmsg_eth_rx_cb.  Without driver data it follows a null pointer; with a
   freed net_device, or without memory for the packet, anything may happen. *)
RxCb ==
  /\ LxRuns /\ lx_ept /\ to_lx # <<>>
  /\ to_lx' = Tail(to_lx)
  /\ \/ drvdata = "null" /\ lx_fault' = "no_drvdata" /\ UNCHANGED lx_rx
     \/ drvdata = "priv" /\ netdev = "freed" /\ lx_fault' = "freed_netdev" /\ UNCHANGED lx_rx
     \/ drvdata = "priv" /\ lx_fault' = "no_memory" /\ UNCHANGED lx_rx
     \/ drvdata = "priv" /\ lx_rx' = lx_rx \cup {Head(to_lx)} /\ UNCHANGED lx_fault
  /\ UNCHANGED <<lxVars, lx_left, freertos, to_fr>>

(* The core drops a message that has no endpoint. *)
RxDrop ==
  /\ LxRuns /\ ~lx_ept /\ to_lx # <<>>
  /\ to_lx' = Tail(to_lx)
  /\ UNCHANGED <<linux, freertos, to_fr>>

-----------------------------------------------------------------------------
(***************************************************************************)
(* FreeRTOS: network_init calls netif_add, which calls rpmsg_eth_init.     *)
(***************************************************************************)
NetifAdd ==
  /\ FrRuns /\ fr_pc = "boot"
  /\ fr_pc' = "malloc"
  /\ UNCHANGED <<frSetup, beyondInit>>

(* The result of netif_add is not looked at: a failed rpmsg_eth_init skips
   only the insertion into netif_list. *)
InitMalloc ==
  /\ FrRuns /\ fr_pc = "malloc"
  /\ \/ linkoutput' = TRUE /\ fr_pc' = "create_ept"
     \/ UNCHANGED linkoutput /\ fr_pc' = "set_up"
  /\ UNCHANGED <<fr_ept, ept_netif, ept_priv, in_list, is_up, beyondInit>>

AfterEptError == "set_up"

InitCreateEpt ==
  /\ FrRuns /\ fr_pc = "create_ept"
  /\ \/ fr_ept' = TRUE /\ fr_pc' = "set_netif"
     \/ UNCHANGED fr_ept /\ fr_pc' = AfterEptError
  /\ UNCHANGED <<ept_netif, ept_priv, linkoutput, in_list, is_up, beyondInit>>

InitSetNetif ==
  /\ FrRuns /\ fr_pc = "set_netif"
  /\ ept_netif' = TRUE /\ fr_pc' = "set_priv"
  /\ UNCHANGED <<fr_ept, ept_priv, linkoutput, in_list, is_up, beyondInit>>

SetPrivNot == UNCHANGED ept_priv            \* mutant: lept.priv is never set
SetPriv == ept_priv' = TRUE

InitSetPriv ==
  /\ FrRuns /\ fr_pc = "set_priv"
  /\ SetPriv /\ fr_pc' = "insert"
  /\ UNCHANGED <<fr_ept, ept_netif, linkoutput, in_list, is_up, beyondInit>>

NetifInsert ==
  /\ FrRuns /\ fr_pc = "insert"
  /\ in_list' = TRUE /\ fr_pc' = "set_up"
  /\ UNCHANGED <<fr_ept, ept_netif, ept_priv, linkoutput, is_up, beyondInit>>

(* The pbufs of a frame, in the order of the chain. *)
ChainPastEnd(f) ==                          \* mutant: the loop runs one pbuf past the packet
  [i \in 1..(PbufCount[f] + 1) |-> <<f, i>>]
Chain(f) == [i \in 1..PbufCount[f] |-> <<f, i>>]

(* netif_set_default and netif_set_up; the latter sends a gratuitous ARP if
   rpmsg_eth_init got as far as setting the link up. *)
NetifSetUp ==
  /\ FrRuns /\ fr_pc = "set_up"
  /\ is_up' = TRUE /\ fr_pc' = "ready"
  /\ out' = IF linkoutput THEN [out EXCEPT !["init"] = Chain(Arp)] ELSE out
  /\ UNCHANGED <<fr_ept, ept_netif, ept_priv, linkoutput, in_list, fr_left, lwip_rx,
                 frLink, fr_fault, linux, to_fr, to_lx>>

(* The tcpip thread hands a frame to the default netif. *)
OutputStart(f) ==
  /\ FrRuns /\ is_up /\ linkoutput /\ f \in fr_left /\ out["tcpip"] = <<>>
  /\ out' = [out EXCEPT !["tcpip"] = Chain(f)]
  /\ fr_left' = fr_left \ {f}
  /\ UNCHANGED <<frInit, lwip_rx, frLink, fr_fault, linux, to_fr, to_lx>>

(* rpmsg_send needs the return address and a free buffer. *)
MaySend == dest /\ Len(to_lx) < RingSize

(* One iteration of the loop of low_level_output: a message for every pbuf;
   the first failure ends the loop.  An endpoint that was never created is
   uninitialised memory. *)
OutputSend(c) ==
  /\ FrRuns /\ out[c] # <<>>
  /\ \/ /\ fr_ept /\ MaySend
        /\ to_lx' = Append(to_lx, Head(out[c]))
        /\ out' = [out EXCEPT ![c] = Tail(@)]
        /\ UNCHANGED fr_fault
     \/ /\ fr_ept
        /\ out' = [out EXCEPT ![c] = <<>>]
        /\ UNCHANGED <<to_lx, fr_fault>>
     \/ /\ ~fr_ept
        /\ fr_fault' = "wild_ept"
        /\ UNCHANGED <<to_lx, out>>
  /\ UNCHANGED <<frInit, fr_left, lwip_rx, frLink, linux, to_fr>>

(* Which received packets rpmsg_endpoint_cb passes on. *)
Passes(m) == m # Dummy                      \* an IP or ARP frame

PrivReady == ept_priv /\ ept_netif

(* When the queue is polled: another task polls it all the time, or the
   caller of network_init does afterwards. *)
Polled == early_poll \/ (fr_pc = "ready" /\ out["init"] = <<>>)

(* rpmsg_endpoint_cb: the packet goes to netif->input, or is freed for want
   of a pbuf, of a message or of a known type.  Before lept.priv is set the
   callback works on an uninitialised pointer. *)
EndpointCb ==
  /\ FrRuns /\ fr_ept /\ to_fr # <<>> /\ Polled
  /\ to_fr' = Tail(to_fr)
  /\ dest' = TRUE
  /\ \/ ~PrivReady /\ fr_fault' = "wild_priv" /\ UNCHANGED lwip_rx
     \/ PrivReady /\ Passes(Head(to_fr)) /\ lwip_rx' = lwip_rx \cup {Head(to_fr)}
                  /\ UNCHANGED fr_fault
     \/ UNCHANGED <<lwip_rx, fr_fault>>
  /\ UNCHANGED <<frInit, fr_left, out, early_poll, linux, to_lx>>

-----------------------------------------------------------------------------
ProbeStep == ProbeAlloc \/ ProbeSetDrvdata \/ ProbeSendDummy \/ ProbeRegister
InitStep == \/ NetifAdd \/ InitMalloc \/ InitCreateEpt \/ InitSetNetif \/ InitSetPriv
            \/ NetifInsert \/ NetifSetUp

Next ==
  \/ Bind \/ ProbeStep \/ RemoveStart \/ RemoveFree \/ Unbind
  \/ \E f \in Frame : LinuxSend(f)
  \/ RxCb \/ RxDrop
  \/ InitStep
  \/ \E f \in Frame : OutputStart(f)
  \/ \E c \in Sender : OutputSend(c)
  \/ EndpointCb

Spec == Init /\ [][Next]_vars

(* Calls that have started go on and queued messages are dispatched. *)
Fairness ==
  /\ WF_vars(ProbeStep) /\ WF_vars(InitStep)
  /\ WF_vars(EndpointCb)
  /\ WF_vars(RxCb \/ RxDrop)
  /\ \A c \in Sender : WF_vars(OutputSend(c))

FairSpec == Spec /\ Fairness

-----------------------------------------------------------------------------
(***************************************************************************)
(* In the first binding of the driver no message reaches rpmsg_eth_rx_cb   *)
(* before dev_set_drvdata (line 257): FreeRTOS cannot answer before it has *)
(* got the fake first packet, which is sent later (261).                   *)
(***************************************************************************)
RxCbHasPriv == binds <= 1 => lx_fault # "no_drvdata"

(***************************************************************************)
(* When polling starts after network_init has returned,                    *)
(* rpmsg_endpoint_cb never runs before lept.priv is set (line 99), although *)
(* the endpoint is announced nine lines earlier.                           *)
(***************************************************************************)
CallbackHasPriv == ~early_poll => fr_fault # "wild_priv"

(***************************************************************************)
(* Only a netif whose rpmsg_eth_init failed makes low_level_output use an  *)
(* endpoint that was not created (line 163).                               *)
(***************************************************************************)
EndpointUsedOnlyWhenCreated == in_list => fr_fault # "wild_ept"

(***************************************************************************)
(* Neither end follows a null or an uninitialised pointer (linux 194-204,  *)
(* freertos 109 and 163) in the first binding, with polling that starts    *)
(* after network_init, and with a netif that rpmsg_eth_init accepted.      *)
(***************************************************************************)
NoWildAccess == RxCbHasPriv /\ CallbackHasPriv /\ EndpointUsedOnlyWhenCreated

(***************************************************************************)
(* A binding that lasts lets FreeRTOS answer, unless FreeRTOS stops: the   *)
(* fake first packet (lines 259-261) teaches it the return address even if *)
(* Linux sends nothing else.                                               *)
(***************************************************************************)
LinkEstablished ==
  (lx_pc = "bound" /\ fr_pc = "ready") ~> (dest \/ ~FrRuns)

-----------------------------------------------------------------------------
(***************************************************************************)
(* What a comment says and the code does not ensure.                       *)
(***************************************************************************)

(* linux/rpmsg_eth.c, line 259, "RPMsg remote side expects a fake first
   packet to learn the master node's return address": before it is sent the
   remote side sends nothing. *)
FakePacketComesFirst == lx_pc \in {"alloc", "drvdata", "dummy"} => to_lx = <<>>

=============================================================================
