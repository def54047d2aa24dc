--------------------------- MODULE RpmsgLinkProofs ---------------------------
(***************************************************************************)
(* Theorems about RpmsgLink, for every set of frames, every length of the  *)
(* pbuf chains, every ring size and every number of bindings.              *)
(***************************************************************************)
EXTENDS RpmsgLink, TLAPS

(***************************************************************************)
(* Until the first binding of the driver has sent the fake first packet    *)
(* (linux/rpmsg_eth.c, line 261), nothing is on its way in either          *)
(* direction and FreeRTOS has no return address.                           *)
(***************************************************************************)
BeforeDummy ==
  \/ binds = 0
  \/ binds = 1 /\ lx_pc \in {"alloc", "drvdata", "dummy"}

QuietBeforeDummy ==
  BeforeDummy => to_fr = <<>> /\ to_lx = <<>> /\ ~dest

(***************************************************************************)
(* The driver without an endpoint is unbound, the first Bind is the first  *)
(* thing the core does, and between dev_set_drvdata (line 257) and the end *)
(* of the endpoint the driver data is there.                               *)
(***************************************************************************)
Binding ==
  /\ binds = 0 => lx_pc = "unbound" /\ lx_fault = "none"
  /\ lx_pc = "unbound" => ~lx_ept
  /\ lx_pc \notin {"unbound", "alloc", "drvdata"} => drvdata = "priv"

(***************************************************************************)
(* network_init takes its steps in order: the endpoint exists from         *)
(* rpmsg_create_ept on (freertos/rpmsg_eth.c, line 90), or never, and      *)
(* lept.priv is set before network_init goes on (line 99).                 *)
(***************************************************************************)
Stages ==
  /\ fr_pc \in {"boot", "malloc", "create_ept"} => ~fr_ept
  /\ fr_pc \in {"set_netif", "set_priv", "insert"} => fr_ept
  /\ fr_pc = "set_priv" => ept_netif
  /\ fr_ept /\ fr_pc \in {"insert", "set_up", "ready"} => PrivReady
  /\ in_list => fr_ept
  /\ fr_fault = "wild_ept" => ~fr_ept

LinkInv == TypeOK /\ QuietBeforeDummy /\ Binding /\ Stages /\ NoWildAccess

-----------------------------------------------------------------------------
(* The chain of a frame is a sequence of pbufs (low_level_output, line 160). *)
LEMMA ChainType == ASSUME NEW f \in Frame PROVE Chain(f) \in Seq(Pbuf)
  <1>1. PbufCount[f] \in Nat  BY PbufAssumption
  <1>2. \A i \in 1..PbufCount[f] : <<f, i>> \in Pbuf  BY <1>1 DEF Pbuf
  <1>3. Chain(f) \in [1..PbufCount[f] -> Pbuf]  BY <1>2 DEF Chain
  <1> QED  BY <1>1, <1>3

(* Taking the first message out of a ring leaves a ring. *)
LEMMA TailRing ==
  ASSUME NEW S, NEW q \in Seq(S), q # <<>>
  PROVE  Tail(q) \in Seq(S) /\ Head(q) \in S /\ Len(Tail(q)) <= Len(q)
  OBVIOUS

(* Adding a message to a ring that has room leaves a ring. *)
LEMMA AppendRing ==
  ASSUME NEW S, NEW q \in Seq(S), NEW e \in S, Len(q) < RingSize
  PROVE  Append(q, e) \in Seq(S) /\ Len(Append(q, e)) <= RingSize
  BY BoundAssumption

(* The state both ends boot in. *)
LEMMA InitLink == Init => LinkInv
  <1> SUFFICES ASSUME Init PROVE LinkInv  OBVIOUS
  <1>1. TypeOK
    <2>1. out \in [Sender -> Seq(Pbuf)] /\ to_lx \in Seq(Pbuf) /\ Len(to_lx) <= RingSize
      BY BoundAssumption DEF Init
    <2>2. to_fr \in Seq(Frame \cup {Dummy}) /\ Len(to_fr) <= RingSize
      BY BoundAssumption DEF Init
    <2>3. /\ lx_ept \in BOOLEAN /\ fr_ept \in BOOLEAN /\ ept_netif \in BOOLEAN
          /\ ept_priv \in BOOLEAN /\ linkoutput \in BOOLEAN /\ in_list \in BOOLEAN
          /\ is_up \in BOOLEAN /\ dest \in BOOLEAN /\ early_poll \in BOOLEAN
      BY Zenon DEF Init
    <2> QED  BY <2>1, <2>2, <2>3, BoundAssumption DEF Init, TypeOK, LxPC, FrPC
  <1>2. QuietBeforeDummy /\ Binding /\ Stages /\ NoWildAccess
    BY DEF Init, QuietBeforeDummy, Binding, Stages, NoWildAccess, RxCbHasPriv,
           CallbackHasPriv, EndpointUsedOnlyWhenCreated
  <1> QED  BY <1>1, <1>2 DEF LinkInv

-----------------------------------------------------------------------------
(* The steps of the Linux side keep the invariant. *)
LEMMA LinuxStep ==
  ASSUME LinkInv,
         \/ Bind \/ ProbeStep \/ RemoveStart \/ RemoveFree \/ Unbind
         \/ (\E f \in Frame : LinuxSend(f))
         \/ RxCb \/ RxDrop
  PROVE  LinkInv'
  <1> USE DEF LinkInv
  <1> USE DEF LxRuns, freertos, frInit, frSetup, frIO, frLink, lxIO, lxVars, linux
  <1>1. CASE Bind
    <2>1. TypeOK'  BY <1>1, BoundAssumption DEF Bind, TypeOK, LxPC
    <2> QED  BY <1>1, <2>1, BoundAssumption DEF Bind, TypeOK, QuietBeforeDummy, BeforeDummy, Binding,
             Stages, PrivReady, NoWildAccess, RxCbHasPriv, CallbackHasPriv,
             EndpointUsedOnlyWhenCreated
  <1>2. CASE ProbeAlloc
    <2>1. TypeOK'  BY <1>2 DEF ProbeAlloc, TypeOK, LxPC
    <2> QED  BY <1>2, <2>1 DEF ProbeAlloc, TypeOK, QuietBeforeDummy, BeforeDummy, Binding,
             Stages, PrivReady, NoWildAccess, RxCbHasPriv, CallbackHasPriv,
             EndpointUsedOnlyWhenCreated
  <1>3. CASE ProbeSetDrvdata
    <2>1. TypeOK'  BY <1>3 DEF ProbeSetDrvdata, SetDrvdata, TypeOK, LxPC
    <2> QED  BY <1>3, <2>1 DEF ProbeSetDrvdata, SetDrvdata, QuietBeforeDummy, BeforeDummy,
             Binding, Stages, PrivReady, NoWildAccess, RxCbHasPriv, CallbackHasPriv,
             EndpointUsedOnlyWhenCreated
  <1>4. CASE ProbeSendDummy
    <2>1. to_fr' \in Seq(Frame \cup {Dummy}) /\ Len(to_fr') <= RingSize
      BY <1>4, AppendRing DEF ProbeSendDummy, SendDummy, TypeOK
    <2>2. TypeOK'  BY <1>4, <2>1 DEF ProbeSendDummy, SendDummy, TypeOK, LxPC
    <2> QED  BY <1>4, <2>2 DEF ProbeSendDummy, SendDummy, TypeOK, QuietBeforeDummy, BeforeDummy,
             Binding, Stages, PrivReady, NoWildAccess, RxCbHasPriv, CallbackHasPriv,
             EndpointUsedOnlyWhenCreated
  <1>5. CASE ProbeRegister
    <2>1. TypeOK'  BY <1>5 DEF ProbeRegister, TypeOK, LxPC
    <2> QED  BY <1>5, <2>1 DEF ProbeRegister, QuietBeforeDummy, BeforeDummy, Binding,
             Stages, PrivReady, NoWildAccess, RxCbHasPriv, CallbackHasPriv,
             EndpointUsedOnlyWhenCreated
  <1>6. CASE RemoveStart
    <2>1. TypeOK'  BY <1>6 DEF RemoveStart, TypeOK, LxPC
    <2> QED  BY <1>6, <2>1 DEF RemoveStart, QuietBeforeDummy, BeforeDummy, Binding,
             Stages, PrivReady, NoWildAccess, RxCbHasPriv, CallbackHasPriv,
             EndpointUsedOnlyWhenCreated
  <1>7. CASE RemoveFree
    <2>1. TypeOK'  BY <1>7 DEF RemoveFree, TypeOK, LxPC
    <2> QED  BY <1>7, <2>1 DEF RemoveFree, QuietBeforeDummy, BeforeDummy, Binding,
             Stages, PrivReady, NoWildAccess, RxCbHasPriv, CallbackHasPriv,
             EndpointUsedOnlyWhenCreated
  <1>8. CASE Unbind
    <2>1. TypeOK'  BY <1>8 DEF Unbind, TypeOK, LxPC
    <2> QED  BY <1>8, <2>1 DEF Unbind, QuietBeforeDummy, BeforeDummy, Binding,
             Stages, PrivReady, NoWildAccess, RxCbHasPriv, CallbackHasPriv,
             EndpointUsedOnlyWhenCreated
  <1>9. CASE \E f \in Frame : LinuxSend(f)
    <2> PICK f \in Frame : LinuxSend(f)  BY <1>9
    <2>1. TypeOK'
      BY AppendRing DEF LinuxSend, TypeOK
    <2> QED  BY <2>1 DEF LinuxSend, QuietBeforeDummy, BeforeDummy, Binding,
             Stages, PrivReady, NoWildAccess, RxCbHasPriv, CallbackHasPriv,
             EndpointUsedOnlyWhenCreated
  (* The callback without driver data needs a message before dev_set_drvdata,
     and there is none in the first binding. *)
  <1>10. CASE RxCb
    <2>1. TypeOK'
      <3>1. /\ Tail(to_lx) \in Seq(Pbuf) /\ Head(to_lx) \in Pbuf
            /\ Len(Tail(to_lx)) <= RingSize
        BY <1>10, TailRing, BoundAssumption DEF RxCb, TypeOK
      <3> QED  BY <1>10, <3>1 DEF RxCb, TypeOK
    <2>2. drvdata = "null" => ~BeforeDummy /\ binds # 1 /\ binds # 0
      BY <1>10 DEF RxCb, TypeOK, QuietBeforeDummy, BeforeDummy, Binding, LxPC
    <2> QED  BY <1>10, <2>1, <2>2 DEF RxCb, TypeOK, QuietBeforeDummy, BeforeDummy, Binding,
             Stages, PrivReady, NoWildAccess, RxCbHasPriv, CallbackHasPriv,
             EndpointUsedOnlyWhenCreated
  <1>11. CASE RxDrop
    <2>1. TypeOK'
      <3>1. Tail(to_lx) \in Seq(Pbuf) /\ Len(Tail(to_lx)) <= RingSize
        BY <1>11, TailRing, BoundAssumption DEF RxDrop, TypeOK
      <3> QED  BY <1>11, <3>1 DEF RxDrop, TypeOK
    <2> QED  BY <1>11, <2>1 DEF RxDrop, QuietBeforeDummy, BeforeDummy, Binding,
             Stages, PrivReady, NoWildAccess, RxCbHasPriv, CallbackHasPriv,
             EndpointUsedOnlyWhenCreated
  <1> QED  BY <1>1, <1>2, <1>3, <1>4, <1>5, <1>6, <1>7, <1>8, <1>9, <1>10, <1>11 DEF ProbeStep

-----------------------------------------------------------------------------
(* The steps of the FreeRTOS side keep the invariant. *)
LEMMA FreertosStep ==
  ASSUME LinkInv,
         \/ InitStep
         \/ (\E f \in Frame : OutputStart(f))
         \/ (\E c \in Sender : OutputSend(c))
         \/ EndpointCb
  PROVE  LinkInv'
  <1> USE DEF LinkInv
  <1> USE DEF FrRuns, frInit, frSetup, frIO, frLink, lxIO, lxVars, linux, beyondInit
  <1>1. CASE NetifAdd
    <2>1. TypeOK'  BY <1>1 DEF NetifAdd, TypeOK, FrPC
    <2> QED  BY <1>1, <2>1 DEF NetifAdd, QuietBeforeDummy, BeforeDummy, Binding,
             Stages, PrivReady, NoWildAccess, RxCbHasPriv, CallbackHasPriv,
             EndpointUsedOnlyWhenCreated
  <1>2. CASE InitMalloc
    <2>1. TypeOK'
      <3>1. linkoutput' \in BOOLEAN  BY <1>2, Zenon DEF InitMalloc, TypeOK
      <3> QED  BY <1>2, <3>1 DEF InitMalloc, TypeOK, FrPC
    <2> QED  BY <1>2, <2>1 DEF InitMalloc, QuietBeforeDummy, BeforeDummy, Binding,
             Stages, PrivReady, NoWildAccess, RxCbHasPriv, CallbackHasPriv,
             EndpointUsedOnlyWhenCreated
  <1>3. CASE InitCreateEpt
    <2>1. TypeOK'
      <3>1. fr_ept' \in BOOLEAN  BY <1>3, Zenon DEF InitCreateEpt, TypeOK
      <3> QED  BY <1>3, <3>1 DEF InitCreateEpt, AfterEptError, TypeOK, FrPC
    <2> QED  BY <1>3, <2>1 DEF InitCreateEpt, AfterEptError, QuietBeforeDummy, BeforeDummy,
             Binding, Stages, PrivReady, NoWildAccess, RxCbHasPriv, CallbackHasPriv,
             EndpointUsedOnlyWhenCreated
  <1>4. CASE InitSetNetif
    <2>1. TypeOK'  BY <1>4 DEF InitSetNetif, TypeOK, FrPC
    <2> QED  BY <1>4, <2>1 DEF InitSetNetif, QuietBeforeDummy, BeforeDummy, Binding,
             Stages, PrivReady, NoWildAccess, RxCbHasPriv, CallbackHasPriv,
             EndpointUsedOnlyWhenCreated
  <1>5. CASE InitSetPriv
    <2>1. TypeOK'  BY <1>5 DEF InitSetPriv, SetPriv, TypeOK, FrPC
    <2> QED  BY <1>5, <2>1 DEF InitSetPriv, SetPriv, QuietBeforeDummy, BeforeDummy, Binding,
             Stages, PrivReady, NoWildAccess, RxCbHasPriv, CallbackHasPriv,
             EndpointUsedOnlyWhenCreated
  <1>6. CASE NetifInsert
    <2>1. TypeOK'  BY <1>6 DEF NetifInsert, TypeOK, FrPC
    <2> QED  BY <1>6, <2>1 DEF NetifInsert, QuietBeforeDummy, BeforeDummy, Binding,
             Stages, PrivReady, NoWildAccess, RxCbHasPriv, CallbackHasPriv,
             EndpointUsedOnlyWhenCreated
  <1>7. CASE NetifSetUp
    <2>1. out' \in [Sender -> Seq(Pbuf)]
      BY <1>7, ChainType, FrameAssumption DEF NetifSetUp, TypeOK, Sender
    <2>2. TypeOK'  BY <1>7, <2>1 DEF NetifSetUp, TypeOK, FrPC
    <2> QED  BY <1>7, <2>2 DEF NetifSetUp, QuietBeforeDummy, BeforeDummy, Binding,
             Stages, PrivReady, NoWildAccess, RxCbHasPriv, CallbackHasPriv,
             EndpointUsedOnlyWhenCreated
  <1>8. CASE \E f \in Frame : OutputStart(f)
    <2> PICK f \in Frame : OutputStart(f)  BY <1>8
    <2>1. out' \in [Sender -> Seq(Pbuf)]
      BY ChainType DEF OutputStart, TypeOK, Sender
    <2>2. TypeOK'  BY <2>1 DEF OutputStart, TypeOK
    <2> QED  BY <2>2 DEF OutputStart, QuietBeforeDummy, BeforeDummy, Binding,
             Stages, PrivReady, NoWildAccess, RxCbHasPriv, CallbackHasPriv,
             EndpointUsedOnlyWhenCreated
  <1>9. CASE \E c \in Sender : OutputSend(c)
    <2> PICK c \in Sender : OutputSend(c)  BY <1>9
    <2>1. out[c] \in Seq(Pbuf) /\ out[c] # <<>>  BY DEF OutputSend, TypeOK
    <2>2. Head(out[c]) \in Pbuf /\ Tail(out[c]) \in Seq(Pbuf)  BY <2>1, TailRing
    <2>3. out' \in [Sender -> Seq(Pbuf)]
      <3>1. CASE out' = [out EXCEPT ![c] = Tail(out[c])]  BY <2>2, <3>1 DEF TypeOK
      <3>2. CASE out' = [out EXCEPT ![c] = <<>>]  BY <3>2 DEF TypeOK
      <3>3. CASE out' = out  BY <3>3 DEF TypeOK
      <3> QED  BY <3>1, <3>2, <3>3 DEF OutputSend
    <2>4. to_lx' \in Seq(Pbuf) /\ Len(to_lx') <= RingSize
      <3>1. CASE MaySend /\ to_lx' = Append(to_lx, Head(out[c]))
        BY <2>2, <3>1, AppendRing DEF MaySend, TypeOK
      <3>2. CASE to_lx' = to_lx  BY <3>2 DEF TypeOK
      <3> QED  BY <3>1, <3>2 DEF OutputSend
    <2>5. TypeOK'  BY <2>3, <2>4 DEF OutputSend, TypeOK
    <2> QED  BY <2>5 DEF OutputSend, MaySend, QuietBeforeDummy, BeforeDummy, Binding,
             Stages, PrivReady, NoWildAccess, RxCbHasPriv, CallbackHasPriv,
             EndpointUsedOnlyWhenCreated
  (* Polling after network_init finds lept.priv set, because the endpoint
     exists only if network_init got beyond rpmsg_create_ept. *)
  <1>10. CASE EndpointCb
    <2>1. Tail(to_fr) \in Seq(Frame \cup {Dummy}) /\ Head(to_fr) \in Frame \cup {Dummy}
          /\ Len(Tail(to_fr)) <= Len(to_fr)
      BY <1>10, TailRing DEF EndpointCb, TypeOK
    <2>2. TypeOK'
      <3>1. Len(Tail(to_fr)) <= RingSize  BY <2>1, BoundAssumption DEF TypeOK
      <3> QED  BY <1>10, <2>1, <3>1, FrameAssumption DEF EndpointCb, Passes, TypeOK
    <2>3. ~early_poll => PrivReady
      BY <1>10 DEF EndpointCb, Polled, Stages
    <2> QED  BY <1>10, <2>2, <2>3 DEF EndpointCb, QuietBeforeDummy, BeforeDummy, Binding,
             Stages, PrivReady, NoWildAccess, RxCbHasPriv, CallbackHasPriv,
             EndpointUsedOnlyWhenCreated
  <1> QED  BY <1>1, <1>2, <1>3, <1>4, <1>5, <1>6, <1>7, <1>8, <1>9, <1>10 DEF InitStep

(* Every step of either end, or a stuttering step, keeps the invariant. *)
LEMMA LinkStep == LinkInv /\ [Next]_vars => LinkInv'
  <1> SUFFICES ASSUME LinkInv, [Next]_vars PROVE LinkInv'  OBVIOUS
  <1>1. CASE Next  BY <1>1, LinuxStep, FreertosStep DEF Next
  <1>2. CASE UNCHANGED vars
    <2> USE <1>2 DEF vars, linux, freertos, frInit, frSetup, frIO, frLink, lxIO, lxVars
    <2>1. TypeOK'  BY DEF LinkInv, TypeOK
    <2>2. (QuietBeforeDummy /\ Binding /\ Stages /\ NoWildAccess)'
      BY DEF LinkInv, QuietBeforeDummy, BeforeDummy, Binding, Stages, PrivReady,
             NoWildAccess, RxCbHasPriv, CallbackHasPriv, EndpointUsedOnlyWhenCreated
    <2> QED  BY <2>1, <2>2 DEF LinkInv
  <1> QED  BY <1>1, <1>2

-----------------------------------------------------------------------------
(***************************************************************************)
(* The whole invariant of the link holds in every reachable state.         *)
(***************************************************************************)
THEOREM LinkInvariant == Spec => []LinkInv
  BY InitLink, LinkStep, PTL DEF Spec

(***************************************************************************)
(* Type correctness: the rings never hold more than their buffers, and     *)
(* what low_level_output sends are pbufs of frames.                        *)
(***************************************************************************)
THEOREM LinkTypeCorrect == Spec => []TypeOK
  <1>1. LinkInv => TypeOK  BY DEF LinkInv
  <1> QED  BY <1>1, LinkInvariant, PTL

(***************************************************************************)
(* Neither end follows a null or uninitialised pointer in the first        *)
(* binding, with polling after network_init and with an accepted netif     *)
(* (rpmsg_eth_rx_cb, rpmsg_endpoint_cb, low_level_output).                 *)
(***************************************************************************)
THEOREM LinkNoWildAccess == Spec => []NoWildAccess
  <1>1. LinkInv => NoWildAccess  BY DEF LinkInv
  <1> QED  BY <1>1, LinkInvariant, PTL

(***************************************************************************)
(* In the first binding the comment of linux/rpmsg_eth.c, line 259, is     *)
(* true: FreeRTOS sends nothing before the fake first packet.  (The run    *)
(* link_rebind shows that a second binding breaks it.)                     *)
(***************************************************************************)
THEOREM FirstBindingFakePacketFirst == Spec => [](binds <= 1 => FakePacketComesFirst)
  <1>1. LinkInv => (binds <= 1 => FakePacketComesFirst)
    BY DEF LinkInv, TypeOK, QuietBeforeDummy, BeforeDummy, FakePacketComesFirst, Binding
  <1> QED  BY <1>1, LinkInvariant, PTL

=============================================================================
