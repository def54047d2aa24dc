----------------------------- MODULE TcpReceive -----------------------------
(***************************************************************************)
(* The receiving half of a TCP connection (core/tcp_in.c, with the window  *)
(* and the timers of core/tcp.c): what tcp_input does with a segment of an *)
(* established connection, the queue of out-of-sequence segments, data the *)
(* application refuses, and the window that is announced to the peer.      *)
(*                                                                         *)
(* The peer has N bytes and then a FIN to send.  It cuts them into         *)
(* segments anew whenever it likes, the network loses, repeats and         *)
(* reorders them: any segment the announced window allows may arrive at    *)
(* any time.  A segment's bytes are the numbers at, at+1, ...; the code    *)
(* only looks at its sequence number.                                      *)
(***************************************************************************)
EXTENDS Integers, Sequences, FiniteSets, FiniteSetsExt, SequencesExt

CONSTANTS
  N,           \* bytes before the FIN
  Wnd,         \* TCP_WND
  Mss,         \* TCP_MSS
  SeqSpace,    \* 2^32, the values of a sequence number
  WndSpace,    \* 2^16, the values of tcpwnd_size_t
  Iss          \* the sequence number before byte 1

ASSUME TcpReceiveAssumption ==
  /\ N \in Nat \ {0} /\ Wnd \in Nat \ {0} /\ Mss \in Nat \ {0}
  /\ SeqSpace \in Nat /\ WndSpace \in Nat /\ 2 * WndSpace <= SeqSpace /\ N + Wnd + 2 < WndSpace
  /\ Iss \in 0..(SeqSpace - 1)

VARIABLES
  pcb,         \* the receiving fields of struct tcp_pcb
  refused,     \* pcb->refused_data: its bytes, and whether a FIN follows them
  app,         \* the bytes the recv callback has taken
  read,        \* how many of them it has reported with tcp_recved
  eof,         \* the recv callback was told that the peer has closed
  fin_read     \* the application has reported the FIN too, as the netconn API does

vars == <<pcb, refused, app, read, eof, fin_read>>

(* The element of a set of one: {e : x \in {v}} evaluates v once. *)
Only(S) == CHOOSE x \in S : TRUE

Plus(a, n) == (a + n) % SeqSpace
Diff(a, b) == (a - b) % SeqSpace

(* TCP_SEQ_LT and its relatives. *)
SeqLT(a, b) == Diff(a, b) >= SeqSpace \div 2
SeqLEQ(a, b) == a = b \/ SeqLT(a, b)
Between(a, b, c) == SeqLEQ(b, a) /\ SeqLEQ(a, c)

Seqno(k) == Plus(Iss, k)
Segment(at, len, fin) == [seq |-> Seqno(at), at |-> at, len |-> len, fin |-> fin]
TcpLen(s) == s.len + (IF s.fin THEN 1 ELSE 0)
End(s) == Plus(s.seq, s.len)
Next1(s) == Plus(s.seq, TcpLen(s))
Bytes(s) == [i \in 1..s.len |-> s.at + i - 1]

NoData == [bytes |-> <<>>, fin |-> FALSE]

(* told is no field of struct tcp_pcb: it is what the last acknowledgement
   that reached the peer said. *)
Init ==
  /\ pcb = [state |-> "established", rcv_nxt |-> Seqno(1), rcv_wnd |-> Wnd, ann_wnd |-> Wnd,
            right_edge |-> Plus(Seqno(1), Wnd), ooseq |-> <<>>, ack |-> {},
            told |-> [ack |-> Seqno(1), edge |-> Plus(Seqno(1), Wnd)]]
  /\ refused = NoData /\ app = <<>> /\ read = 0 /\ eof = FALSE /\ fin_read = FALSE

-----------------------------------------------------------------------------
(* The announced window.  tcp_update_rcv_ann_wnd: the right edge moves only
   by a worthwhile step, and never back. *)
AnnStep == Min({Wnd \div 2, Mss})
Worthwhile(p) == SeqLEQ(Plus(p.right_edge, AnnStep), Plus(p.rcv_nxt, p.rcv_wnd))

AnnWndShut(p) == IF Worthwhile(p) THEN p.rcv_wnd ELSE 0      \* mutant: shut until it is worth while
AnnWndNoZero(p) ==                                   \* mutant: the edge is never behind rcv_nxt
  IF Worthwhile(p) THEN p.rcv_wnd ELSE Diff(p.right_edge, p.rcv_nxt)
AnnWnd(p) ==
  IF Worthwhile(p) THEN p.rcv_wnd
  ELSE IF SeqLT(p.right_edge, p.rcv_nxt) THEN 0
  ELSE Diff(p.right_edge, p.rcv_nxt)

UpdateAnn(p) == [p EXCEPT !.ann_wnd = AnnWnd(p)]

(* What becomes of an acknowledgement: it reaches the peer, the network loses
   it, ip_output fails after the header was made, or there is no memory. *)
Outcome == {"arrives", "lost", "not_sent", "no_memory"}
Sent == {"arrives", "lost"}
Told(p, out) ==
  IF out = "arrives" THEN [ack |-> p.rcv_nxt, edge |-> Plus(p.rcv_nxt, p.ann_wnd)] ELSE p.told

(* tcp_send_empty_ack *)
EmptyAck(p, out) ==
  [p EXCEPT !.right_edge = IF out = "no_memory" THEN @ ELSE Plus(p.rcv_nxt, p.ann_wnd),
            !.ack = IF out \in Sent THEN {} ELSE {"delay", "now"},
            !.told = Told(p, out)]

AckNow(p) == [p EXCEPT !.ack = @ \cup {"now"}]
Ack(p) == [p EXCEPT !.ack = IF "delay" \in @ THEN (@ \ {"delay"}) \cup {"now"} ELSE @ \cup {"delay"}]

(* tcp_output with nothing to send but an acknowledgement. *)
Output(p, out) == IF "now" \in p.ack THEN EmptyAck(p, out) ELSE p

-----------------------------------------------------------------------------
(* The out-of-sequence queue.  Covered: how many segments at the head of q
   end at e or before. *)
Covered(q, e) == Max({0} \cup {k \in 1..Len(q) : \A i \in 1..k : SeqLEQ(End(q[i]), e)})
HasFin(q) == \E i \in DOMAIN q : q[i].fin
UpTo(q, k) == SubSeq(q, 1, k)
Beyond(q, k) == SubSeq(q, k + 1, Len(q))

CutAt(s, q) ==
  IF q # <<>> /\ SeqLT(q[1].seq, Next1(s)) THEN [s EXCEPT !.len = Diff(q[1].seq, s.seq)] ELSE s

(* tcp_oos_insert_segment *)
OosInsert(s, q) ==
  IF s.fin THEN <<s>>
  ELSE LET k == Covered(q, End(s))
           t == CutAt(s, Beyond(q, k))
       IN  <<[t EXCEPT !.fin = HasFin(UpTo(q, k))]>> \o Beyond(q, k)

TrimEnd(t, s) == IF SeqLT(s.seq, End(t)) THEN [t EXCEPT !.len = Diff(s.seq, t.seq)] ELSE t

(* The new last segment of the queue, cut at the end of the window. *)
FitWindow(p, s) ==
  IF SeqLT(Plus(p.rcv_nxt, p.rcv_wnd), Next1(s))
    THEN [s EXCEPT !.fin = FALSE, !.len = Diff(Plus(p.rcv_nxt, p.rcv_wnd), s.seq)]
  ELSE s

OutOfSequence(p, s) ==
  LET q == p.ooseq
      before == Cardinality({i \in DOMAIN q : SeqLT(q[i].seq, s.seq)})
      prev == UpTo(q, before - 1) \o <<TrimEnd(q[before], s)>>
      same == before < Len(q) /\ q[before + 1].seq = s.seq
  IN  CASE q = <<>> -> <<s>>
        [] same /\ s.len <= q[before + 1].len -> q
        [] same /\ s.len > q[before + 1].len -> UpTo(q, before) \o OosInsert(s, Beyond(q, before))
        [] q # <<>> /\ ~same /\ before = 0 -> OosInsert(s, q)
        [] ~same /\ before \in 1..(Len(q) - 1) -> prev \o OosInsert(s, Beyond(q, before))
        [] ~same /\ before > 0 /\ before = Len(q) ->
             IF q[before].fin THEN q ELSE Append(prev, FitWindow(p, s))

(* How many segments at the head of q follow on nxt without a gap. *)
Follow(q, nxt) ==
  Max({0} \cup {k \in 1..Len(q) : q[1].seq = nxt /\ \A i \in 2..k : q[i].seq = Next1(q[i - 1])})

(* A segment that starts at rcv_nxt: what it and the queue now yield. *)
Clip(p, s) == IF TcpLen(s) > p.rcv_wnd THEN [s EXCEPT !.fin = FALSE, !.len = p.rcv_wnd] ELSE s

(* What of the queue the segment c covers goes, with its FIN. *)
Absorb(q, c) ==
  LET k == IF c.fin THEN Len(q) ELSE Covered(q, Next1(c))
  IN  [queue |-> Beyond(q, k), seg |-> CutAt([c EXCEPT !.fin = @ \/ HasFin(UpTo(q, k))], Beyond(q, k))]

(* The segments that go up together. *)
Taken(a) == <<a.seg>> \o UpTo(a.queue, Follow(a.queue, Next1(a.seg)))

Advance(p, queue, taken) ==
  LET nxt == Next1(Last(taken))
      got == [p EXCEPT !.rcv_nxt = nxt, !.ooseq = Beyond(queue, Len(taken) - 1),
                       !.rcv_wnd = (@ - Diff(nxt, p.rcv_nxt)) % WndSpace]
  IN  [pcb |-> Ack(UpdateAnn(got)), bytes |-> FlattenSeq([i \in DOMAIN taken |-> Bytes(taken[i])]),
       fin |-> HasFin(taken)]

InSequence(p, s) ==
  Only({Advance(p, a.queue, Taken(a)) : a \in {Absorb(p.ooseq, c) : c \in {Clip(p, s)}}})

(* The part of a segment that is new. *)
FrontTrimHeaderOnly(p, s) ==                         \* mutant: the payload is not moved
  LET off == Diff(p.rcv_nxt, s.seq)
  IN  IF Between(p.rcv_nxt, Plus(s.seq, 1), Plus(s.seq, TcpLen(s) - 1))
        THEN [s EXCEPT !.seq = p.rcv_nxt, !.len = @ - off]
      ELSE s
FrontTrim(p, s) ==
  LET off == Diff(p.rcv_nxt, s.seq)
  IN  IF Between(p.rcv_nxt, Plus(s.seq, 1), Plus(s.seq, TcpLen(s) - 1))
        THEN [s EXCEPT !.seq = p.rcv_nxt, !.at = @ + off, !.len = @ - off]
      ELSE s

InWindow(p, s) == Between(s.seq, p.rcv_nxt, Plus(p.rcv_nxt, p.rcv_wnd - 1))

(* A segment that is only checked: one without data, or after the FIN. *)
CheckOnlySilent(p, s) == p                           \* mutant: a repeated FIN is not answered
CheckOnly(p, s) == IF InWindow(p, s) THEN p ELSE AckNow(p)

(* tcp_receive: the pcb afterwards and what is passed up.  mem: the copy for
   the queue can be made; out: what becomes of an acknowledgement. *)
Receive(p, s, mem, out) ==
  LET t == FrontTrim(p, s)
      old == t = s /\ SeqLT(s.seq, p.rcv_nxt)
      p1 == IF old THEN AckNow(p) ELSE p
      p2 == IF mem THEN [p1 EXCEPT !.ooseq = OutOfSequence(p1, t)] ELSE p1
      nothing(q) == [pcb |-> q, bytes |-> <<>>, fin |-> FALSE]
  IN  CASE TcpLen(s) = 0 \/ p.state = "close_wait" -> nothing(CheckOnly(p, s))
        [] OTHER -> IF ~InWindow(p, t) THEN nothing(EmptyAck(p1, out))
                    ELSE IF t.seq = p.rcv_nxt THEN InSequence(p, t)
                    ELSE nothing(EmptyAck(p2, out))

(* tcp_process in ESTABLISHED and CLOSE_WAIT *)
Process(p, s, mem, out) ==
  LET r == Receive(p, s, mem, out)
  IN  IF r.fin THEN [r EXCEPT !.pcb = [AckNow(r.pcb) EXCEPT !.state = "close_wait"]] ELSE r

-----------------------------------------------------------------------------
(* Passing data up.  u is what the application has and what it refused:
   [refused, app, eof, wnd]. *)
GiveBackFinNot(w) == w                               \* mutant: nobody gives the FIN's octet back
GiveBackFin(w) == IF w # Wnd THEN w + 1 ELSE w

Close(u) == [u EXCEPT !.eof = TRUE, !.wnd = GiveBackFin(@)]

Deliver(u, bytes, fin, accept) ==
  LET got == IF bytes # <<>> /\ accept THEN [u EXCEPT !.app = @ \o bytes] ELSE u
  IN  IF bytes # <<>> /\ ~accept THEN [u EXCEPT !.refused = [bytes |-> bytes, fin |-> fin]]
      ELSE IF fin THEN Close(got) ELSE got

(* tcp_process_refused_data *)
ProcessRefused(u, accept) ==
  LET v == Deliver([u EXCEPT !.refused = NoData], u.refused.bytes, u.refused.fin, accept)
  IN  IF u.refused = NoData THEN u ELSE v

Up == [refused |-> refused, app |-> app, eof |-> eof, wnd |-> pcb.rcv_wnd]

SetUp(u, p) ==
  /\ refused' = u.refused /\ app' = u.app /\ eof' = u.eof
  /\ pcb' = [p EXCEPT !.rcv_wnd = u.wnd]

(* tcp_input, from the point where the pcb is found. *)
DropsSegment(u, s) == u.refused # NoData /\ TcpLen(s) > 0

Input(s, mem, again, accept, out) ==
  /\ \E u \in {ProcessRefused(Up, again)} : \E p \in {[pcb EXCEPT !.rcv_wnd = u.wnd]} :
       IF DropsSegment(u, s)
         THEN SetUp(u, IF p.ann_wnd = 0 THEN EmptyAck(p, out) ELSE p)
       ELSE \E r \in {Process(p, s, mem, out)} :
              SetUp(Deliver([u EXCEPT !.wnd = r.pcb.rcv_wnd], r.bytes, r.fin, accept),
                    Output(r.pcb, out))
  /\ UNCHANGED <<read, fin_read>>

(* What may be in the network: data up to the last edge that was announced,
   and the octet that probes a window that is shut, which the peer repeats
   although it was taken until it hears so. *)
Edge == Diff(pcb.right_edge, Iss)
Allowed(s) ==
  \/ s.at + TcpLen(s) <= Edge
  \/ SeqLEQ(pcb.right_edge, pcb.rcv_nxt) /\ s.at >= Edge /\ s.at + TcpLen(s) <= Edge + 1

Segments ==
  {s \in {Segment(at, len, fin) : at \in 1..(N + 2), len \in 0..Mss, fin \in BOOLEAN} :
     /\ s.at + s.len <= N + 1 \/ (s.at = N + 2 /\ TcpLen(s) = 0)
     /\ s.fin => s.at + s.len = N + 1
     /\ Allowed(s)}

Arrives == \E s \in Segments, mem, again, accept \in BOOLEAN, out \in Outcome :
             Input(s, mem, again, accept, out)

(* tcp_fasttmr *)
FastAck(p, out) == IF "delay" \in p.ack THEN [Output(AckNow(p), out) EXCEPT !.ack = {}] ELSE p

FastTmr(accept, out) ==
  /\ "delay" \in pcb.ack \/ refused # NoData
  /\ SetUp(ProcessRefused(Up, accept), FastAck(pcb, out))
  /\ UNCHANGED <<read, fin_read>>

(* tcp_free_ooseq, for a pool that ran dry or a queue nothing came for. *)
FreeOoseq ==
  /\ pcb.ooseq # <<>>
  /\ pcb' = [pcb EXCEPT !.ooseq = <<>>]
  /\ UNCHANGED <<refused, app, read, eof, fin_read>>

(* tcp_recved, for n octets the application has done with. *)
Wraps(p, n) == (p.rcv_wnd + n) % WndSpace <= p.rcv_wnd
Inflated(p, n) ==
  IF ~Wraps(p, n) THEN Min({p.rcv_wnd + n, Wnd})
  ELSE IF p.state = "close_wait" THEN Wnd ELSE p.rcv_wnd

UpdateThreshold == Min({Wnd \div 4, 4 * Mss})
Inflation(p) == IF Worthwhile(p) THEN Diff(Plus(p.rcv_nxt, p.rcv_wnd), p.right_edge) ELSE 0

Recved(n, out) ==
  LET p == [pcb EXCEPT !.rcv_wnd = Inflated(pcb, n)]
  IN  pcb' = IF Inflation(p) >= UpdateThreshold THEN Output(AckNow(UpdateAnn(p)), out) ELSE UpdateAnn(p)

DataDone(n, out) ==
  /\ n <= Len(app) - read
  /\ read' = read + n
  /\ Recved(n, out)
  /\ UNCHANGED <<refused, app, eof, fin_read>>

(* netconn_recv_data_tcp reports the FIN like one more octet, after the data. *)
FinPending == eof /\ read = Len(app) /\ ~fin_read
FinDone(out) ==
  /\ FinPending
  /\ fin_read' = TRUE
  /\ Recved(1, out)
  /\ UNCHANGED <<refused, app, read, eof>>

(* tcp_output_segment: data going the other way carries the acknowledgement
   and the window. *)
OutputSegment(out) ==
  LET p == [pcb EXCEPT !.right_edge = Plus(pcb.rcv_nxt, pcb.ann_wnd)]
  IN  /\ out # "no_memory"
      /\ pcb' = IF out \in Sent THEN [p EXCEPT !.ack = {}, !.told = Told(pcb, out)] ELSE p
      /\ UNCHANGED <<refused, app, read, eof, fin_read>>

Next ==
  \/ Arrives
  \/ \E accept \in BOOLEAN, out \in Outcome : FastTmr(accept, out)
  \/ FreeOoseq
  \/ \E n \in 1..Wnd, out \in Outcome : DataDone(n, out)
  \/ \E out \in Outcome : FinDone(out)
  \/ \E out \in Outcome : OutputSegment(out)

Spec == Init /\ [][Next]_vars

(* The first octet that the peer has not heard to be taken.  It sends a
   segment from there again, cut as it likes within the edge it was told, or
   the octet alone when that window is shut, until it hears of it. *)
Unacked == Diff(pcb.told.ack, Iss)
Unheard ==
  {s \in Segments :
     s.at = Unacked /\ TcpLen(s) > 0 /\ (TcpLen(s) = 1 \/ s.at + TcpLen(s) <= Diff(pcb.told.edge, Iss))}
Resent == \E s \in Unheard, mem, again, accept \in BOOLEAN : Input(s, mem, again, accept, "arrives")

(* Some retransmission and its answer get through, the fast timer runs, the
   application does not refuse data for ever and goes on reading. *)
FairSpec ==
  /\ Spec
  /\ WF_vars(Resent)
  /\ WF_vars(\E out \in Outcome : FastTmr(TRUE, out))
  /\ WF_vars(\E n \in 1..Wnd, out \in Outcome : DataDone(n, out))

-----------------------------------------------------------------------------
Received == app \o refused.bytes
FinTaken == pcb.state = "close_wait"

TypeOK ==
  /\ pcb.state \in {"established", "close_wait"}
  /\ pcb.rcv_nxt \in 0..(SeqSpace - 1) /\ pcb.right_edge \in 0..(SeqSpace - 1)
  /\ pcb.rcv_wnd \in 0..Wnd /\ pcb.ann_wnd \in 0..Wnd
  /\ pcb.ack \subseteq {"delay", "now"}
  /\ \A i \in DOMAIN pcb.ooseq : TcpLen(pcb.ooseq[i]) \in 1..Wnd
  /\ read \in 0..Len(app) /\ eof \in BOOLEAN /\ fin_read \in BOOLEAN

(* The application is given byte 1, 2, 3, ... each exactly once and in order,
   however the segments were cut, repeated and reordered, and rcv_nxt
   acknowledges exactly those bytes (and the FIN). *)
InOrder ==
  /\ \A i \in DOMAIN Received : Received[i] = i
  /\ pcb.rcv_nxt = Seqno(Len(Received) + 1 + (IF FinTaken THEN 1 ELSE 0))

(* The end of the stream is reported once all of it was taken, and the FIN of
   a connection in CLOSE_WAIT is either reported or waits behind the data the
   application refused. *)
EofLast ==
  /\ eof => app = [i \in 1..N |-> i] /\ FinTaken
  /\ FinTaken <=> eof \/ refused.fin

(***************************************************************************)
(* The stream the application sees is the stream the peer sent, up to its  *)
(* end (tcp_in.c:483-546, 1373-1625).                                      *)
(***************************************************************************)
StreamIntact == InOrder /\ EofLast

(* The out-of-sequence queue is ordered, without overlaps, above rcv_nxt,
   carries the bytes its sequence numbers stand for, and a FIN only at the
   end of the stream. *)
OoseqSane ==
  \A i \in DOMAIN pcb.ooseq :
    LET s == pcb.ooseq[i]
    IN  /\ s.seq = Seqno(s.at) /\ SeqLT(pcb.rcv_nxt, s.seq)
        /\ i > 1 => SeqLEQ(Next1(pcb.ooseq[i - 1]), s.seq)
        /\ s.fin => s.at + s.len = N + 1

(* Every octet of the window is free, with the application, or refused by it:
   none is lost and none counted twice, the FIN's included. *)
WindowConserved ==
  pcb.rcv_wnd = Wnd - (Len(app) - read) - Len(refused.bytes) - (IF refused.fin THEN 1 ELSE 0)

(* What was announced can be taken: the announced edge is never beyond the
   window there is, so nothing the peer may send is cut off. *)
EdgeHonest == SeqLEQ(pcb.right_edge, Plus(pcb.rcv_nxt, pcb.rcv_wnd))

(***************************************************************************)
(* The receiving fields of the connection agree with each other and with   *)
(* what the application holds (tcp_in.c:1050-1083, 1459-1625;              *)
(* tcp.c:929-1009).                                                        *)
(***************************************************************************)
ReceiverSane == OoseqSane /\ WindowConserved /\ EdgeHonest

(* The right edge the peer was told never moves back ("keep the right edge of
   window constant", tcp.c:947). *)
EdgeMonotone == [][SeqLEQ(pcb.right_edge, pcb'.right_edge)]_vars

(* The application gets the whole stream and its end, and the peer hears that
   both were taken, however many acknowledgements and window updates are lost
   or never sent (tcp.c:1502-1508, tcp_in.c:1450, 1872-1883). *)
StreamEnds == <>(eof /\ pcb.told.ack = Seqno(N + 2))
=============================================================================
