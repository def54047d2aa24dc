----------------------------- MODULE TcpipTimers -----------------------------
(***************************************************************************)
(* The tcpip thread waiting for a message while it serves timeouts         *)
(* (tcpip_timeouts_mbox_fetch, timeouts.c), on the clock and the mailbox   *)
(* of the FreeRTOS port (sys_now, sys_arch_mbox_fetch in sys_arch.c).      *)
(*                                                                         *)
(* Time is the port's tick count.  A u32_t is a number modulo Word, so     *)
(* that the model can go round the clock; left, which no code sees, is the *)
(* true time until each timeout is due.                                    *)
(***************************************************************************)
EXTENDS Integers, FiniteSets, SequencesExt

CONSTANTS
  Word,      \* the values of a u32_t
  MsPerSec,  \* the 1000 of sys_now
  Hz,        \* configTICK_RATE_HZ
  Cyclic,    \* the stack's cyclic timers
  TcpTmr,    \* the TCP timer, which runs only while there are connections
  OneShot,   \* timeouts of the application, set and cancelled under the core lock
  PoolSize,  \* MEMP_NUM_SYS_TIMEOUT
  Interval,  \* the period or delay of each, in ms
  MaxLate,   \* bound: how late, in ms, the tcpip thread may be kept
  MaxMsgs    \* bound: messages waiting in tcpip_mbox

Timer == Cyclic \cup {TcpTmr} \cup OneShot
TickMs == MsPerSec \div Hz     \* portTICK_RATE_MS
None == "none"

ASSUME ClockAssumption ==
  /\ Word \in Nat /\ Word % 4 = 0 /\ Hz \in Nat \ {0} /\ MsPerSec \in Nat \ {0}
  /\ MsPerSec % Hz = 0
ASSUME IntervalAssumption ==
  Interval \in [Timer -> 1..(Word \div 4)]   \* asserted by sys_timeout
ASSUME PoolAssumption ==
  /\ IsFiniteSet(Timer) /\ PoolSize \in Nat /\ Cardinality(Timer) <= PoolSize /\ None \notin Timer
  /\ TcpTmr \notin Cyclic \cup OneShot /\ Cyclic \cap OneShot = {}
ASSUME BoundsAssumption ==
  MaxLate \in Nat /\ MaxMsgs \in Nat

(* What sorting and serving by TIME_LESS_THAN needs: there is a cyclic timer
   (without one the thread may sleep for ever), the thread may be late by a
   tick, and intervals and lateness together fit a quarter of the word. *)
Quarter == Word \div 4
Margin ==
  /\ Cyclic # {} /\ TickMs <= MaxLate
  /\ \A tm \in Timer : Interval[tm] + MaxLate <= Quarter

VARIABLES
  ticks,  \* xTaskGetTickCount()
  list,   \* next_timeout: the timeouts in the order of their time
  due,    \* current_timeout_due_time
  pc,     \* where the tcpip thread is
  now,    \* the `now' of sys_check_timeouts
  cur,    \* the cyclic or TCP timer whose handler runs
  tcpActive, \* tcpip_tcp_timer_active
  pcbs,   \* tcp_active_pcbs or tcp_tw_pcbs is not empty
  wait,   \* ticks the mailbox will still block the thread
  msgs,   \* messages in tcpip_mbox
  left    \* true ms until each timeout is due

tcp == <<tcpActive, pcbs>>
vars == <<ticks, list, due, pc, now, cur, tcpActive, pcbs, wait, msgs, left>>

Forever == -1                          \* portMAX_DELAY
U32 == 0..(Word - 1)

TypeOK ==
  /\ ticks \in U32 /\ due \in U32 /\ now \in U32
  /\ list \in Seq([timer : Timer, time : U32])
  /\ pc \in {"again", "wait", "start", "check", "handler"}
  /\ cur \in Cyclic \cup {TcpTmr, None} /\ tcpActive \in BOOLEAN /\ pcbs \in BOOLEAN
  /\ wait \in U32 \cup {Forever}
  /\ msgs \in 0..MaxMsgs
  /\ left \in [Timer -> -MaxLate..Word]

-----------------------------------------------------------------------------
(* sys_now: the product overflows before it is divided. *)
SysNowWide == (ticks * MsPerSec) \div Hz           \* mutant: no overflow
SysNow == ((ticks * MsPerSec) % Word) \div Hz

(* TIME_LESS_THAN: t is before c, wraparound included. *)
TimeLessThan(t, c) == (t - c) % Word > (Word \div 2) - 1

(* sys_timeout_abs: before the first timeout that is later. *)
InsertFirst(l, e) == <<e>> \o l                    \* mutant: not by time
Insert(l, e) ==
  LET later == SelectInSeq(l, LAMBDA x : TimeLessThan(e.time, x.time))
  IN  InsertAt(l, IF later = 0 THEN Len(l) + 1 ELSE later, e)

Pending == {list[i].timer : i \in 1..Len(list)}

(* sys_timeout_abs does nothing when the pool is empty. *)
PoolUsedLate == Len(list) + (IF pc = "handler" THEN 1 ELSE 0)   \* mutant: freed after the handler
PoolUsed == Len(list)

Arm(tm, at) ==
  list' = IF PoolUsed < PoolSize THEN Insert(list, [timer |-> tm, time |-> at % Word]) ELSE list

(* sys_timeouts_init armed the cyclic timers, at tick 0 and in one go. *)
Init ==
  /\ ticks = 0 /\ due = 0 /\ now = 0
  /\ list \in {l \in SetToSeqs({[timer |-> c, time |-> Interval[c]] : c \in Cyclic}) :
                \A i, j \in DOMAIN l : i < j => l[i].time <= l[j].time}
  /\ pc = "again" /\ cur = None /\ wait = 0 /\ msgs = 0
  /\ tcpActive = FALSE /\ pcbs = FALSE
  /\ left = [tm \in Timer |-> IF tm \in Cyclic THEN Interval[tm] ELSE 0]

-----------------------------------------------------------------------------
(* The tick interrupt.  While its clock says that a timeout is due, the thread
   is kept from running for a bounded time. *)
Blocked == pc = "wait" /\ wait # 0 /\ msgs = 0
HasDue == pc = "handler" \/ (list # <<>> /\ ~TimeLessThan(SysNow, list[1].time))
Running == Pending \cup ({cur} \ {None})
Late(tm) == left[tm] - TickMs < -MaxLate

Tick ==
  /\ Blocked \/ ~HasDue \/ \A tm \in Running : ~Late(tm)
  /\ ticks' = (ticks + 1) % Word
  /\ wait' = IF pc = "wait" /\ wait > 0 THEN wait - 1 ELSE wait
  /\ left' = [tm \in Timer |-> IF tm \notin Running THEN left[tm]
                               ELSE IF Late(tm) THEN -MaxLate
                               ELSE left[tm] - TickMs]
  /\ UNCHANGED <<list, due, pc, now, cur, msgs, tcp>>

(* Any task posts a message. *)
Post ==
  /\ msgs < MaxMsgs
  /\ msgs' = msgs + 1
  /\ UNCHANGED <<ticks, list, due, pc, now, cur, wait, left, tcp>>

-----------------------------------------------------------------------------
(* sys_timeouts_sleeptime, in ms. *)
SleepTime ==
  IF list = <<>> THEN Forever
  ELSE IF TimeLessThan(list[1].time, SysNow) THEN 0
  ELSE (list[1].time - SysNow) % Word

(* How many ticks sys_arch_mbox_fetch blocks for that many milliseconds. *)
FetchTicksForever(ms) == Forever                   \* mutant: never times out
FetchTicks(ms) == IF ms = Forever THEN Forever ELSE ms \div TickMs

(* tcpip_timeouts_mbox_fetch, from the label: serve what is due, or wait for
   a message until something is. *)
Again ==
  /\ pc = "again"
  /\ \/ SleepTime = 0 /\ pc' = "start" /\ UNCHANGED wait
     \/ SleepTime # 0 /\ pc' = "wait" /\ wait' = FetchTicks(SleepTime)
  /\ UNCHANGED <<ticks, list, due, now, cur, msgs, left, tcp>>

(* sys_arch_mbox_fetch got a message, which the thread handles. *)
FetchMsg ==
  /\ pc = "wait" /\ msgs > 0
  /\ msgs' = msgs - 1
  /\ pc' = "again" /\ wait' = 0
  /\ UNCHANGED <<ticks, list, due, now, cur, left, tcp>>

(* sys_arch_mbox_fetch timed out. *)
FetchTimeout ==
  /\ pc = "wait" /\ wait = 0 /\ msgs = 0
  /\ pc' = "start"
  /\ UNCHANGED <<ticks, list, due, now, cur, wait, msgs, left, tcp>>

(* sys_check_timeouts: the clock is read once. *)
CheckStart ==
  /\ pc = "start"
  /\ now' = SysNow /\ pc' = "check"
  /\ UNCHANGED <<ticks, list, due, cur, wait, msgs, left, tcp>>

ExpiredSoon == list # <<>> /\ ~TimeLessThan(now + TickMs, list[1].time) \* mutant: a tick early
Expired == list # <<>> /\ ~TimeLessThan(now, list[1].time)

(* One expired timeout is taken off the list and its handler called. *)
CheckFire ==
  /\ pc = "check" /\ Expired
  /\ list' = Tail(list) /\ due' = list[1].time
  /\ \/ /\ list[1].timer \in Cyclic \cup {TcpTmr}
        /\ cur' = list[1].timer /\ pc' = "handler"
        /\ UNCHANGED left
     \/ /\ list[1].timer \in OneShot                \* the application's handler sets nothing again
        /\ left' = [left EXCEPT ![list[1].timer] = 0]
        /\ UNCHANGED <<cur, pc>>
  /\ UNCHANGED <<ticks, now, wait, msgs, tcp>>

(* lwip_cyclic_timer sets itself again, relative to when it was due, or to
   now if that is already over. *)
Overload == TimeLessThan((due + Interval[cur]) % Word, SysNow)

CyclicRearm ==
  /\ pc = "handler" /\ cur \in Cyclic
  /\ Arm(cur, IF Overload THEN SysNow + Interval[cur] ELSE due + Interval[cur])
  /\ left' = [left EXCEPT ![cur] = IF Overload THEN Interval[cur] ELSE @ + Interval[cur]]
  /\ pc' = "check" /\ cur' = None
  /\ UNCHANGED <<ticks, due, now, wait, msgs, tcp>>

(* tcpip_tcp_timer: tcp_tmr may drop the last connection, and then the timer
   stops. *)
TcpTimerStopsFlagUp(more) == UNCHANGED tcpActive              \* mutant: the flag stays set
TcpTimerStops(more) == tcpActive' = more

TcpTimer ==
  /\ pc = "handler" /\ cur = TcpTmr
  /\ \E more \in {pcbs, FALSE} :
       /\ pcbs' = more /\ TcpTimerStops(more)
       /\ IF more THEN Arm(TcpTmr, SysNow + Interval[TcpTmr]) ELSE UNCHANGED list
       /\ left' = [left EXCEPT ![TcpTmr] = IF more THEN Interval[TcpTmr] ELSE 0]
  /\ pc' = "check" /\ cur' = None
  /\ UNCHANGED <<ticks, due, now, wait, msgs>>

CheckDone ==
  /\ pc = "check" /\ ~Expired
  /\ pc' = "again" /\ now' = 0
  /\ UNCHANGED <<ticks, list, due, cur, wait, msgs, left, tcp>>

(* sys_timeout and sys_untimeout are called under the core lock: by another
   thread while the tcpip thread waits, or by the tcpip thread from a message
   it handles or from a handler. *)
CoreCall == pc \in {"wait", "again", "check"}

SysTimeout(tm) ==
  /\ CoreCall /\ tm \notin Pending
  /\ Arm(tm, SysNow + Interval[tm])
  /\ left' = [left EXCEPT ![tm] = Interval[tm]]
  /\ UNCHANGED <<ticks, due, pc, now, cur, wait, msgs, tcp>>

SysUntimeout(tm) ==
  /\ CoreCall /\ tm \in Pending
  /\ list' = RemoveFirstMatch(list, LAMBDA x : x.timer = tm)
  /\ left' = [left EXCEPT ![tm] = 0]
  /\ UNCHANGED <<ticks, due, pc, now, cur, wait, msgs, tcp>>

(* TCP_REG: a connection is registered; tcp_timer_needed. *)
TcpReg ==
  /\ CoreCall
  /\ pcbs' = TRUE /\ tcpActive' = TRUE
  /\ IF tcpActive THEN UNCHANGED <<list, left>>
     ELSE /\ Arm(TcpTmr, SysNow + Interval[TcpTmr])
          /\ left' = [left EXCEPT ![TcpTmr] = Interval[TcpTmr]]
  /\ UNCHANGED <<ticks, due, pc, now, cur, wait, msgs>>

(* TCP_RMV of the last one leaves the timer alone. *)
TcpRmv ==
  /\ CoreCall /\ pcbs
  /\ pcbs' = FALSE
  /\ UNCHANGED <<ticks, list, due, pc, now, cur, wait, msgs, left, tcpActive>>

-----------------------------------------------------------------------------
ThreadStep == \/ Again \/ FetchMsg \/ FetchTimeout \/ CheckStart \/ CheckFire
              \/ CyclicRearm \/ TcpTimer \/ CheckDone

Next ==
  \/ Tick \/ Post \/ ThreadStep
  \/ TcpReg \/ TcpRmv
  \/ \E tm \in OneShot : SysTimeout(tm) \/ SysUntimeout(tm)

Spec == Init /\ [][Next]_vars

(* Time goes on, however often MaxLate stops it to let the tcpip thread run,
   and the thread gets to run. *)
FairSpec == Spec /\ SF_vars(Tick) /\ WF_vars(ThreadStep)

-----------------------------------------------------------------------------
(* No timer of the stack is lost: each is in the list once or its handler
   runs, the TCP timer exactly while tcpip_tcp_timer_active says so (tcpip.c,
   timeouts.c, lines 137-176), and it does if there is a connection, although
   every timeout goes through the pool and back (lines 187-190). *)
NoTimerLost ==
  /\ Cardinality(Pending) = Len(list)
  /\ Cyclic \subseteq Running /\ (TcpTmr \in Running <=> tcpActive)
  /\ pcbs => tcpActive

(* The list stays in the order of due times across the wraparound of the
   clock (sys_timeout_abs, lines 205-220): no timeout hides behind a later
   one. *)
SortedByTime ==
  \A i, j \in 1..Len(list) : i < j => ~TimeLessThan(list[j].time, list[i].time)

(***************************************************************************)
(* The list holds every timer it should, once and in its place, whatever   *)
(* sets, cancels and serves timeouts in whatever order (timeouts.c, lines  *)
(* 137-221, 290-384).                                                      *)
(***************************************************************************)
ListSane == NoTimerLost /\ SortedByTime

(* sys_check_timeouts runs no handler before its time (line 373), although
   sys_arch_mbox_fetch rounds the wait down to whole ticks and returns early
   (sys_arch.c, line 243). *)
NeverEarly == pc = "check" /\ Expired => left[list[1].timer] <= 0

(* Every cyclic timer of the stack runs again and again, whatever messages
   and timeouts other threads add.  sys.h, line 447, says of the clock they
   are computed from "Don't care for wraparound, this is only used for time
   diffs". *)
TimersKeepRunning == \A c \in Cyclic : []<>(pc = "handler" /\ cur = c)

(* While there is a connection the TCP timer runs again and again, however
   often the last one goes and a new one comes, before or after the timer has
   noticed (tcp_timer_needed trusts a flag, line 171), and although the pool
   has no entry to spare (lines 187-190). *)
TcpTimerRuns == []<>(~pcbs \/ cur = TcpTmr)

(* A timeout that another thread sets under the core lock while the tcpip
   thread sleeps (sys_timeout does not wake it, tcpip.c, lines 103-105) is
   still served, or cancelled: the thread never sleeps past all of them. *)
TimeoutsServed == \A tm \in OneShot : []<>(tm \notin Pending)

=============================================================================
