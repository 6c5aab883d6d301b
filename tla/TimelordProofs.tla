--------------------------- MODULE TimelordProofs ---------------------------
(***************************************************************************)
(* The connection to a timelord, for every ping interval, every time for   *)
(* an answer shorter than it, and every length of the queues: one write at *)
(* a time, and a wait timer that only its own handler drops.               *)
(***************************************************************************)
EXTENDS TimelordClient, SequenceTheorems, FiniteSetTheorems, TLAPS

\* The provers every step below is tried with, unless it names one.
USE SMT, Zenon, SMTT(20), ZenonT(40), SMTT(40)

-----------------------------------------------------------------------------
(* Handlers in a sequence                                                   *)

\* Handler h is somewhere in s; it is there at most once
In(h, s) == \E i \in DOMAIN s : s[i] = h
Once(h, s) == \A i, j \in DOMAIN s : s[i] = h /\ s[j] = h => i = j

\* The handlers of the wait timer in s come before that of the ping timer
WaitFirst(s) ==
  \A i, j \in DOMAIN s : s[i] \in {"wait", "wait-aborted"} /\ s[j] = "ping" => i < j

\* At most one write is in flight, counting the one whose handler is about to run,
\* and while it is the queue is not empty.
WriteInv ==
  /\ writes \in {0, 1}
  /\ Once("written", ready)
  /\ writes = 1 => sending # << >> /\ send_buf = Head(sending) /\ ~In("written", ready)
  /\ In("written", ready) => sending # << >>

\* An armed wait timer ends before the armed ping timer, whose handler therefore
\* finds it gone; the connection is established once.
TimerInv ==
  /\ timer["wait"] # Off =>
       /\ timer["wait"] <= WaitTime
       /\ timer["ping"] # Off => timer["wait"] < timer["ping"]
       /\ ~In("ping", ready) /\ ~In("wait", ready) /\ ~In("wait-aborted", ready)
  /\ WaitFirst(ready) /\ Once("ping", ready)
  /\ In("ping", ready) => timer["ping"] = Off
  /\ Once("connected", ready)
  /\ st = "READY" => ~connect
  /\ st = "READY" \/ connect => ~In("connected", ready)
  /\ st = "READY" \/ connect \/ In("connected", ready) => timer["ping"] = Off /\ ~In("ping", ready)

\* What appending handlers does.
LEMMA ConcatFacts ==
  ASSUME NEW s \in Seq(Handlers), NEW t \in Seq(Handlers)
  PROVE  /\ s \o t \in Seq(Handlers)
         /\ \A h : In(h, s \o t) <=> In(h, s) \/ In(h, t)
         /\ \A h : Once(h, s) /\ Once(h, t) /\ ~(In(h, s) /\ In(h, t)) => Once(h, s \o t)
         /\ WaitFirst(s) /\ WaitFirst(t) /\ ~(In("ping", s) /\ (In("wait", t) \/ In("wait-aborted", t)))
              => WaitFirst(s \o t)
<1> DEFINE m == Len(s)
           n == Len(t)
           c == s \o t
<1>1. /\ m \in Nat /\ n \in Nat /\ c \in Seq(Handlers) /\ Len(c) = m + n
      /\ DOMAIN s = 1..m /\ DOMAIN t = 1..n /\ DOMAIN c = 1..(m + n)
      /\ \A i \in 1..m : c[i] = s[i]
      /\ \A i \in 1..n : c[m + i] = t[i]
  OBVIOUS
<1>2. \A i \in DOMAIN c : (i \in DOMAIN s /\ c[i] = s[i]) \/ (i - m \in DOMAIN t /\ c[i] = t[i - m] /\ i > m)
  <2> SUFFICES ASSUME NEW i \in DOMAIN c
               PROVE  (i \in DOMAIN s /\ c[i] = s[i]) \/ (i - m \in DOMAIN t /\ c[i] = t[i - m] /\ i > m)
    OBVIOUS
  <2>1. i \in Int /\ m + (i - m) = i
    BY <1>1
  <2>2. QED
    BY <1>1, <2>1
<1>3. (\A i \in DOMAIN s : i \in DOMAIN c /\ c[i] = s[i]) /\ (\A i \in DOMAIN t : m + i \in DOMAIN c /\ c[m + i] = t[i])
  BY <1>1
<1> HIDE DEF m, n, c
<1>4. ASSUME NEW h PROVE In(h, c) <=> In(h, s) \/ In(h, t)
  <2>1. In(h, c) => In(h, s) \/ In(h, t)
    BY <1>2 DEF In
  <2>2. In(h, s) \/ In(h, t) => In(h, c)
    BY <1>3 DEF In
  <2>3. QED
    BY <2>1, <2>2
<1>5. ASSUME NEW h, Once(h, s), Once(h, t), ~(In(h, s) /\ In(h, t)) PROVE Once(h, c)
  <2> SUFFICES ASSUME NEW i \in DOMAIN c, NEW k \in DOMAIN c, c[i] = h, c[k] = h PROVE i = k
    BY DEF Once
  <2>1. i \in DOMAIN s <=> k \in DOMAIN s
    BY <1>1, <1>2, <1>5 DEF In
  <2>2. CASE i \in DOMAIN s
    BY <1>3, <1>5, <2>1, <2>2 DEF Once
  <2>3. CASE i \notin DOMAIN s
    <3>1. i - m = k - m
      BY <1>2, <1>5, <2>1, <2>3 DEF Once
    <3>2. i \in Int /\ k \in Int /\ m \in Int
      BY <1>1
    <3>3. QED
      BY <3>1, <3>2
  <2>4. QED
    BY <2>2, <2>3
<1>6. ASSUME WaitFirst(s), WaitFirst(t), ~(In("ping", s) /\ (In("wait", t) \/ In("wait-aborted", t)))
      PROVE  WaitFirst(c)
  <2> SUFFICES ASSUME NEW i \in DOMAIN c, NEW k \in DOMAIN c, c[i] \in {"wait", "wait-aborted"}, c[k] = "ping"
               PROVE  i < k
    BY DEF WaitFirst
  <2>1. i \in Int /\ k \in Int /\ m \in Int /\ DOMAIN s = 1..m
    BY <1>1
  <2>2. CASE i \in DOMAIN s /\ k \in DOMAIN s
    BY <1>3, <1>6, <2>2 DEF WaitFirst
  <2>3. CASE i \in DOMAIN s /\ k \notin DOMAIN s
    BY <1>2, <2>1, <2>3
  <2>4. CASE i \notin DOMAIN s /\ k \in DOMAIN s
    <3>1. In("ping", s)
      BY <1>3, <2>4 DEF In
    <3>2. In("wait", t) \/ In("wait-aborted", t)
      BY <1>2, <2>4 DEF In
    <3>3. QED
      BY <1>6, <3>1, <3>2
  <2>5. CASE i \notin DOMAIN s /\ k \notin DOMAIN s
    <3>1. i - m < k - m
      BY <1>2, <1>6, <2>5 DEF WaitFirst
    <3>2. QED
      BY <2>1, <3>1
  <2>6. QED
    BY <2>2, <2>3, <2>4, <2>5
<1>7. QED
  BY <1>1, <1>4, <1>5, <1>6 DEF c

\* What taking the first handler does.
LEMMA TailFacts ==
  ASSUME NEW s \in Seq(Handlers), s # << >>
  PROVE  /\ Tail(s) \in Seq(Handlers) /\ Head(s) \in Handlers
         /\ \A h : In(h, s) <=> h = Head(s) \/ In(h, Tail(s))
         /\ \A h : Once(h, s) => Once(h, Tail(s)) /\ ~(h = Head(s) /\ In(h, Tail(s)))
         /\ WaitFirst(s) => /\ WaitFirst(Tail(s))
                            /\ Head(s) = "ping" => ~In("wait", s) /\ ~In("wait-aborted", s)
<1> DEFINE n == Len(s)
           t == Tail(s)
<1>1. /\ n \in Nat \ {0} /\ DOMAIN s = 1..n /\ Head(s) = s[1] /\ t \in Seq(Handlers) /\ Head(s) \in Handlers
      /\ DOMAIN t = 1..(n - 1) /\ \A i \in 1..(n - 1) : t[i] = s[i + 1]
  OBVIOUS
<1>2. \A i \in DOMAIN t : i \in Int /\ i + 1 \in DOMAIN s /\ t[i] = s[i + 1] /\ i + 1 # 1
  BY <1>1
<1>3. \A i \in DOMAIN s : i \in Int /\ (i = 1 \/ (i > 1 /\ i - 1 \in DOMAIN t /\ t[i - 1] = s[i]))
  <2> SUFFICES ASSUME NEW i \in DOMAIN s, i # 1 PROVE i \in Int /\ i > 1 /\ i - 1 \in DOMAIN t /\ t[i - 1] = s[i]
    BY <1>1
  <2>1. i \in Int /\ i > 1 /\ i - 1 \in 1..(n - 1) /\ (i - 1) + 1 = i
    BY <1>1
  <2>2. QED
    BY <1>1, <2>1
<1>4. 1 \in DOMAIN s /\ Head(s) = s[1] /\ t \in Seq(Handlers) /\ Head(s) \in Handlers
  BY <1>1
<1> HIDE DEF t, n
<1>5. ASSUME NEW h PROVE In(h, s) <=> h = Head(s) \/ In(h, t)
  <2>1. In(h, s) => h = Head(s) \/ In(h, t)
    BY <1>3, <1>4 DEF In
  <2>2. h = Head(s) \/ In(h, t) => In(h, s)
    BY <1>2, <1>4 DEF In
  <2>3. QED
    BY <2>1, <2>2
<1>6. ASSUME NEW h, Once(h, s) PROVE Once(h, t) /\ ~(h = Head(s) /\ In(h, t))
  <2>1. ASSUME NEW i \in DOMAIN t, NEW k \in DOMAIN t, t[i] = h, t[k] = h PROVE i = k
    <3>1. i + 1 = k + 1
      BY <1>2, <1>6, <2>1 DEF Once
    <3>2. QED
      BY <1>2, <3>1
  <2>2. ~(h = Head(s) /\ In(h, t))
    BY <1>2, <1>4, <1>6 DEF Once, In
  <2>3. QED
    BY <2>1, <2>2 DEF Once
<1>7. ASSUME WaitFirst(s)
      PROVE  WaitFirst(t) /\ (Head(s) = "ping" => ~In("wait", s) /\ ~In("wait-aborted", s))
  <2>1. ASSUME NEW i \in DOMAIN t, NEW k \in DOMAIN t, t[i] \in {"wait", "wait-aborted"}, t[k] = "ping" PROVE i < k
    <3>1. i + 1 < k + 1
      BY <1>2, <1>7, <2>1 DEF WaitFirst
    <3>2. QED
      BY <1>2, <3>1
  <2>2. ASSUME Head(s) = "ping" PROVE ~In("wait", s) /\ ~In("wait-aborted", s)
    <3> SUFFICES ASSUME NEW i \in DOMAIN s, s[i] \in {"wait", "wait-aborted"} PROVE FALSE
      BY DEF In
    <3>1. i < 1
      BY <1>4, <1>7, <2>2 DEF WaitFirst
    <3>2. QED
      BY <1>3, <3>1
  <2>3. QED
    BY <2>1, <2>2 DEF WaitFirst
<1>8. QED
  BY <1>4, <1>5, <1>6, <1>7 DEF t

\* The sequences of no and of one handler.
LEMMA ShortFacts ==
  /\ << >> \in Seq(Handlers) /\ (\A h : ~In(h, << >>) /\ Once(h, << >>)) /\ WaitFirst(<< >>)
  /\ \A x \in Handlers : /\ <<x>> \in Seq(Handlers) /\ WaitFirst(<<x>>)
                         /\ \A h : (In(h, <<x>>) <=> h = x) /\ Once(h, <<x>>)
  /\ \A s \in Seq(Handlers) : s \o << >> = s
  /\ \A s \in Seq(Handlers), x \in Handlers : Append(s, x) = s \o <<x>>
<1>1. << >> \in Seq(Handlers) /\ (\A h : ~In(h, << >>) /\ Once(h, << >>)) /\ WaitFirst(<< >>)
  BY DEF In, Once, WaitFirst
<1>2. ASSUME NEW x \in Handlers
      PROVE  /\ <<x>> \in Seq(Handlers) /\ WaitFirst(<<x>>)
             /\ \A h : (In(h, <<x>>) <=> h = x) /\ Once(h, <<x>>)
  <2>1. <<x>> \in Seq(Handlers) /\ DOMAIN <<x>> = {1} /\ <<x>>[1] = x
    OBVIOUS
  <2>2. QED
    BY <2>1 DEF In, Once, WaitFirst
<1>3. \A s \in Seq(Handlers) : s \o << >> = s
  BY ConcatEmptySeq
<1>4. \A s \in Seq(Handlers), x \in Handlers : Append(s, x) = s \o <<x>>
  BY AppendIsConcat
<1>5. QED
  BY <1>1, <1>2, <1>3, <1>4

-----------------------------------------------------------------------------
(* Types                                                                    *)

\* The constants as integers, and the time left of an armed timer.
LEMMA TimeFacts ==
  /\ SECONDS_TO_PING \in Int /\ CalcInterval \in Int /\ WaitTime \in Int /\ MaxLag \in Nat /\ Off \in Int
  /\ WaitTime < SECONDS_TO_PING /\ SECONDS_TO_PING < Off /\ CalcInterval < Off
  /\ {SECONDS_TO_PING, WaitTime, CalcInterval, Off} \subseteq Times
  /\ \A x \in Times : x \in Int /\ x <= Off /\ (x # Off => x < Off /\ x >= -MaxLag)
  /\ \A x \in Times : x # Off /\ x > -MaxLag => x - 1 \in Times \ {Off}
BY TimelordAssumption DEF WaitTime, Off, Times

\* Handlers that a call or another handler may put in ready: messages and handlers
\* of cancelled timers, that of the wait timer only if it was armed.
Plain(x) ==
  /\ x \in Seq(Handlers) /\ WaitFirst(x)
  /\ \A h \in {"written", "connected", "ping", "wait"} : ~In(h, x)
  /\ In("wait-aborted", x) => timer["wait"] # Off

\* What SendMessage and cancelling a timer put in ready.
LEMMA PlainFacts ==
  /\ Plain(<< >>)
  /\ \A m \in Messages : Plain(Posted(m))
  /\ \A t \in Timers : Plain(Aborted(t))
  /\ \A m \in Messages : ~In("wait-aborted", Posted(m))
  /\ \A t \in {"ping", "sender"} : ~In("wait-aborted", Aborted(t))
<1>1. Plain(<< >>)
  BY ShortFacts DEF Plain
<1>2. ASSUME NEW x \in Messages \cup {"ping-aborted", "sender-aborted"} PROVE Plain(<<x>>)
  <2>1. x \in Handlers /\ x \notin {"written", "connected", "ping", "wait", "wait-aborted"}
    BY DEF Handlers, Messages
  <2>2. QED
    BY <2>1, ShortFacts DEF Plain
<1>3. \A m \in Messages : Plain(Posted(m))
  BY <1>1, <1>2 DEF Posted
<1>4. ASSUME timer["wait"] # Off PROVE Plain(<<"wait-aborted">>)
  <2>1. "wait-aborted" \in Handlers
    BY DEF Handlers
  <2>2. QED
    BY <1>4, <2>1, ShortFacts DEF Plain
<1>5. /\ Aborted("ping") \in {<< >>, <<"ping-aborted">>}
      /\ Aborted("sender") \in {<< >>, <<"sender-aborted">>}
      /\ Aborted("wait") = IF timer["wait"] = Off THEN << >> ELSE <<"wait-aborted">>
  BY DEF Aborted
<1>6. \A t \in Timers : Plain(Aborted(t))
  BY <1>1, <1>2, <1>4, <1>5 DEF Timers
<1>7. \A x \in Messages \cup {"ping-aborted", "sender-aborted"} : x \in Handlers /\ x # "wait-aborted"
  BY DEF Handlers, Messages
<1>8. \A m \in Messages : ~In("wait-aborted", Posted(m))
  BY <1>7, ShortFacts DEF Posted
<1>9. \A t \in {"ping", "sender"} : ~In("wait-aborted", Aborted(t))
  BY <1>5, <1>7, ShortFacts
<1>10. QED
  BY <1>1, <1>3, <1>6, <1>8, <1>9

\* What may be said of handlers s once some were run and plain ones appended.
Follows(s) ==
  /\ s \in Seq(Handlers)
  /\ \A h \in {"written", "connected", "ping", "wait"} : In(h, s) => In(h, ready)
  /\ \A h \in {"written", "connected", "ping"} : Once(h, ready) => Once(h, s)
  /\ In("wait-aborted", s) => In("wait-aborted", ready) \/ timer["wait"] # Off
  /\ WaitFirst(ready) /\ (timer["wait"] # Off => ~In("ping", ready)) => WaitFirst(s)

\* Appending plain handlers.
LEMMA PlainConcat ==
  ASSUME NEW s, Follows(s), NEW x, Plain(x)
  PROVE  /\ Follows(s \o x)
         /\ \A h \in {"written", "connected", "ping", "wait"} : In(h, s \o x) => In(h, s)
<1>1. s \in Seq(Handlers) /\ x \in Seq(Handlers)
  BY DEF Follows, Plain
<1>2. \A h \in {"written", "connected", "ping", "wait"} : ~In(h, x) /\ Once(h, x)
  BY DEF Plain, In, Once
<1>3. /\ s \o x \in Seq(Handlers)
      /\ \A h \in {"written", "connected", "ping", "wait"} : In(h, s \o x) <=> In(h, s)
  BY <1>1, <1>2, ConcatFacts
<1>4. In("wait-aborted", s \o x) => In("wait-aborted", s) \/ timer["wait"] # Off
  BY <1>1, ConcatFacts DEF Plain
<1>5. \A h \in {"written", "connected", "ping"} : Once(h, s) => Once(h, s \o x)
  BY <1>1, <1>2, ConcatFacts
<1>6. WaitFirst(s) /\ (timer["wait"] # Off => ~In("ping", s)) => WaitFirst(s \o x)
  BY <1>1, <1>2, ConcatFacts DEF Plain
<1>7. QED
  BY <1>3, <1>4, <1>5, <1>6 DEF Follows

\* The handlers that are left when the first one runs.
LEMMA RestFollows ==
  ASSUME TypeOK, ready # << >>
  PROVE  /\ Follows(Rest) /\ Head(ready) \in Handlers /\ In(Head(ready), ready)
         /\ \A h : Once(h, ready) /\ h = Head(ready) => ~In(h, Rest)
BY TailFacts DEF TypeOK, Follows, Rest

\* The handlers themselves.
LEMMA ReadyFollows ==
  ASSUME TypeOK PROVE Follows(ready)
BY DEF TypeOK, Follows

-----------------------------------------------------------------------------
(* The steps                                                                *)

\* The handlers after one ran.
LEMMA HandlerReady ==
  ASSUME TypeOK, RunHandler
  PROVE  /\ Follows(ready')
         /\ \A h \in {"written", "connected", "ping", "wait"} : Once(h, ready) /\ h = Head(ready) => ~In(h, ready')
<1>1. ready # << >>
  BY DEF RunHandler
<1>2. "PING" \in Messages /\ "CALC" \in Messages /\ \A t \in {"ping", "wait", "sender"} : t \in Timers
  BY DEF Messages, Timers
<1>3. \/ ready' = Rest
      \/ \E t \in Timers : ready' = Rest \o Aborted(t)
      \/ \E m \in Messages, t \in Timers : ready' = Rest \o Posted(m) \o Aborted(t)
  BY <1>2 DEF RunHandler, OnConnected, OnConnectFailed, OnFailed, OnSend, OnWritten, OnMessage, OnPing, OnWait,
              OnSender, OnAborted
<1>4. CASE ready' = Rest
  BY <1>1, <1>4, RestFollows
<1>5. CASE \E t \in Timers : ready' = Rest \o Aborted(t)
  BY <1>1, <1>5, RestFollows, PlainFacts, PlainConcat
<1>6. CASE \E m \in Messages, t \in Timers : ready' = Rest \o Posted(m) \o Aborted(t)
  <2>1. PICK m \in Messages, t \in Timers : ready' = Rest \o Posted(m) \o Aborted(t)
    BY <1>6
  <2> DEFINE s == Rest \o Posted(m)
  <2>2. Follows(s) /\ \A h \in {"written", "connected", "ping", "wait"} : In(h, s) => In(h, Rest)
    BY <1>1, RestFollows, PlainFacts, PlainConcat
  <2>3. ready' = s \o Aborted(t)
    BY <2>1
  <2> HIDE DEF s
  <2>4. Follows(ready') /\ \A h \in {"written", "connected", "ping", "wait"} : In(h, ready') => In(h, s)
    BY <2>2, <2>3, PlainFacts, PlainConcat
  <2>5. QED
    BY <1>1, <2>2, <2>4, RestFollows
<1>7. QED
  BY <1>3, <1>4, <1>5, <1>6

\* The inductive invariant.
Inv == TypeOK /\ WriteInv /\ TimerInv

\* The parts that the steps change one at a time.
ConnType ==
  /\ st \in {"READY", "CONNECTING", "CONNECTED", "CLOSED"}
  /\ sending \in Seq(Messages) /\ Len(sending) <= MaxSending
  /\ send_buf \in Messages \cup {"none"} /\ writes \in Nat
  /\ connect \in BOOLEAN /\ reading \in BOOLEAN
PeerType == due \in 0..MaxDue /\ alive \in BOOLEAN /\ broken \in BOOLEAN
RestType == timer \in [Timers -> Times] /\ waitpong \in BOOLEAN /\ reported \in BOOLEAN /\ threw \in BOOLEAN

\* TypeOK is its parts.
LEMMA TypeParts == TypeOK <=> ready \in Seq(Handlers) /\ ConnType /\ PeerType /\ RestType
BY DEF TypeOK, ConnType, PeerType, RestType

\* The same of the state after a step.
LEMMA TypePartsNext == TypeOK' <=> ready' \in Seq(Handlers) /\ ConnType' /\ PeerType' /\ RestType'
BY DEF TypeOK, ConnType, PeerType, RestType, Times

\* A timer that is set or cancelled has a time that TypeOK allows.
LEMMA TimerType ==
  ASSUME NEW tm \in [Timers -> Times], NEW t \in Timers, NEW x \in {Off, SECONDS_TO_PING, WaitTime, CalcInterval}
  PROVE  /\ [tm EXCEPT ![t] = x] \in [Timers -> Times]
         /\ [tm EXCEPT ![t] = x][t] = x
         /\ \A u \in Timers \ {t} : [tm EXCEPT ![t] = x][u] = tm[u]
BY TimeFacts

\* Running the handler of a message, of a write or of a read: the queue of messages.
LEMMA SendStep ==
  ASSUME Inv, RunHandler
  PROVE  ConnType' /\ WriteInv'
<1>1. /\ Follows(ready') /\ ready # << >> /\ In(Head(ready), ready)
      /\ Once("written", ready) /\ "written" = Head(ready) => ~In("written", ready')
  BY HandlerReady, RestFollows DEF Inv, RunHandler
<1>2. Once("written", ready') /\ (In("written", ready') => In("written", ready) /\ Head(ready) # "written")
  BY <1>1 DEF Inv, WriteInv, Follows
<1>3. ConnType /\ WriteInv
  BY TypeParts DEF Inv
<1>4. CASE UNCHANGED <<writes, sending, send_buf>>
  <2>1. WriteInv'
    BY <1>2, <1>3, <1>4 DEF WriteInv
  <2>2. ConnType'
    BY <1>3, <1>4 DEF RunHandler, OnConnected, OnConnectFailed, OnFailed, OnSend, OnWritten, OnMessage, OnPing, OnWait,
              OnSender, OnAborted, DoReadNext, conn, ConnType
  <2>3. QED
    BY <2>1, <2>2
<1>5. ASSUME NEW m \in Messages, OnSend(m) PROVE ConnType' /\ WriteInv'
  <2>1. /\ sending' \in Seq(Messages) /\ Len(sending') <= MaxSending /\ UNCHANGED <<st, connect, reading>>
        /\ sending = << >> => sending' # << >> /\ Head(sending') \in Messages
        /\ sending # << >> => sending' # << >> /\ Head(sending') = Head(sending)
    <3>1. UNCHANGED <<st, connect, reading>>
      BY <1>5 DEF OnSend
    <3>2. CASE Len(sending) < MaxSending
      <4>1. sending' = Append(sending, m)
        BY <1>5, <3>2 DEF OnSend
      <4>2. sending \in Seq(Messages) /\ Len(sending) \in Nat /\ MaxSending \in Nat
        BY <1>3, TimelordAssumption DEF ConnType
      <4>3. /\ sending' \in Seq(Messages) /\ Len(sending') = Len(sending) + 1 /\ sending' # << >>
            /\ Head(sending') \in Messages /\ (sending # << >> => Head(sending') = Head(sending))
        BY <4>1, <4>2
      <4>4. QED
        BY <3>1, <3>2, <4>2, <4>3
    <3>3. CASE ~(Len(sending) < MaxSending)
      <4>1. sending' = sending /\ sending # << >>
        BY <1>5, <3>3, TimelordAssumption DEF OnSend
      <4>2. QED
        BY <1>3, <3>1, <4>1 DEF ConnType
    <3>4. QED
      BY <3>2, <3>3
  <2>2. CASE sending = << >>
    <3>1. writes = 0 /\ ~In("written", ready)
      BY <1>3, <2>2 DEF WriteInv
    <3>2. writes' = 1 /\ send_buf' = Head(sending')
      BY <1>5, <2>2, <3>1 DEF OnSend, DoSendNext
    <3>3. QED
      BY <1>2, <1>3, <2>1, <2>2, <3>1, <3>2 DEF WriteInv, ConnType
  <2>3. CASE sending # << >>
    <3>1. UNCHANGED <<writes, send_buf>>
      BY <1>5, <2>3 DEF OnSend
    <3>2. QED
      BY <1>2, <1>3, <2>1, <2>3, <3>1 DEF WriteInv, ConnType
  <2>4. QED
    BY <2>2, <2>3
<1>6. ASSUME Head(ready) = "written", OnWritten PROVE ConnType' /\ WriteInv'
  <2>1. sending # << >> /\ writes = 0 /\ ~In("written", ready')
    BY <1>1, <1>2, <1>3, <1>6 DEF WriteInv
  <2>2. /\ sending' \in Seq(Messages) /\ Len(sending') <= MaxSending /\ UNCHANGED <<st, connect, reading>>
        /\ sending' # << >> => Head(sending') \in Messages
    <3>1. sending' = Tail(sending) /\ UNCHANGED <<st, connect, reading>>
      BY <1>6 DEF OnWritten
    <3>2. sending \in Seq(Messages) /\ Len(sending) \in Nat /\ MaxSending \in Nat /\ Len(sending) <= MaxSending
      BY <1>3, TimelordAssumption DEF ConnType
    <3>3. Tail(sending) \in Seq(Messages) /\ Len(Tail(sending)) = Len(sending) - 1
      BY <2>1, <3>2
    <3>4. QED
      BY <3>1, <3>2, <3>3
  <2>3. IF sending' # << >> THEN writes' = 1 /\ send_buf' = Head(sending') ELSE UNCHANGED <<writes, send_buf>>
    BY <1>6, <2>1 DEF OnWritten, DoSendNext
  <2>4. QED
    BY <1>2, <1>3, <2>1, <2>2, <2>3 DEF WriteInv, ConnType
<1>7. QED
  BY <1>4, <1>5, <1>6 DEF RunHandler, OnConnected, OnConnectFailed, OnFailed, OnMessage, OnPing, OnWait,
              OnSender, OnAborted, conn

\* Running a handler: the timers.
LEMMA TimerStep ==
  ASSUME Inv, RunHandler
  PROVE  RestType' /\ TimerInv'
<1> DEFINE h == Head(ready)
<1>1. /\ ready' \in Seq(Handlers) /\ Follows(ready') /\ In(h, ready)
      /\ \A g \in {"written", "connected", "ping", "wait"} : Once(g, ready) /\ g = h => ~In(g, ready')
      /\ UNCHANGED threw
  BY HandlerReady, RestFollows DEF Inv, RunHandler, Follows
<1>2. RestType /\ TimerInv /\ timer \in [Timers -> Times] /\ {"ping", "wait", "sender"} \subseteq Timers
  BY TypeParts DEF Inv, RestType, Timers
<1>3. /\ WaitFirst(ready') /\ Once("ping", ready') /\ Once("connected", ready')
      /\ \A g \in {"connected", "ping", "wait"} : In(g, ready') => In(g, ready)
      /\ In("connected", ready') => h # "connected"
      /\ In("ping", ready') => h # "ping"
      /\ In("wait-aborted", ready') => In("wait-aborted", ready) \/ timer["wait"] # Off
  BY <1>1, <1>2 DEF Follows, TimerInv
<1> HIDE DEF h
<1>4. CASE UNCHANGED <<st, connect, timer>> /\ ready' = Rest
  <2>1. waitpong' \in BOOLEAN /\ reported' \in BOOLEAN
    BY <1>2, <1>4 DEF RunHandler, OnConnected, OnConnectFailed, OnFailed, OnSend, OnWritten, OnMessage, OnPing, OnWait,
              OnSender, OnAborted, ErrHandler, RestType
  <2>2. In("wait-aborted", ready') => In("wait-aborted", ready)
    BY <1>4, TailFacts DEF RunHandler, Rest, Inv, TypeOK
  <2>3. QED
    BY <1>1, <1>2, <1>3, <1>4, <2>1, <2>2 DEF TimerInv, RestType
<1>5. ASSUME h = "connected", OnConnected PROVE RestType' /\ TimerInv'
  <2>1. timer["ping"] = Off /\ st' = "CONNECTED" /\ ~connect' /\ UNCHANGED <<waitpong, reported>>
    BY <1>1, <1>2, <1>5 DEF TimerInv, OnConnected, RestType, h
  <2>2. /\ timer' \in [Timers -> Times] /\ timer'["ping"] = SECONDS_TO_PING
        /\ timer'["wait"] = timer["wait"]
    BY <1>2, <1>5, TimerType DEF OnConnected, DoWriteNextPing
  <2>3. ready' = Rest
    BY <1>2, <1>5, <2>1, RestFollows, ShortFacts DEF OnConnected, Aborted, Follows, RunHandler, Inv
  <2>4. In("wait-aborted", ready') => In("wait-aborted", ready)
    BY <2>3, TailFacts DEF RunHandler, Rest, Inv, TypeOK
  <2>5. timer'["wait"] # Off => timer'["wait"] < timer'["ping"]
    BY <1>2, <2>2, TimeFacts DEF TimerInv
  <2>6. ~In("ping", ready') /\ ~In("connected", ready')
    BY <1>1, <1>2, <1>3, <1>5 DEF TimerInv
  <2>7. QED
    BY <1>1, <1>2, <1>3, <2>1, <2>2, <2>4, <2>5, <2>6 DEF TimerInv, RestType
<1>6. CASE OnConnectFailed
  <2>1. UNCHANGED <<connect, timer, waitpong>> /\ st' = "CLOSED" /\ reported' = TRUE /\ ready' = Rest
    BY <1>6 DEF OnConnectFailed, ErrHandler
  <2>2. In("wait-aborted", ready') => In("wait-aborted", ready)
    BY <2>1, TailFacts DEF RunHandler, Rest, Inv, TypeOK
  <2>3. QED
    BY <1>1, <1>2, <1>3, <2>1, <2>2 DEF TimerInv, RestType
<1>7. ASSUME h = "ping", st = "CONNECTED", OnPing PROVE RestType' /\ TimerInv'
  <2>1. /\ timer["wait"] = Off /\ ~In("wait", ready) /\ ~In("wait-aborted", ready) /\ ~In("ping", ready')
        /\ ~connect /\ ~In("connected", ready)
    BY <1>1, <1>2, <1>3, <1>7, TailFacts DEF TimerInv, RunHandler, Inv, TypeOK, h
  <2>2. st' = "CONNECTED" /\ ~connect' /\ waitpong' = TRUE /\ UNCHANGED reported
    BY <1>7, <2>1 DEF OnPing, conn
  <2>3. timer' \in [Timers -> Times] /\ timer'["ping"] = SECONDS_TO_PING /\ timer'["wait"] = WaitTime
    <3> DEFINE tm == [timer EXCEPT !["wait"] = WaitTime]
    <3>1. tm \in [Timers -> Times] /\ tm["wait"] = WaitTime
      BY <1>2, TimerType
    <3>2. timer' = [tm EXCEPT !["ping"] = SECONDS_TO_PING]
      BY <1>7 DEF OnPing, DoWriteNextPing
    <3> HIDE DEF tm
    <3>3. QED
      BY <1>2, <3>1, <3>2, TimerType
  <2>4. QED
    BY <1>1, <1>2, <1>3, <2>1, <2>2, <2>3, TimeFacts DEF TimerInv, RestType
<1>8. ASSUME UNCHANGED <<st, connect>>, timer' = [timer EXCEPT !["wait"] = Off],
             waitpong' \in BOOLEAN, reported' \in BOOLEAN
      PROVE  RestType' /\ TimerInv'
  <2>1. timer' \in [Timers -> Times] /\ timer'["ping"] = timer["ping"] /\ timer'["wait"] = Off
    BY <1>2, <1>8, TimerType
  <2>2. QED
    BY <1>1, <1>2, <1>3, <1>8, <2>1 DEF TimerInv, RestType
<1>9. CASE OnSender
  <2>1. /\ timer' \in [Timers -> Times] /\ timer'["ping"] = timer["ping"] /\ timer'["wait"] = timer["wait"]
    BY <1>2, <1>9, TimerType DEF OnSender
  <2>2. In("wait-aborted", ready') => In("wait-aborted", ready)
    <3>1. /\ Rest \in Seq(Handlers) /\ Posted("CALC") \in Seq(Handlers) /\ Aborted("sender") \in Seq(Handlers)
          /\ ~In("wait-aborted", Posted("CALC")) /\ ~In("wait-aborted", Aborted("sender"))
          /\ In("wait-aborted", Rest) => In("wait-aborted", ready)
      BY <1>2, PlainFacts, TailFacts DEF Plain, Messages, RunHandler, Rest, Inv, TypeOK
    <3>2. ready' = Rest \o Posted("CALC") \o Aborted("sender")
      BY <1>9 DEF OnSender
    <3>3. QED
      BY <3>1, <3>2, ConcatFacts
  <2>3. UNCHANGED <<st, connect, waitpong, reported>>
    BY <1>9 DEF OnSender, conn
  <2>4. QED
    BY <1>1, <1>2, <1>3, <2>1, <2>2, <2>3 DEF TimerInv, RestType
<1>10. ASSUME NEW msg, OnMessage(msg) PROVE RestType' /\ TimerInv'
  BY <1>2, <1>4, <1>8, <1>10 DEF OnMessage, ErrHandler, RestType
<1>11. ASSUME NEW fired, OnWait(fired) PROVE RestType' /\ TimerInv'
  BY <1>2, <1>8, <1>11 DEF OnWait, ErrHandler, RestType, conn
<1>12. CASE OnFailed \/ OnAborted \/ OnWritten \/ \E m \in Messages : OnSend(m)
  BY <1>4, <1>12 DEF OnFailed, OnAborted, OnWritten, OnSend, conn
<1>13. ASSUME h = "ping", OnPing PROVE RestType' /\ TimerInv'
  BY <1>4, <1>7, <1>13 DEF OnPing, conn
<1>14. QED
  BY <1>5, <1>6, <1>9, <1>10, <1>11, <1>12, <1>13 DEF RunHandler, h

\* A handler keeps the invariant.
LEMMA HandlerStep ==
  ASSUME Inv, RunHandler PROVE Inv'
<1>1. ready' \in Seq(Handlers)
  BY HandlerReady DEF Inv, Follows
<1>2. PeerType'
  BY TypeParts DEF Inv, RunHandler, peer, PeerType
<1>3. QED
  BY <1>1, <1>2, SendStep, TimerStep, TypePartsNext DEF Inv

\* Calls of the owner that cancel a timer or send: ready grows by plain handlers.
LEMMA CallStep ==
  ASSUME Inv, NEW n \in {0, CalcInterval}, CallCalc(n) \/ Exit PROVE Inv'
<1>1. /\ ready \in Seq(Handlers) /\ timer \in [Timers -> Times] /\ {"ping", "wait", "sender"} \subseteq Timers
      /\ ConnType /\ PeerType /\ RestType /\ "CALC" \in Messages
  BY TypeParts DEF Inv, RestType, Timers, Messages
<1>2. /\ Posted("CALC") \in Seq(Handlers) /\ ~In("wait-aborted", Posted("CALC")) /\ Plain(Posted("CALC"))
      /\ \A t \in {"ping", "sender"} : Aborted(t) \in Seq(Handlers) /\ ~In("wait-aborted", Aborted(t)) /\ Plain(Aborted(t))
  BY <1>1, PlainFacts DEF Plain
<1>3. \/ ready' = ready \o Posted("CALC")
      \/ ready' = ready \o Posted("CALC") \o Aborted("sender")
      \/ ready' = ready \o Aborted("ping")
  BY DEF CallCalc, Calc, Exit
<1>4. Follows(ready')
  <2>1. Follows(ready) /\ Follows(ready \o Posted("CALC"))
    BY <1>2, ReadyFollows, PlainConcat DEF Inv
  <2>2. QED
    BY <1>2, <1>3, <2>1, PlainConcat
<1>5. In("wait-aborted", ready') => In("wait-aborted", ready)
  <2> DEFINE s == ready \o Posted("CALC")
  <2>1. s \in Seq(Handlers) /\ (In("wait-aborted", s) => In("wait-aborted", ready))
    BY <1>1, <1>2, ConcatFacts
  <2>2. \/ ready' = s
        \/ ready' = s \o Aborted("sender")
        \/ ready' = ready \o Aborted("ping")
    BY <1>3
  <2> HIDE DEF s
  <2>3. CASE ready' = s \o Aborted("sender")
    BY <1>2, <2>1, <2>3, ConcatFacts
  <2>4. CASE ready' = ready \o Aborted("ping")
    BY <1>1, <1>2, <2>4, ConcatFacts
  <2>5. QED
    BY <2>1, <2>2, <2>3, <2>4
<1>6. /\ WaitFirst(ready') /\ Once("ping", ready') /\ Once("connected", ready') /\ Once("written", ready')
      /\ \A g \in {"connected", "ping", "wait", "written"} : In(g, ready') => In(g, ready)
      /\ ready' \in Seq(Handlers)
  BY <1>4 DEF Follows, Inv, TimerInv, WriteInv
<1>7. /\ timer' \in [Timers -> Times] /\ timer'["wait"] = timer["wait"]
      /\ timer'["ping"] \in {timer["ping"], Off}
  <2>1. CASE Exit
    BY <1>1, <2>1, TimerType DEF Exit
  <2>2. CASE CallCalc(n)
    <3>1. CASE n = 0
      BY <1>1, <2>2, <3>1 DEF CallCalc, Calc
    <3>2. CASE n # 0
      BY <1>1, <2>2, <3>2, TimerType DEF CallCalc, Calc
    <3>3. QED
      BY <3>1, <3>2
  <2>3. QED
    BY <2>1, <2>2
<1>8. /\ UNCHANGED <<connect, reading, writes, sending, send_buf, waitpong, alive, due, reported, threw>>
      /\ st' \in {st, "CLOSED"} /\ broken' \in BOOLEAN
  BY <1>1 DEF CallCalc, Exit, FrontEndExit, conn, peer, PeerType
<1>9. ConnType' /\ PeerType' /\ RestType'
  BY <1>1, <1>7, <1>8 DEF ConnType, PeerType, RestType
<1>10. WriteInv'
  BY <1>6, <1>8 DEF Inv, WriteInv
<1>11. TimerInv'
  BY <1>5, <1>6, <1>7, <1>8 DEF Inv, TimerInv
<1>12. QED
  BY <1>6, <1>9, <1>10, <1>11, TypePartsNext DEF Inv

\* A completed operation puts its handler at the end of ready.
LEMMA AppendHandler ==
  ASSUME TypeOK, NEW x \in Handlers \ {"wait", "wait-aborted", "ping"}
  PROVE  LET s == Append(ready, x)
         IN  /\ s \in Seq(Handlers) /\ \A h : In(h, s) <=> In(h, ready) \/ h = x
             /\ \A h : Once(h, ready) /\ (h = x => ~In(h, ready)) => Once(h, s)
             /\ WaitFirst(ready) => WaitFirst(s)
<1>1. ready \in Seq(Handlers) /\ x \in Handlers
  BY DEF TypeOK
<1>2. Append(ready, x) = ready \o <<x>> /\ <<x>> \in Seq(Handlers) /\ WaitFirst(<<x>>)
      /\ \A h : (In(h, <<x>>) <=> h = x) /\ Once(h, <<x>>)
  BY <1>1, ShortFacts
<1> DEFINE t == <<x>>
<1>3. /\ t \in Seq(Handlers) /\ WaitFirst(t) /\ ~In("wait", t) /\ ~In("wait-aborted", t)
      /\ \A h : (In(h, t) <=> h = x) /\ Once(h, t)
  BY <1>2
<1> HIDE DEF t
<1>4. /\ ready \o t \in Seq(Handlers)
      /\ \A h : In(h, ready \o t) <=> In(h, ready) \/ In(h, t)
      /\ \A h : Once(h, ready) /\ Once(h, t) /\ ~(In(h, ready) /\ In(h, t)) => Once(h, ready \o t)
      /\ WaitFirst(ready) => WaitFirst(ready \o t)
  BY <1>1, <1>3, ConcatFacts
<1>5. Append(ready, x) = ready \o t
  BY <1>2 DEF t
<1>6. QED
  BY <1>3, <1>4, <1>5

\* Connecting, and the completion of operations on the socket.
LEMMA CompletionStep ==
  ASSUME Inv, Connect \/ ConnectCompletes \/ ReadCompletes \/ WriteCompletes PROVE Inv'
<1>1. TypeOK /\ ConnType /\ PeerType /\ RestType /\ WriteInv /\ TimerInv
  BY TypeParts DEF Inv
<1>2. {"connected", "connfail", "noresolve", "readerr", "writeerr", "written", "pong", "bad"}
        \subseteq Handlers \ {"wait", "wait-aborted", "ping"}
  BY DEF Handlers
<1>3. RestType' /\ timer' = timer
  BY <1>1 DEF Connect, ConnectCompletes, ReadCompletes, WriteCompletes, Rests, RestType
<1>4. PeerType'
  <2>1. due \in Nat /\ MaxDue \in Nat /\ due <= MaxDue
    BY <1>1, TimelordAssumption DEF PeerType
  <2>2. due' \in 0..MaxDue
    BY <1>1, <2>1 DEF Connect, ConnectCompletes, ReadCompletes, WriteCompletes, peer, PeerType
  <2>3. UNCHANGED <<alive, broken>>
    BY DEF Connect, ConnectCompletes, ReadCompletes, WriteCompletes, peer
  <2>4. QED
    BY <1>1, <2>2, <2>3 DEF PeerType
<1>5. CASE Connect
  <2>1. st = "READY" /\ st' = "CONNECTING" /\ UNCHANGED <<reading, writes, sending, send_buf>>
    BY <1>5 DEF Connect
  <2>2. \/ connect' = TRUE /\ UNCHANGED ready
        \/ ready' = Append(ready, "noresolve") /\ UNCHANGED connect
        \/ UNCHANGED <<connect, ready>>
    BY <1>5 DEF Connect
  <2>3. ready' \in Seq(Handlers) /\ WriteInv' /\ TimerInv'
    <3>1. CASE connect' = TRUE /\ UNCHANGED ready
      BY <1>1, <1>3, <2>1, <3>1 DEF WriteInv, TimerInv, TypeOK
    <3>2. CASE UNCHANGED <<connect, ready>>
      BY <1>1, <1>3, <2>1, <3>2 DEF WriteInv, TimerInv, TypeOK
    <3>3. CASE ready' = Append(ready, "noresolve") /\ UNCHANGED connect
      BY <1>1, <1>2, <1>3, <2>1, <3>3, AppendHandler DEF WriteInv, TimerInv
    <3>4. QED
      BY <2>2, <3>1, <3>2, <3>3
  <2>4. ConnType'
    BY <1>1, <2>1, <2>2 DEF ConnType
  <2>5. QED
    BY <1>3, <1>4, <2>3, <2>4, TypePartsNext DEF Inv
<1>6. CASE ConnectCompletes
  <2>1. /\ connect /\ connect' = FALSE /\ UNCHANGED <<st, reading, writes, sending, send_buf>>
        /\ ready' = Append(ready, "connected") \/ ready' = Append(ready, "connfail")
    BY <1>6 DEF ConnectCompletes
  <2>2. ready' \in Seq(Handlers) /\ WriteInv' /\ TimerInv'
    <3>1. CASE ready' = Append(ready, "connected")
      BY <1>1, <1>2, <1>3, <2>1, <3>1, AppendHandler DEF WriteInv, TimerInv
    <3>2. CASE ready' = Append(ready, "connfail")
      BY <1>1, <1>2, <1>3, <2>1, <3>2, AppendHandler DEF WriteInv, TimerInv
    <3>3. QED
      BY <2>1, <3>1, <3>2
  <2>3. ConnType'
    BY <1>1, <2>1 DEF ConnType
  <2>4. QED
    BY <1>3, <1>4, <2>2, <2>3, TypePartsNext DEF Inv
<1>7. CASE ReadCompletes
  <2>1. /\ reading' = FALSE /\ UNCHANGED <<st, connect, writes, sending, send_buf>>
        /\ \E x \in {"readerr", "pong", "bad"} : ready' = Append(ready, x)
    BY <1>7 DEF ReadCompletes
  <2>2. PICK x \in {"readerr", "pong", "bad"} : ready' = Append(ready, x)
    BY <2>1
  <2>3. ready' \in Seq(Handlers) /\ WriteInv' /\ TimerInv'
    BY <1>1, <1>2, <1>3, <2>1, <2>2, AppendHandler DEF WriteInv, TimerInv
  <2>4. ConnType'
    BY <1>1, <2>1 DEF ConnType
  <2>5. QED
    BY <1>3, <1>4, <2>3, <2>4, TypePartsNext DEF Inv
<1>8. CASE WriteCompletes
  <2>1. /\ writes > 0 /\ writes' = writes - 1 /\ UNCHANGED <<st, connect, reading, sending, send_buf>>
        /\ ready' = Append(ready, "writeerr") \/ ready' = Append(ready, "written")
    BY <1>8 DEF WriteCompletes
  <2>2. writes = 1 /\ writes' = 0 /\ sending # << >> /\ ~In("written", ready)
    BY <1>1, <2>1 DEF WriteInv
  <2>3. ready' \in Seq(Handlers) /\ WriteInv' /\ TimerInv'
    <3>1. CASE ready' = Append(ready, "writeerr")
      BY <1>1, <1>2, <1>3, <2>1, <2>2, <3>1, AppendHandler DEF WriteInv, TimerInv
    <3>2. CASE ready' = Append(ready, "written")
      BY <1>1, <1>2, <1>3, <2>1, <2>2, <3>2, AppendHandler DEF WriteInv, TimerInv
    <3>3. QED
      BY <2>1, <3>1, <3>2
  <2>4. ConnType'
    BY <1>1, <2>1, <2>2 DEF ConnType
  <2>5. QED
    BY <1>3, <1>4, <2>3, <2>4, TypePartsNext DEF Inv
<1>9. QED
  BY <1>5, <1>6, <1>7, <1>8

\* The orders in which timers may be found: each timer once.
LEMMA OrderFacts ==
  ASSUME NEW due_timers \in SUBSET Timers, NEW order \in SetToSeqs(due_timers)
  PROVE  /\ order \in Seq(Handlers)
         /\ \A i \in DOMAIN order : order[i] \in due_timers
         /\ \A i, j \in DOMAIN order : i # j => order[i] # order[j]
<1>1. IsFiniteSet(Timers)
  <2>1. IsFiniteSet({"ping"}) /\ IsFiniteSet({"ping"} \cup {"wait"})
    BY FS_Singleton, FS_AddElement
  <2>2. IsFiniteSet(({"ping"} \cup {"wait"}) \cup {"sender"})
    BY <2>1, FS_AddElement
  <2>3. Timers = ({"ping"} \cup {"wait"}) \cup {"sender"}
    BY DEF Timers
  <2>4. QED
    BY <2>2, <2>3
<1>2. Cardinality(due_timers) \in Nat
  BY <1>1, FS_Subset, FS_CardinalityType
<1>3. order \in [1..Cardinality(due_timers) -> due_timers]
  BY DEF SetToSeqs
<1>4. \A i, j \in 1..Cardinality(due_timers) : i # j => order[i] # order[j]
  BY DEF SetToSeqs
<1>5. order \in Seq(Handlers)
  <2>1. order \in [1..Cardinality(due_timers) -> Handlers]
    BY <1>3 DEF Handlers
  <2>2. QED
    BY <1>2, <2>1
<1>6. QED
  BY <1>3, <1>4, <1>5

\* Timers fire: the wait timer always fires with the ping timer, and before it.
LEMMA ExpireStep ==
  ASSUME Inv, Expire PROVE Inv'
<1> DEFINE due_timers == {t \in Timers : timer[t] # Off /\ timer[t] <= 0}
<1>1. PICK order \in SetToSeqs(due_timers) :
        /\ \A i, j \in DOMAIN order : i < j => timer[order[i]] <= timer[order[j]]
        /\ ready' = ready \o order
  BY DEF Expire
<1>2. /\ timer' = [t \in Timers |-> IF t \in due_timers THEN Off ELSE timer[t]]
      /\ UNCHANGED <<conn, waitpong, peer, reported, threw>>
  BY DEF Expire
<1>3. ready \in Seq(Handlers) /\ ConnType /\ PeerType /\ RestType /\ WriteInv /\ TimerInv
  BY TypeParts DEF Inv
<1>4. /\ "ping" \in Timers /\ "wait" \in Timers /\ Off \in Times
      /\ \A t \in Timers : timer[t] \in Times /\ timer[t] \in Int
  BY <1>3, TimeFacts DEF RestType, Timers
<1>5. /\ order \in Seq(Handlers) /\ \A i \in DOMAIN order : order[i] \in due_timers
      /\ \A i, j \in DOMAIN order : i # j => order[i] # order[j]
  BY OrderFacts
<1>6. /\ \A h : Once(h, order)
      /\ \A h : In(h, order) => h \in Timers /\ timer[h] # Off /\ timer[h] <= 0 /\ timer'[h] = Off
  BY <1>2, <1>5 DEF Once, In
<1>7. timer["wait"] # Off /\ timer["ping"] # Off => timer["wait"] < timer["ping"]
  BY <1>3 DEF TimerInv
<1>8. WaitFirst(order)
  <2> SUFFICES ASSUME NEW i \in DOMAIN order, NEW k \in DOMAIN order,
                      order[i] \in {"wait", "wait-aborted"}, order[k] = "ping"
               PROVE  i < k
    BY DEF WaitFirst
  <2>1. order[i] \in Timers /\ timer[order[i]] # Off /\ timer["ping"] # Off
    BY <1>5
  <2>2. order[i] = "wait"
    BY <2>1 DEF Timers
  <2>3. timer[order[i]] < timer[order[k]]
    BY <1>7, <2>1, <2>2
  <2>4. i \in Int /\ k \in Int
    BY <1>5
  <2>5. ~(k < i) /\ k # i
    BY <1>1, <1>4, <2>1, <2>2, <2>3
  <2>6. QED
    BY <2>4, <2>5
<1>9. /\ timer'["wait"] = IF "wait" \in due_timers THEN Off ELSE timer["wait"]
      /\ timer'["ping"] = IF "ping" \in due_timers THEN Off ELSE timer["ping"]
      /\ timer' \in [Timers -> Times]
  BY <1>2, <1>4
<1>10. In("ping", order) => timer'["wait"] = Off /\ timer'["ping"] = Off /\ timer["ping"] # Off
  BY <1>4, <1>6, <1>7, <1>9
<1>11. In("wait", order) => timer["wait"] # Off /\ timer'["wait"] = Off
  BY <1>6
<1>12. \A h \in {"written", "connected", "wait-aborted"} : ~In(h, order)
  BY <1>6 DEF Timers
<1> HIDE DEF due_timers
<1>13. /\ ready' \in Seq(Handlers)
       /\ \A h : In(h, ready') <=> In(h, ready) \/ In(h, order)
       /\ \A h : Once(h, ready) /\ ~(In(h, ready) /\ In(h, order)) => Once(h, ready')
       /\ WaitFirst(ready) /\ ~(In("ping", ready) /\ In("wait", order)) => WaitFirst(ready')
  BY <1>1, <1>3, <1>5, <1>6, <1>8, <1>12, ConcatFacts
<1>14. timer'["wait"] # Off => timer'["wait"] = timer["wait"]
  BY <1>9
<1>15. timer'["ping"] # Off => timer'["ping"] = timer["ping"]
  BY <1>9
<1>16. timer["ping"] = Off => timer'["ping"] = Off
  BY <1>9
<1>17. UNCHANGED <<st, connect, writes, sending, send_buf>>
  BY <1>2 DEF conn
<1>18. TimerInv'
  BY <1>3, <1>10, <1>11, <1>12, <1>13, <1>14, <1>15, <1>16, <1>17 DEF TimerInv
<1>19. WriteInv'
  BY <1>3, <1>12, <1>13, <1>17 DEF WriteInv
<1>20. ConnType' /\ PeerType' /\ RestType'
  BY <1>2, <1>3, <1>9 DEF conn, peer, ConnType, PeerType, RestType
<1>21. QED
  BY <1>13, <1>18, <1>19, <1>20, TypePartsNext DEF Inv

\* Time passes for all timers alike.
LEMMA TickStep ==
  ASSUME Inv, Tick PROVE Inv'
<1>1. /\ timer' = [t \in Timers |-> IF timer[t] = Off THEN Off ELSE timer[t] - 1]
      /\ \A t \in Timers : timer[t] # Off => timer[t] > -MaxLag
      /\ UNCHANGED <<conn, ready, waitpong, peer, reported, threw>>
  BY DEF Tick
<1>2. ready \in Seq(Handlers) /\ ConnType /\ PeerType /\ RestType /\ WriteInv /\ TimerInv
  BY TypeParts DEF Inv
<1>3. ASSUME NEW t \in Timers
      PROVE  /\ timer[t] \in Times /\ timer[t] \in Int /\ timer'[t] \in Times
             /\ timer'[t] = Off <=> timer[t] = Off
             /\ timer[t] # Off => timer'[t] = timer[t] - 1
  BY <1>1, <1>2, TimeFacts DEF RestType
<1>4. "ping" \in Timers /\ "wait" \in Timers
  BY DEF Timers
<1>5. UNCHANGED <<st, connect, reading, writes, sending, send_buf, ready>>
  BY <1>1 DEF conn
<1>6. timer'["wait"] # Off => /\ timer'["wait"] <= WaitTime
                              /\ timer'["ping"] # Off => timer'["wait"] < timer'["ping"]
  BY <1>2, <1>3, <1>4, TimeFacts DEF TimerInv
<1>7. TimerInv'
  BY <1>2, <1>3, <1>4, <1>5, <1>6 DEF TimerInv
<1>8. WriteInv'
  BY <1>2, <1>5 DEF WriteInv
<1>9. timer' \in [Timers -> Times]
  BY <1>1, <1>3
<1>10. ConnType' /\ PeerType' /\ RestType'
  BY <1>1, <1>2, <1>5, <1>9 DEF peer, ConnType, PeerType, RestType
<1>11. QED
  BY <1>2, <1>5, <1>7, <1>8, <1>10, TypePartsNext DEF Inv

\* The environment, and steps that change nothing.
LEMMA EnvironmentStep ==
  ASSUME Inv, PeerDies \/ ConnectionBreaks \/ UNCHANGED vars PROVE Inv'
<1>1. ready \in Seq(Handlers) /\ ConnType /\ PeerType /\ RestType /\ WriteInv /\ TimerInv
  BY TypeParts DEF Inv
<1>2. UNCHANGED <<conn, ready, timer, waitpong, threw>>
  BY DEF PeerDies, ConnectionBreaks, vars, Rests
<1>3. reported' \in BOOLEAN
  BY <1>1 DEF PeerDies, ConnectionBreaks, vars, Rests, RestType
<1>4. PeerType'
  <2>1. due \in 0..MaxDue /\ MaxDue \in Nat
    BY <1>1, TimelordAssumption DEF PeerType
  <2>2. due' \in 0..MaxDue
    BY <2>1 DEF PeerDies, ConnectionBreaks, vars, peer
  <2>3. alive' \in BOOLEAN /\ broken' \in BOOLEAN
    BY <1>1 DEF PeerDies, ConnectionBreaks, vars, peer, PeerType
  <2>4. QED
    BY <2>2, <2>3 DEF PeerType
<1>5. ConnType' /\ RestType' /\ WriteInv' /\ TimerInv'
  BY <1>1, <1>2, <1>3 DEF conn, ConnType, RestType, WriteInv, TimerInv
<1>6. QED
  BY <1>1, <1>2, <1>4, <1>5, TypePartsNext DEF Inv

-----------------------------------------------------------------------------
(* The theorems                                                             *)

\* The inductive invariant holds in every reachable state of the connection.
THEOREM InvHolds == Spec => []Inv
<1>1. Init => Inv
  <2> SUFFICES ASSUME Init PROVE Inv
    OBVIOUS
  <2>1. ready = << >> /\ << >> \in Seq(Handlers)
    BY ShortFacts DEF Init
  <2>2. ConnType /\ PeerType
    <3>1. sending \in Seq(Messages) /\ Len(sending) <= MaxSending /\ due \in 0..MaxDue
      <4>1. sending = << >> /\ Len(<< >>) = 0 /\ << >> \in Seq(Messages) /\ due = 0
        BY DEF Init
      <4>2. 0 <= MaxSending /\ 0 \in 0..MaxDue
        BY TimelordAssumption
      <4>3. QED
        BY <4>1, <4>2
    <3>2. QED
      BY <3>1 DEF Init, ConnType, PeerType
  <2>3. RestType
    BY TimeFacts DEF Init, RestType
  <2>4. timer["ping"] = Off /\ timer["wait"] = Off
    BY DEF Init, Timers
  <2>5. WriteInv
    BY ShortFacts DEF Init, WriteInv
  <2>6. TimerInv
    BY <2>4, ShortFacts DEF Init, TimerInv
  <2>7. QED
    BY <2>1, <2>2, <2>3, <2>5, <2>6, TypeParts DEF Inv
<1>2. Inv /\ [Next]_vars => Inv'
  BY HandlerStep, CallStep, CompletionStep, ExpireStep, TickStep, EnvironmentStep DEF Next
<1>3. QED
  BY <1>1, <1>2, PTL DEF Spec

\* send_buf_ is never filled while a write from it is in flight, however many messages
\* are queued and whichever writes fail (FrontEndClient::SendMessage, DoSendNext).
THEOREM OneWriteTheorem == Spec => []OneWrite
<1>1. Inv => OneWrite
  BY DEF Inv, WriteInv, OneWrite
<1>2. QED
  BY <1>1, InvHolds, PTL

\* The handler of DoWaitPong never finds the timer of a newer ping in
\* ptimer_waitpong_: for all intervals with WAIT_PONG_TIMEOUT_SECONDS below
\* SECONDS_TO_PING, and however late the io_context runs.
THEOREM WaitTimerIsOwnTheorem == Spec => []WaitTimerIsOwn
<1>1. Inv => WaitTimerIsOwn
  BY DEF Inv, TimerInv, In, WaitTimerIsOwn
<1>2. QED
  BY <1>1, InvHolds, PTL
=============================================================================
