--------------------------- MODULE TimelordClient ---------------------------
(***************************************************************************)
(* The connection of a node to a timelord: FrontEndClient, which owns the  *)
(* socket and the queue of outgoing messages, and TimelordClient, which    *)
(* sends a ping every minute and gives an answer ten seconds.              *)
(*                                                                         *)
(* Everything runs as completion handlers of one io_context.  A pending    *)
(* operation (connect, read, write, timer) completes at some point, which  *)
(* puts its handler at the end of ready; RunHandler takes the first one.   *)
(* Cancelling a timer that is still armed puts its handler there at once   *)
(* with an error; cancelling one whose handler is already there does       *)
(* nothing.  That is what the code relies on of asio, which is external.   *)
(*                                                                         *)
(* Time is counted in ticks: timer[t] is the time left, negative when the  *)
(* io_context is late.  A message that only calls a callback of the owner  *)
(* (PROOF, CALC_REPLY) changes nothing here and is left out.               *)
(***************************************************************************)
EXTENDS Integers, Sequences, SequencesExt

CONSTANTS SECONDS_TO_PING,            \* ping interval, in ticks
          WAIT_PONG_TIMEOUT_SECONDS,  \* time for an answer, in ticks
          CalcInterval,               \* interval_secs of Calc, in ticks
          MaxLag,      \* bound: how many ticks the io_context may find a timer late
          MaxReady,    \* bound: handlers ready while time passes; below it, and with
                       \* nothing to send, Calc is called; below it a bad message comes
          MaxSending,  \* bound on sending_msgs_; only a stuck connection reaches it
          MaxDue       \* bound on the pings that are not answered yet

ASSUME TimelordAssumption ==
  /\ WAIT_PONG_TIMEOUT_SECONDS \in Nat \ {0}
  /\ SECONDS_TO_PING \in Nat /\ WAIT_PONG_TIMEOUT_SECONDS < SECONDS_TO_PING
  /\ CalcInterval \in Nat \ {0}
  /\ MaxLag \in Nat /\ MaxReady \in Nat /\ MaxSending \in Nat \ {0} /\ MaxDue \in Nat

Timers == {"ping", "wait", "sender"}  \* timer_pingpong_, ptimer_waitpong_, ptimer_sender_
Off == SECONDS_TO_PING + CalcInterval + 1  \* more than any time left

Messages == {"PING", "CALC"}

VARIABLES st,        \* FrontEndClient::st_
          ready,     \* handlers the io_context will run, oldest first
          connect,   \* async_connect is pending
          reading,   \* async_read_until is pending
          writes,    \* number of async_write operations pending
          sending,   \* sending_msgs_
          send_buf,  \* send_buf_: the message in it
          timer,     \* time left of an armed timer, or Off
          waitpong,  \* ptimer_waitpong_ is set
          alive,     \* environment: the timelord answers pings
          broken,    \* environment: the connection is broken and its operations fail
          due,       \* environment: pings written and not yet answered
          reported,  \* history: err_handler_ was called (since the timelord died)
          threw,     \* history: resolving the host threw
          exited     \* history: "no", or whether Exit found an established connection

conn == <<st, connect, reading, writes, sending, send_buf>>
peer == <<alive, broken, due>>
vars == <<conn, ready, timer, waitpong, peer, reported, threw, exited>>

Init ==
  /\ st = "READY"
  /\ ready = << >>
  /\ connect = FALSE /\ reading = FALSE /\ writes = 0
  /\ sending = << >> /\ send_buf = "none"
  /\ timer = [t \in Timers |-> Off]
  /\ waitpong = FALSE
  /\ alive = TRUE /\ broken = FALSE /\ due = 0
  /\ reported = FALSE /\ threw = FALSE /\ exited = "no"

-----------------------------------------------------------------------------
(* The owner's calls.  It makes none after Exit.                            *)

\* FrontEndClient::Connect.  The resolver finds an address, finds none, or throws.
Connect ==
  /\ st = "READY" /\ exited = "no"
  /\ st' = "CONNECTING"
  /\ \/ connect' = TRUE /\ UNCHANGED <<ready, threw>>
     \/ ready' = Append(ready, "noresolve") /\ UNCHANGED <<connect, threw>>
     \/ threw' = TRUE /\ UNCHANGED <<connect, ready>>
  /\ UNCHANGED <<reading, writes, sending, send_buf, timer, waitpong, peer, reported, exited>>

\* FrontEndClient::SendMessage: what it posts
Posted(msg) == IF st = "CONNECTED" THEN <<msg>> ELSE << >>

\* Cancelling a timer: its handler becomes ready if the timer was armed
Aborted(t) ==
  IF timer[t] = Off THEN << >>
  ELSE << [ping |-> "ping-aborted", wait |-> "wait-aborted", sender |-> "sender-aborted"][t] >>

\* TimelordClient::Calc: send, and again after the interval
Calc(interval) ==
  IF interval = 0
  THEN ready' = ready \o Posted("CALC") /\ UNCHANGED timer
  ELSE /\ ready' = ready \o Posted("CALC") \o Aborted("sender")
       /\ timer' = [timer EXCEPT !["sender"] = interval]

CallCalc(interval) ==
  /\ Len(ready) < MaxReady /\ sending = << >>
  /\ exited = "no"
  /\ Calc(interval)
  /\ UNCHANGED <<conn, waitpong, peer, reported, threw, exited>>

\* FrontEndClient::Exit: the socket is closed, which makes the operations
\* pending on it fail
FrontEndExit ==
  IF st \in {"CLOSED", "READY"} THEN UNCHANGED <<st, broken>>
  ELSE st' = "CLOSED" /\ broken' = TRUE

\* TimelordClient::Exit cancels the ping timer first
Exit ==
  /\ exited = "no"
  /\ exited' = IF st = "CONNECTED" THEN "established" ELSE "other"
  /\ timer' = [timer EXCEPT !["ping"] = Off]
  /\ ready' = ready \o Aborted("ping")
  /\ FrontEndExit
  /\ UNCHANGED <<connect, reading, writes, sending, send_buf, waitpong, alive, due, reported, threw>>

-----------------------------------------------------------------------------
(* The handlers.                                                            *)

ErrHandler == reported' = TRUE

\* DoReadNext starts a read, DoSendNext fills the buffer and starts a write
DoReadNext == reading' = TRUE
DoSendNext(msgs) == writes' = writes + 1 /\ send_buf' = Head(msgs)

\* Mutant of WaitTime: the answer may take longer than the next ping
WaitTimeLong == SECONDS_TO_PING + 1

\* The constant of DoWaitPong
WaitTime == WAIT_PONG_TIMEOUT_SECONDS

Rest == Tail(ready)

\* DoWriteNextPing
DoWriteNextPing(timers) == [timers EXCEPT !["ping"] = SECONDS_TO_PING]

\* async_connect completed: CONNECTED whatever st_ is by now
OnConnected ==
  /\ st' = "CONNECTED"
  /\ DoReadNext
  /\ timer' = DoWriteNextPing(timer)
  /\ ready' = Rest \o Aborted("ping")
  /\ UNCHANGED <<connect, writes, sending, send_buf, waitpong, reported>>

\* Mutant of OnConnectFailed: the error is not reported
OnConnectFailedSilently ==
  /\ st' = "CLOSED"
  /\ ready' = Rest
  /\ UNCHANGED <<connect, reading, writes, sending, send_buf, timer, waitpong, reported>>

OnConnectFailed ==
  /\ st' = "CLOSED"
  /\ ErrHandler
  /\ ready' = Rest
  /\ UNCHANGED <<connect, reading, writes, sending, send_buf, timer, waitpong>>

\* Mutant of OnSend: every message starts a write
OnSendAlways(msg) ==
  /\ sending' = Append(sending, msg)
  /\ DoSendNext(sending')
  /\ ready' = Rest
  /\ UNCHANGED <<st, connect, reading, timer, waitpong, reported>>

\* The function SendMessage posted: queue the message, write it if it is the only one
OnSend(msg) ==
  /\ sending' = IF Len(sending) < MaxSending THEN Append(sending, msg) ELSE sending
  /\ IF sending = << >> THEN DoSendNext(sending') ELSE UNCHANGED <<writes, send_buf>>
  /\ ready' = Rest
  /\ UNCHANGED <<st, connect, reading, timer, waitpong, reported>>

\* async_write completed
OnWritten ==
  /\ sending' = Tail(sending)
  /\ IF sending' # << >> THEN DoSendNext(sending') ELSE UNCHANGED <<writes, send_buf>>
  /\ ready' = Rest
  /\ UNCHANGED <<st, connect, reading, timer, waitpong, reported>>

\* A failed write keeps the message in sending_msgs_ and starts no other
OnFailed ==
  /\ ErrHandler
  /\ ready' = Rest
  /\ UNCHANGED <<conn, timer, waitpong>>

\* A message was read: a PONG cancels the timer that waits for it, one that
\* cannot be parsed is reported; then the next read
OnMessage(msg) ==
  /\ IF msg = "pong" /\ waitpong
     THEN timer' = [timer EXCEPT !["wait"] = Off] /\ ready' = Rest \o Aborted("wait")
     ELSE ready' = Rest /\ UNCHANGED timer
  /\ IF msg = "bad" THEN ErrHandler ELSE UNCHANGED reported
  /\ DoReadNext
  /\ UNCHANGED <<st, connect, writes, sending, send_buf, waitpong>>

\* Mutant of OnPing: the next ping is not scheduled
OnPingOnce ==
  /\ IF st = "CONNECTED"
     THEN /\ timer' = [timer EXCEPT !["wait"] = WaitTime]
          /\ ready' = Rest \o Posted("PING") \o Aborted("wait")
          /\ waitpong' = TRUE
     ELSE ready' = Rest /\ UNCHANGED <<timer, waitpong>>
  /\ UNCHANGED <<conn, reported>>

\* Mutant of OnPing: it goes on although the message was not sent
OnPingUnsent ==
  /\ timer' = DoWriteNextPing([timer EXCEPT !["wait"] = WaitTime])
  /\ ready' = Rest \o Posted("PING") \o Aborted("wait")
  /\ waitpong' = TRUE
  /\ UNCHANGED <<conn, reported>>

\* The ping timer fired: SendMessage, DoWaitPong (replacing the old timer
\* cancels it) and DoWriteNextPing
OnPing ==
  /\ IF st = "CONNECTED"
     THEN /\ timer' = DoWriteNextPing([timer EXCEPT !["wait"] = WaitTime])
          /\ ready' = Rest \o Posted("PING") \o Aborted("wait")
          /\ waitpong' = TRUE
     ELSE ready' = Rest /\ UNCHANGED <<timer, waitpong>>
  /\ UNCHANGED <<conn, reported>>

\* The handler of DoWaitPong, for a timer that fired or was cancelled: it
\* drops ptimer_waitpong_, whichever timer that is by now
OnWait(fired) ==
  /\ waitpong' = FALSE
  /\ timer' = [timer EXCEPT !["wait"] = Off]
  /\ ready' = Rest \o Aborted("wait")
  /\ IF fired THEN ErrHandler ELSE UNCHANGED reported
  /\ UNCHANGED conn

\* The handler of Calc's timer calls Calc again
OnSender ==
  /\ ready' = Rest \o Posted("CALC") \o Aborted("sender")
  /\ timer' = [timer EXCEPT !["sender"] = CalcInterval]
  /\ UNCHANGED <<conn, waitpong, reported>>

OnAborted == ready' = Rest /\ UNCHANGED <<conn, timer, waitpong, reported>>

RunHandler ==
  /\ ready # << >>
  /\ LET h == Head(ready)
     IN  \/ h = "connected" /\ OnConnected
         \/ h = "connfail" /\ OnConnectFailed
         \/ h \in {"noresolve", "readerr", "writeerr"} /\ OnFailed
         \/ h \in Messages /\ OnSend(h)
         \/ h = "written" /\ OnWritten
         \/ h \in {"pong", "bad"} /\ OnMessage(h)
         \/ h = "ping" /\ OnPing
         \/ h = "wait" /\ OnWait(TRUE)
         \/ h = "wait-aborted" /\ OnWait(FALSE)
         \/ h = "sender" /\ OnSender
         \/ h \in {"ping-aborted", "sender-aborted"} /\ OnAborted
  /\ UNCHANGED <<peer, threw, exited>>

-----------------------------------------------------------------------------
(* The io_context, the network and the timelord.                            *)

Rests == <<timer, waitpong, reported, threw, exited>>

ConnectCompletes ==
  /\ connect
  /\ connect' = FALSE
  /\ \/ ~broken /\ ready' = Append(ready, "connected")
     \/ ready' = Append(ready, "connfail")
  /\ UNCHANGED <<st, reading, writes, sending, send_buf, peer, Rests>>

ReadCompletes ==
  /\ reading
  /\ reading' = FALSE
  /\ \/ broken /\ ready' = Append(ready, "readerr") /\ UNCHANGED due
     \/ ~broken /\ due > 0 /\ due' = due - 1 /\ ready' = Append(ready, "pong")
     \/ /\ ~broken /\ alive /\ Len(ready) < MaxReady
        /\ ready' = Append(ready, "bad") /\ UNCHANGED due
  /\ UNCHANGED <<st, connect, writes, sending, send_buf, alive, broken, Rests>>

WriteCompletes ==
  /\ writes > 0
  /\ writes' = writes - 1
  /\ \/ broken /\ ready' = Append(ready, "writeerr") /\ UNCHANGED due
     \/ /\ ~broken
        /\ ready' = Append(ready, "written")
        /\ due' = IF alive /\ send_buf = "PING" /\ due < MaxDue THEN due + 1 ELSE due
  /\ UNCHANGED <<st, connect, reading, sending, send_buf, alive, broken, Rests>>

\* The io_context finds the timers that are due, the earliest first
Expire ==
  LET due_timers == {t \in Timers : timer[t] # Off /\ timer[t] <= 0}
  IN  /\ due_timers # {}
      /\ \E order \in SetToSeqs(due_timers) :
           /\ \A i, j \in DOMAIN order : i < j => timer[order[i]] <= timer[order[j]]
           /\ ready' = ready \o order
      /\ timer' = [t \in Timers |-> IF t \in due_timers THEN Off ELSE timer[t]]
      /\ UNCHANGED <<conn, waitpong, peer, reported, threw, exited>>

Tick ==
  /\ \E t \in Timers : timer[t] # Off
  /\ \A t \in Timers : timer[t] # Off => timer[t] > -MaxLag
  /\ Len(ready) <= MaxReady
  /\ timer' = [t \in Timers |-> IF timer[t] = Off THEN Off ELSE timer[t] - 1]
  /\ UNCHANGED <<conn, ready, waitpong, peer, reported, threw, exited>>

\* The timelord stops to answer; answers on their way may still arrive
PeerDies ==
  /\ st = "CONNECTED" /\ alive
  /\ alive' = FALSE
  /\ due' \in 0..due
  /\ reported' = FALSE
  /\ UNCHANGED <<conn, ready, timer, waitpong, broken, threw, exited>>

ConnectionBreaks ==
  /\ st = "CONNECTED" /\ ~broken
  /\ broken' = TRUE
  /\ UNCHANGED <<conn, ready, alive, due, Rests>>

Next ==
  \/ Connect
  \/ CallCalc(0)
  \/ CallCalc(CalcInterval)
  \/ Exit
  \/ RunHandler
  \/ ConnectCompletes
  \/ ReadCompletes
  \/ WriteCompletes
  \/ Expire
  \/ Tick
  \/ PeerDies
  \/ ConnectionBreaks

\* The io_context runs what is ready, time passes, timers that are due are
\* found, and a connection attempt and the operations on a broken socket
\* complete.  Nothing else is fair: the owner need not call, the timelord
\* need not answer, a write to a dead timelord may hang.  Time passes however
\* often handlers become ready: strong fairness makes up for the bound in Tick.
Fairness ==
  /\ WF_vars(RunHandler)
  /\ SF_vars(Tick)
  /\ WF_vars(Expire)
  /\ WF_vars(ConnectCompletes)
  /\ WF_vars(broken /\ ReadCompletes)
  /\ WF_vars(broken /\ WriteCompletes)

Spec == Init /\ [][Next]_vars /\ Fairness

-----------------------------------------------------------------------------
Handlers == Messages \cup Timers
            \cup {"connected", "connfail", "noresolve", "readerr", "writeerr", "written",
                  "pong", "bad", "ping-aborted", "wait-aborted", "sender-aborted"}

Times == {Off} \cup -MaxLag..(SECONDS_TO_PING + CalcInterval)

TypeOK ==
  /\ st \in {"READY", "CONNECTING", "CONNECTED", "CLOSED"}
  /\ ready \in Seq(Handlers)
  /\ sending \in Seq(Messages) /\ Len(sending) <= MaxSending
  /\ send_buf \in Messages \cup {"none"}
  /\ timer \in [Timers -> Times]
  /\ writes \in Nat /\ due \in 0..MaxDue
  /\ {connect, reading, waitpong, alive, broken, reported, threw} \subseteq BOOLEAN

\* send_buf_ belongs to the one write that is in flight: it holds the oldest
\* message of sending_msgs_ and no other write is started over it, also after
\* failed writes and an Exit.
OneWrite == writes > 0 => writes = 1 /\ sending # << >> /\ send_buf = Head(sending)

\* The handler of an old wait timer never drops the timer of a newer ping:
\* while ptimer_waitpong_ is armed no handler of DoWaitPong is waiting to run,
\* however late the io_context and the answers are.
WaitTimerIsOwn ==
  timer["wait"] # Off => \A i \in DOMAIN ready : ready[i] \notin {"wait", "wait-aborted"}

\* A timelord that no longer answers is reported to the owner ("PING/PONG
\* timeout") unless the owner exits, also when late answers keep cancelling
\* the timer and when writes hang.
DeadPeerReported ==
  (st = "CONNECTED" /\ ~alive) ~> (reported \/ exited # "no")

\* Every connection attempt ends in CONNECTED, in a report or in an exit,
\* unless resolving the host throws, which Connect only logs.
ConnectIsAnswered ==
  (st = "CONNECTING" /\ ~threw) ~> (st = "CONNECTED" \/ reported \/ exited # "no")

Idle == ready = << >> /\ ~connect /\ ~reading /\ writes = 0 /\ \A t \in Timers : timer[t] = Off

\* After Exit on an established connection no handler stays pending, so the
\* io_context can stop, unless a Calc with an interval keeps its timer going.
ExitEnds ==
  (exited = "established" /\ timer["sender"] = Off /\ (\A i \in DOMAIN ready : ready[i] # "sender")) ~> Idle
=============================================================================
