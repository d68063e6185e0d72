------------------------------ MODULE Service ------------------------------
(***************************************************************************)
(* The bot as a systemd service (src/deploy/arbbot.service,                *)
(* src/deploy/ops.sh) in time: it may die at any moment and is started     *)
(* again, and a stop gives it TimeoutStopSec to end by itself.  Of the     *)
(* program (src/src/main.py) only what takes time is kept: the start-up,   *)
(* the scan, the messages (src/src/notifier.py), the pause and the close.  *)
(* What happens between them takes none.                                   *)
(*                                                                         *)
(* All times are in ticks.  A signal does not cut a call short: Python     *)
(* resumes the wait once the handler has run.                              *)
(***************************************************************************)
EXTENDS Integers, FiniteSets, FiniteSetsExt

CONSTANTS
  RestartSec, TimeoutStopSec,  \* of the unit
  StartLimitBurst, StartLimitInterval,  \* external: systemd's defaults
  StartTimes,         \* clients, markets and fees
  ScanTimes,          \* fetch_all_tickers
  SendTimes,          \* one notifier.send()
  PollInterval,       \* poll_interval_sec
  SymbolCount,        \* symbols to rebalance
  NotifierEnabled,    \* notifier.enabled
  MaxLives            \* bound of the model: starts of the process

ASSUME ServiceAssumption ==
  /\ {RestartSec, TimeoutStopSec, StartLimitBurst, StartLimitInterval,
      PollInterval, SymbolCount, MaxLives} \subseteq Nat
  /\ StartLimitBurst > 0
  /\ \A T \in {StartTimes, ScanTimes, SendTimes} :
       T # {} /\ IsFiniteSet(T) /\ T \subseteq Nat
  /\ NotifierEnabled \in BOOLEAN

VARIABLES
  unit,           \* external: state of the unit
  wait,           \* external: time left of its RestartSec or TimeoutStopSec
  window,         \* external: age of the window of the start limit
  counted,        \* external: starts counted in it
  lives,          \* starts so far
  pc, left,       \* the call of the process in progress and the time it takes
  symbols_left,   \* symbols still to be rebalanced in this cycle
  stopping,       \* main.STOP
  blocked_alert_sent,
  asked_at,       \* history: the call that systemctl stop met, or "never"
  since_stop      \* history: time since then

process == <<pc, left, symbols_left, stopping, blocked_alert_sent>>
vars == <<unit, wait, window, counted, lives, process, asked_at, since_stop>>

Init ==
  /\ unit = "active" /\ wait = 0
  /\ window = 0 /\ counted = 1 /\ lives = 1
  /\ pc = "import" /\ left = 0
  /\ symbols_left = 0
  /\ stopping = FALSE /\ blocked_alert_sent = FALSE
  /\ asked_at = "never" /\ since_stop = 0

----------------------------------------------------------------------------
(* The process *)

\* Goes on to a call that takes t.
Go(next, t) == pc' = next /\ left' = t

Quiet == UNCHANGED <<unit, wait, window, counted, lives, asked_at, since_stop>>

\* A message takes no time where there is no notifier, or nothing to say.
MessageTimes == IF NotifierEnabled THEN SendTimes ELSE {0}

\* Up to the handlers (main.py:27-41): a signal would end the process.
Prepare ==
  /\ pc = "import"
  /\ \E t \in StartTimes : Go("start", t)
  /\ UNCHANGED <<symbols_left, stopping, blocked_alert_sent>>

\* To the message that says so; the loop comes after it.
AnnounceStart ==
  /\ pc = "start"
  /\ \E t \in MessageTimes : Go("start_message", t)
  /\ UNCHANGED <<symbols_left, stopping, blocked_alert_sent>>

EndMessage ==
  /\ pc = "start_message"
  /\ Go("top", 0)
  /\ UNCHANGED <<symbols_left, stopping, blocked_alert_sent>>

\* Faulty: the loop does not look at the signal.
KeepRunning_Always == TRUE
KeepRunning == ~ stopping

Top ==
  /\ pc = "top"
  /\ \/ ~ KeepRunning /\ Go("close", 0)
     \/ KeepRunning /\ (\E t \in ScanTimes : Go("scan", t))
  /\ UNCHANGED <<symbols_left, stopping, blocked_alert_sent>>

\* What the attempts of a cycle leave to say: one message for the trade, if
\* there is one, since the first success ends them.
Trade ==
  /\ pc = "scan"
  /\ \E t \in MessageTimes \cup {0} : Go("rebalance", t)
  /\ symbols_left' = SymbolCount
  /\ UNCHANGED <<stopping, blocked_alert_sent>>

RebalanceSymbol ==
  /\ pc = "rebalance" /\ symbols_left > 0
  /\ \E t \in MessageTimes \cup {0} : Go("rebalance", t)
  /\ symbols_left' = symbols_left - 1
  /\ UNCHANGED <<stopping, blocked_alert_sent>>

AlertOpen == NotifierEnabled /\ ~ blocked_alert_sent

Alert ==
  /\ pc = "rebalance" /\ symbols_left = 0
  /\ \/ /\ AlertOpen
        /\ \E t \in SendTimes : Go("alert", t)
        /\ blocked_alert_sent' = TRUE
     \/ Go("alert", 0) /\ UNCHANGED blocked_alert_sent
  /\ UNCHANGED <<symbols_left, stopping>>

Pause ==
  /\ pc = "alert"
  /\ Go("sleep", PollInterval)
  /\ UNCHANGED <<symbols_left, stopping, blocked_alert_sent>>

EndPause ==
  /\ pc = "sleep"
  /\ Go("top", 0)
  /\ UNCHANGED <<symbols_left, stopping, blocked_alert_sent>>

\* An exception of a call in the loop leads to the finally clause as well.
Exception ==
  /\ pc \in {"scan", "rebalance", "alert"} /\ lives < MaxLives
  /\ Go("close", 0)
  /\ UNCHANGED <<symbols_left, stopping, blocked_alert_sent>>

\* gateway.close() and dashboard.stop() do not wait for the network.
Close ==
  /\ pc = "close"
  /\ \E t \in MessageTimes : Go("stop_message", t)
  /\ UNCHANGED <<symbols_left, stopping, blocked_alert_sent>>

AnnounceStop ==
  /\ pc = "stop_message"
  /\ Go("exit", 0)
  /\ UNCHANGED <<symbols_left, stopping, blocked_alert_sent>>

ProcessStep ==
  /\ left = 0
  /\ \/ Prepare \/ AnnounceStart \/ EndMessage \/ Top \/ Trade \/ RebalanceSymbol
     \/ Alert \/ Pause \/ EndPause \/ Exception \/ Close \/ AnnounceStop
  /\ Quiet

----------------------------------------------------------------------------
(* The unit *)

Gone == pc = "gone"

\* Faulty: the unit does not wait before it starts the process again.
RestartWait_None == 0
RestartWait == RestartSec

\* Faulty: Restart=on-failure.
AfterExit_OnFailure(clean) == IF clean THEN "inactive" ELSE "auto-restart"

\* Restart=always, however the process has ended.
AfterExit(clean) == "auto-restart"

\* Nothing is started again once a stop was asked for.
End(clean) ==
  /\ Go("gone", 0)
  /\ \/ unit = "active" /\ unit' = AfterExit(clean) /\ wait' = RestartWait
     \/ unit = "stopping" /\ unit' = "inactive" /\ wait' = 0
  /\ UNCHANGED <<window, counted, lives, symbols_left, stopping, blocked_alert_sent, asked_at, since_stop>>

Exit == pc = "exit" /\ left = 0 /\ End(stopping)

\* Killed by the kernel, or a fault of the interpreter, at any moment.
Crash == ~ Gone /\ lives < MaxLives /\ End(FALSE)

\* A SIGINT or SIGTERM that does not come from systemd.
SignalFromElsewhere ==
  /\ unit = "active" /\ pc # "import" /\ ~ stopping /\ lives < MaxLives
  /\ stopping' = TRUE
  /\ UNCHANGED <<pc, left, symbols_left, blocked_alert_sent>>
  /\ Quiet

\* The first start after the window is over opens a new one.
WindowOver == window > StartLimitInterval

ExecStart ==
  /\ unit = "auto-restart" /\ wait = 0
  /\ \/ /\ ~ WindowOver /\ counted >= StartLimitBurst
        /\ unit' = "failed"
        /\ UNCHANGED <<window, counted, lives, process>>
     \/ /\ WindowOver \/ counted < StartLimitBurst
        /\ unit' = "active" /\ lives' = lives + 1
        /\ window' = IF WindowOver THEN 0 ELSE window
        /\ counted' = IF WindowOver THEN 1 ELSE counted + 1
        /\ Go("import", 0)
        /\ symbols_left' = 0 /\ stopping' = FALSE /\ blocked_alert_sent' = FALSE
  /\ UNCHANGED <<wait, asked_at, since_stop>>

\* systemctl stop: SIGTERM, whose default action ends the process until the
\* handlers are installed.
SystemctlStop ==
  /\ unit \in {"active", "auto-restart"}
  /\ asked_at' = pc
  /\ IF unit = "active" /\ pc # "import"
       THEN /\ unit' = "stopping" /\ wait' = TimeoutStopSec
            /\ stopping' = TRUE
            /\ UNCHANGED <<pc, left>>
       ELSE /\ unit' = "inactive" /\ wait' = 0
            /\ Go("gone", 0)
            /\ UNCHANGED stopping
  /\ UNCHANGED <<window, counted, lives, symbols_left, blocked_alert_sent, since_stop>>

\* SIGKILL at the end of TimeoutStopSec.
Kill == unit = "stopping" /\ wait = 0 /\ End(FALSE)

TickDown(t) == IF t > 0 THEN t - 1 ELSE 0

\* Time passes while a call is in progress or the unit waits.
Tick ==
  /\ left > 0 \/ (Gone /\ wait > 0)
  /\ unit = "stopping" => wait > 0
  /\ left' = TickDown(left) /\ wait' = TickDown(wait)
  /\ window' = Min({window + 1, StartLimitInterval + 1})
  /\ since_stop' = IF unit = "stopping" THEN since_stop + 1 ELSE since_stop
  /\ UNCHANGED <<unit, counted, lives, pc, symbols_left, stopping, blocked_alert_sent, asked_at>>

UnitStep == Exit \/ ExecStart \/ Kill

Next == ProcessStep \/ UnitStep \/ Tick \/ Crash \/ SignalFromElsewhere \/ SystemctlStop

\* The process and systemd go on, and so does time; crashes and stops need not
\* happen.
Spec ==
  /\ Init /\ [][Next]_vars
  /\ WF_vars(ProcessStep) /\ WF_vars(UnitStep) /\ WF_vars(Tick)

----------------------------------------------------------------------------
(* Properties *)

\* However the process dies, and be it in every start (a dashboard port that
\* is out of range, say), systemd never gives up on it: with RestartSec
\* between them, as many starts as the limit allows last longer than the
\* window (arbbot.service:15-16).
NeverGivesUp == unit # "failed"

\* However the process has ended, by a crash, an exception or a signal that is
\* not systemd's, it is started again, unless a stop was asked for
\* (arbbot.service:15).
ComesBack == Gone ~> unit = "active" \/ asked_at # "never"

\* How long a stop takes by itself: the signal is looked at when the loop is
\* at its top (main.py:86), so that a whole cycle with all its messages, or
\* what is left of the start, may come before the stop message.
Longest(T) == Max(T)
CycleTime ==
  Longest(ScanTimes) + (SymbolCount + 2) * Longest(SendTimes) + PollInterval
StartTime == Longest(StartTimes) + Longest(SendTimes)

StopTimeBounded ==
  since_stop <= Longest(SendTimes) +
    (IF asked_at \in {"start", "start_message"} THEN StartTime ELSE CycleTime)
=============================================================================
