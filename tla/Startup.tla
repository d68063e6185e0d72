------------------------------ MODULE Startup ------------------------------
(***************************************************************************)
(* run() up to its loop (src/src/main.py), with what it calls: the         *)
(* settings (src/src/config.py), the clients and streams of the gateway    *)
(* and its taker fees (src/src/exchanges.py), and the dashboard's socket   *)
(* (src/src/dashboard.py).  A signal may arrive at any moment.             *)
(*                                                                         *)
(* Fees are integers in a small unit.  An exchange reports a fee per       *)
(* symbol, 0 where it names none or a call fails, so that a failed call is *)
(* the report NoFees.                                                      *)
(***************************************************************************)
EXTENDS Integers, Sequences, FiniteSetsExt, Functions

CONSTANTS
  Listing,            \* config.exchanges, in order
  Supported,          \* external: the exchanges ccxt knows
  Streaming,          \* the exchanges with a stream: binance and bybit
  SymbolList,         \* config.symbols
  EnableStreams,      \* enable_websocket_market_data
  Modes, Styles,      \* values of MODE and EXECUTION_STYLE to start with
  FeeSettings,        \* values of FEE_TAKER_<exchange>
  DefaultFee,         \* of the four known exchanges, and of any other
  MarketReports,      \* external: taker fees in load_markets(), by symbol
  AccountReports,     \* external: fetch_trading_fees(), by symbol
  DashboardSettings,  \* values of DASHBOARD_ENABLED
  Ports               \* external: what DASHBOARD_PORT may be, for bind()

Exchanges == Range(Listing)
Symbols == Range(SymbolList)
NoFees == [s \in Symbols |-> 0]

ASSUME StartupAssumption ==
  /\ Listing \in Seq(Exchanges) /\ IsInjective(Listing)
  /\ SymbolList \in Seq(Symbols) /\ IsInjective(SymbolList)
  /\ EnableStreams \in BOOLEAN /\ DashboardSettings \subseteq BOOLEAN
  /\ DefaultFee \in Nat
  /\ \A f \in FeeSettings : f.number => f.value \in Nat
  /\ NoFees \in MarketReports /\ MarketReports \subseteq [Symbols -> Nat]
  /\ NoFees \in AccountReports /\ AccountReports \subseteq [Symbols -> Nat]
  /\ Ports \subseteq {"free", "taken", "out_of_range"}

VARIABLES
  stage,
  mode, execution_style,
  fee_setting,        \* external: the environment's FEE_TAKER_<exchange>
  port,               \* external: whether dashboard_port can be bound
  fees_taker,         \* cfg.fees_taker
  clients,            \* exchanges with a client
  streams,            \* exchanges whose stream has been started
  resolved, sources,  \* of resolve_taker_fees
  reported,           \* history: what each exchange answered
  dashboard,          \* "none" or "serving"
  handlers,           \* the signal handlers are installed
  STOP

startupvars == <<stage, mode, execution_style, fee_setting, port, fees_taker, clients,
                 streams, resolved, sources, reported, dashboard, handlers, STOP>>

StartupInit ==
  /\ stage = "config"
  /\ mode \in Modes /\ execution_style \in Styles
  /\ fee_setting \in [Exchanges -> FeeSettings]
  /\ port \in Ports
  /\ fees_taker = <<>>
  /\ clients = {} /\ streams = {}
  /\ resolved = <<>> /\ sources = <<>> /\ reported = <<>>
  /\ dashboard = "none"
  /\ handlers = FALSE /\ STOP = FALSE

----------------------------------------------------------------------------
(* Settings *)

\* A setting that is missing or no number means the default.
_float_env(setting, default) == IF setting.number THEN setting.value ELSE default

LoadConfig ==
  /\ stage = "config"
  /\ stage' = "settings"
  /\ fees_taker' = [x \in Exchanges |-> _float_env(fee_setting[x], DefaultFee)]
  /\ UNCHANGED <<mode, execution_style, fee_setting, port, clients, streams, resolved,
                 sources, reported, dashboard, handlers, STOP>>

SupportedMode(m) == IF m \in {"paper", "dry-run"} THEN m ELSE "paper"
SupportedStyle(style) ==
  IF style \in {"taker-taker", "maker-taker"} THEN style ELSE "taker-taker"

CheckSettings ==
  /\ stage = "settings"
  /\ stage' = "gateway"
  /\ mode' = SupportedMode(mode)
  /\ execution_style' = SupportedStyle(execution_style)
  /\ handlers' = TRUE
  /\ UNCHANGED <<fee_setting, port, fees_taker, clients, streams, resolved, sources,
                 reported, dashboard, STOP>>

----------------------------------------------------------------------------
(* The gateway *)

InitGateway ==
  /\ stage = "gateway"
  /\ stage' = "fees"
  /\ clients' = Exchanges \cap Supported
  /\ streams' = IF EnableStreams THEN Streaming \cap clients' ELSE {}
  /\ UNCHANGED <<mode, execution_style, fee_setting, port, fees_taker, resolved, sources,
                 reported, dashboard, handlers, STOP>>

Named(report) == {s \in Symbols : report[s] > 0}

Mean(report) == SumFunctionOnSet(report, Named(report)) \div Cardinality(Named(report))

\* Faulty: the public fees of a market come before those of the account.
Source_MarketFirst(market, account) ==
  IF Named(market) # {} THEN "markets_taker"
  ELSE IF Named(account) # {} THEN "api_trading_fees"
  ELSE "env_fallback"

Source(market, account) ==
  IF Named(account) # {} THEN "api_trading_fees"
  ELSE IF Named(market) # {} THEN "markets_taker"
  ELSE "env_fallback"

FeeOf(x, market, account) ==
  LET source == Source(market, account)
  IN  CASE source = "api_trading_fees" -> Mean(account)
        [] source = "markets_taker" -> Mean(market)
        [] OTHER -> fees_taker[x]

\* A dict f once f[x] has been set.
With(f, x, v) == [y \in DOMAIN f \cup {x} |-> IF y = x THEN v ELSE f[y]]

Left == clients \ DOMAIN resolved

\* One turn of the loop over the clients, which are in the order of the
\* configuration; either call may fail.
ResolveFee ==
  /\ stage = "fees"
  /\ \E k \in DOMAIN Listing, market \in MarketReports, account \in AccountReports :
       LET x == Listing[k]
       IN  /\ x \in Left /\ \A j \in 1..(k - 1) : Listing[j] \notin Left
           /\ resolved' = With(resolved, x, FeeOf(x, market, account))
           /\ sources' = With(sources, x, Source(market, account))
           /\ reported' = With(reported, x, [market |-> market, account |-> account])
  /\ UNCHANGED <<stage, mode, execution_style, fee_setting, port, fees_taker, clients, streams,
                 dashboard, handlers, STOP>>

\* The exchanges without a client keep the fee of the configuration.
EndFees ==
  /\ stage = "fees" /\ clients \subseteq DOMAIN resolved
  /\ stage' = "dashboard"
  /\ fees_taker' = [x \in Exchanges |->
                      IF x \in DOMAIN resolved THEN resolved[x] ELSE fees_taker[x]]
  /\ sources' = [x \in Exchanges |->
                   IF x \in DOMAIN sources THEN sources[x] ELSE "env_fallback"]
  /\ UNCHANGED <<mode, execution_style, fee_setting, port, clients, streams, resolved,
                 reported, dashboard, handlers, STOP>>

----------------------------------------------------------------------------
(* The dashboard and the loop *)

\* What bind() raises: a taken port is an OSError, and a number above 65535
\* an OverflowError.
Raised(p) == CASE p = "taken" -> "OSError"
               [] p = "out_of_range" -> "OverflowError"
               [] OTHER -> "nothing"

\* Faulty: a port that cannot be bound ends the bot.
Handled_None == {}
Handled == {"OSError"}

StartDashboard ==
  /\ stage = "dashboard"
  /\ \/ /\ FALSE \in DashboardSettings
        /\ stage' = "loop" /\ UNCHANGED dashboard
     \/ /\ TRUE \in DashboardSettings /\ Raised(port) = "nothing"
        /\ dashboard' = "serving" /\ stage' = "loop"
     \/ /\ TRUE \in DashboardSettings /\ Raised(port) \in Handled
        /\ stage' = "loop" /\ UNCHANGED dashboard
     \/ /\ TRUE \in DashboardSettings /\ Raised(port) \notin Handled \cup {"nothing"}
        /\ stage' = "crashed" /\ UNCHANGED dashboard
  /\ UNCHANGED <<mode, execution_style, fee_setting, port, fees_taker, clients, streams,
                 resolved, sources, reported, handlers, STOP>>

Entered == ~ STOP

\* The test at the top of the loop, and what follows a stop: gateway.close()
\* and dashboard.stop().
EnterLoop ==
  /\ stage = "loop"
  /\ \/ /\ Entered
        /\ stage' = "running" /\ UNCHANGED <<streams, dashboard>>
     \/ /\ ~ Entered
        /\ stage' = "stopped" /\ streams' = {} /\ dashboard' = "none"
  /\ UNCHANGED <<mode, execution_style, fee_setting, port, fees_taker, clients, resolved,
                 sources, reported, handlers, STOP>>

Over == {"running", "stopped", "crashed", "terminated"}

\* SIGINT or SIGTERM: the default action until the handlers are installed.
Signal ==
  /\ stage \notin Over /\ ~ STOP
  /\ \/ /\ handlers
        /\ STOP' = TRUE /\ UNCHANGED stage
     \/ /\ ~ handlers
        /\ stage' = "terminated" /\ UNCHANGED STOP
  /\ UNCHANGED <<mode, execution_style, fee_setting, port, fees_taker, clients, streams,
                 resolved, sources, reported, dashboard, handlers>>

StartupStep ==
  \/ LoadConfig \/ CheckSettings \/ InitGateway \/ ResolveFee \/ EndFees
  \/ StartDashboard \/ EnterLoop

StartupNext == StartupStep \/ Signal

\* Every call of the start-up returns: REST calls have timeouts.
StartupSpec == StartupInit /\ [][StartupNext]_startupvars /\ WF_startupvars(StartupStep)

----------------------------------------------------------------------------
(* Properties *)

Sources == {"api_trading_fees", "markets_taker", "env_fallback"}

\* A fee within those a report names; a symbol without one does not pull it down.
Within(fee, report) ==
  LET named == {report[s] : s \in Symbols} \ {0}
  IN  named # {} /\ Min(named) <= fee /\ fee <= Max(named)

\* What the source shown with the fee of an exchange says of that exchange's answers.
Backs(x, market, account, source, fee) ==
  \/ source = "api_trading_fees" /\ Within(fee, account)
  \/ source = "markets_taker" /\ account = NoFees /\ Within(fee, market)
  \/ /\ source = "env_fallback" /\ account = NoFees /\ market = NoFees
     /\ fee = _float_env(fee_setting[x], DefaultFee)

\* When the loop begins, the scanner and the executor have a fee for every
\* configured exchange, whether or not it has a client, and the source the log
\* shows with it is where it comes from: the account if its answer names a fee,
\* else the markets if they do, and the setting of this exchange only if neither
\* does (exchanges.py:75-114).
FeesAreBacked ==
  stage \in {"loop", "running", "stopped"} =>
    /\ fees_taker \in [Exchanges -> Nat] /\ DOMAIN sources = Exchanges
    /\ \A x \in Exchanges :
         Backs(x, IF x \in clients THEN reported[x].market ELSE NoFees,
               IF x \in clients THEN reported[x].account ELSE NoFees,
               sources[x], fees_taker[x])

\* Whatever the exchanges answer and even if the dashboard's port is taken,
\* the bot gets to its loop, unless it is stopped first (main.py:55-66,
\* exchanges.py:70-73, 86-99).  A port above 65535 is not handled.
StartsAnyway ==
  port # "out_of_range" => <>(stage \in {"running", "stopped", "terminated"})

\* README.md:91: FEE_TAKER_<exchange> overrides the taker fee of an exchange.
OverrideIsUsed ==
  stage = "running" =>
    \A x \in Exchanges : fee_setting[x].number => fees_taker[x] = fee_setting[x].value
=============================================================================
