------------------------------- MODULE MCLife -------------------------------
(* The start-up of the program and its life under systemd, checked in one run *)
(* for TLC: each behaviour is of one of them, named by part, while the        *)
(* variables of the other keep a first value.  A tick of the service is two   *)
(* and a half seconds.                                                        *)
EXTENDS Startup, Service, TLC

CONSTANTS a, b, c, btc, eth

VARIABLE part

ThreeListed == <<a, b, c>>
TwoSymbols == <<btc, eth>>

Unset == [number |-> FALSE]
Settings == {Unset, [number |-> TRUE, value |-> 8]}

Fees(x, y) == (btc :> x) @@ (eth :> y)
\* No answer, a fee of one symbol, fees of both.
Reports == {Fees(0, 0), Fees(6, 0), Fees(7, 12)}

\* The start-up that a behaviour of the service leaves alone.
Aside ==
  /\ mode = "paper" /\ execution_style = "maker-taker" /\ port = "out_of_range"
  /\ fee_setting = [x \in Exchanges |-> Unset]

MCInit ==
  /\ part \in {"startup", "service"}
  /\ StartupInit /\ Init
  /\ part = "service" => Aside

InStartup(A) == part = "startup" /\ A /\ UNCHANGED <<vars, part>>
InService(A) == part = "service" /\ A /\ UNCHANGED <<startupvars, part>>

MCNext == InStartup(StartupNext) \/ InService(Next)

mcvars == <<startupvars, vars, part>>

MCSpec ==
  /\ MCInit /\ [][MCNext]_mcvars
  /\ WF_mcvars(InStartup(StartupStep))
  /\ WF_mcvars(InService(ProcessStep))
  /\ WF_mcvars(InService(UnitStep))
  /\ WF_mcvars(InService(Tick))
=============================================================================
