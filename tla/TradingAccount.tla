-------------------------- MODULE TradingAccount --------------------------
(***************************************************************************)
(* What PaperExecutor promises of the money it manages, without exchanges, *)
(* routes, maker orders or inventory: an account that every completed      *)
(* trade leaves richer, by at least what it books, and that closes for     *)
(* good once MaxFailures attempts in a row have failed.                    *)
(***************************************************************************)
EXTENDS Integers

CONSTANTS
  Capital,       \* quote currency held at the start, over all exchanges
  MaxFailures,   \* failures in a row that close the account
  Books          \* whether trades are settled and booked (paper trading)

VARIABLES
  held,          \* quote currency held, over all exchanges
  booked,        \* realized profit on record
  failures_left  \* further failures that close the account

account == <<held, booked, failures_left>>

Open == failures_left > 0

Init == held = Capital /\ booked = 0 /\ failures_left = MaxFailures

\* A completed trade: the profit on record grows, and no more than the money.
Trade ==
  /\ Open
  /\ Books
  /\ booked' > booked
  /\ held' - held >= booked' - booked
  /\ failures_left' = MaxFailures

\* A completed trade that is only rehearsed.
Rehearse ==
  /\ Open
  /\ ~ Books
  /\ failures_left' = MaxFailures
  /\ UNCHANGED <<held, booked>>

\* A failed attempt moves no money.
Failure ==
  /\ Open
  /\ failures_left' = failures_left - 1
  /\ UNCHANGED <<held, booked>>

Next == Trade \/ Rehearse \/ Failure

Spec == Init /\ [][Next]_account
=============================================================================
