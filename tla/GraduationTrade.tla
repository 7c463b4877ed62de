--------------------------- MODULE GraduationTrade ---------------------------
(***************************************************************************)
(* The task spawned for a graduation (a pump.fun Migrate instruction) in   *)
(* src/crates/arb-scout/src/scout.rs: find the mint, poll Jupiter until it *)
(* quotes it, buy, watch the price until a target, a loss or a timeout,    *)
(* and sell 95 % of the quoted tokens. A dry run quotes once and holds.    *)
(* One task; concurrent ones share nothing but the wallet.                 *)
(***************************************************************************)
EXTENDS Integers

CONSTANTS
  IndexPolls,       \* polls before Jupiter is given up on
  ExitAfter,        \* PUMP_FUN_GRAD_TIMEOUT_SECS, in polls of two seconds
  SimBuy,           \* lamports of the buy
  TpPct, SlPct,     \* targets, percent of SimBuy
  QuoteOuts,        \* tokens or lamports a quote may answer
  QuoteErr          \* no quote: error or timeout of the request

ASSUME GradAssumption == IndexPolls \in Nat /\ ExitAfter \in Nat /\ SimBuy \in Nat

VARIABLES
  stage,     \* where the task is
  polls,     \* polls of the current loop
  expected,  \* tokens the buy promised
  lastValue, \* last value seen by the monitor (QuoteErr: none)
  sellTried  \* history: was a sale tried?

gradVars == <<stage, polls, expected, lastValue, sellTried>>

Stages == {"detected", "indexing", "buying", "watching", "selling", "holding", "ended"}

GradInit ==
  /\ stage = "detected"
  /\ polls = 0 /\ expected = 0 /\ lastValue = QuoteErr
  /\ sellTried = FALSE

\* getTransaction and the search for a pump.fun instruction of 20 accounts or
\* more, top level first and then inner: the task ends without one.
FindMint(found) ==
  /\ stage = "detected"
  /\ stage' = IF found THEN "indexing" ELSE "ended"
  /\ UNCHANGED <<polls, expected, lastValue, sellTried>>

\* Two seconds of sleep before each quote; the counter is tested before both.
\* next: buying if PUMP_FUN_GRAD_ARB_ENABLED, ended if then there is no executor.
AskIndex(quote, next) ==
  /\ stage = "indexing"
  /\ polls' = polls + 1
  /\ stage' = IF polls' > IndexPolls THEN "ended"
              ELSE IF quote = QuoteErr THEN stage
              ELSE next
  /\ UNCHANGED <<expected, lastValue, sellTried>>

\* execute_jupiter_swap_raw answers the quoted tokens, or an error; on an
\* error of the last request the swap may have been taken all the same.
LiveBuy(ok, tokens) ==
  /\ stage = "buying"
  /\ expected' = IF ok THEN tokens ELSE expected
  /\ polls' = 0
  /\ stage' = IF ok THEN "watching" ELSE "ended"
  /\ UNCHANGED <<lastValue, sellTried>>

Ratio(out) == (out * 100) \div (IF SimBuy > 1 THEN SimBuy ELSE 1)

TargetHit(out) == Ratio(out) >= TpPct \/ Ratio(out) <= SlPct

MutNoTimeout == FALSE

TimedOut == polls' >= ExitAfter

\* The age is tested before the quote, so a quote that fails only delays.
Watch(quote) ==
  /\ stage = "watching"
  /\ polls' = IF polls < ExitAfter THEN polls + 1 ELSE polls
  /\ IF TimedOut
     THEN stage' = "selling" /\ UNCHANGED lastValue
     ELSE IF quote = QuoteErr THEN UNCHANGED <<stage, lastValue>>
     ELSE /\ lastValue' = quote
          /\ stage' = IF TargetHit(quote) THEN "selling" ELSE "watching"
  /\ UNCHANGED <<expected, sellTried>>

SellAmount == (expected * 95) \div 100

\* One attempt; an error leaves the tokens in the wallet for good.
LiveSell ==
  /\ stage = "selling"
  /\ sellTried' = TRUE
  /\ stage' = "ended"
  /\ UNCHANGED <<polls, expected, lastValue>>

\* The dry run holds, quotes the way back and logs.
DryHold ==
  /\ stage = "holding"
  /\ stage' = "ended"
  /\ UNCHANGED <<polls, expected, lastValue, sellTried>>

GradNext ==
  \/ \E found \in BOOLEAN : FindMint(found)
  \/ \E quote \in QuoteOuts \cup {QuoteErr}, next \in {"buying", "holding", "ended"} :
       AskIndex(quote, next)
  \/ \E ok \in BOOLEAN, tokens \in QuoteOuts : LiveBuy(ok, tokens)
  \/ \E quote \in QuoteOuts \cup {QuoteErr} : Watch(quote)
  \/ LiveSell
  \/ DryHold

GradSpec == GradInit /\ [][GradNext]_gradVars

\* The quotes of the monitor end, by the timeout of their client (jupiter.rs:71);
\* the attempt to sell begins. Nothing is assumed of the buy, whose requests
\* for a blockhash and to the RPC node have no timeout.
GradFairness ==
  /\ WF_gradVars(\E quote \in QuoteOuts \cup {QuoteErr} : Watch(quote))
  /\ WF_gradVars(LiveSell)

---------------------------------------------------------------------------
\* A buy that was answered is followed by an attempt to sell, whatever the
\* quotes do: errors for ever included.
BoughtIsSold == (stage = "watching") ~> sellTried
=============================================================================
