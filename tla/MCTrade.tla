------------------------------- MODULE MCTrade -------------------------------
(* Constants for checking how a trade comes about: the budget that allows a    *)
(* buy, the evaluation that finds a cycle, the transaction that is built and   *)
(* the tables it refers to. `part` names the one a behaviour is about, so that *)
(* one run explores them all without their product.                            *)
EXTENDS MCSnipeBudget, Evaluation, TxAssembly

CONSTANTS unread, unsigned

\* Key 21 is in both tables, 9 and 22 are listed or loaded from either, and 30
\* is a program that a table also holds.
MCMeta(k, s, w) == [key |-> k, s |-> s, w |-> w]
MCReads(k)  == MCMeta(k, FALSE, FALSE)
MCWrites(k) == MCMeta(k, FALSE, TRUE)
MCIx(prog, metas, data) == [prog |-> prog, metas |-> metas, data |-> data]
MCTransfer == MCIx(1, <<MCMeta(5, TRUE, TRUE), MCWrites(9)>>, <<2>>)
MCSwap     == MCIx(30, <<MCReads(12), MCWrites(22), MCWrites(21), MCReads(11),
                         MCMeta(5, TRUE, FALSE), MCReads(31)>>, <<7, 7>>)
MCUpgrade  == MCIx(31, <<MCWrites(30), MCReads(22), MCWrites(11)>>, <<>>)
MCForeign  == MCIx(1, <<MCMeta(3, TRUE, TRUE), MCWrites(9)>>, <<2>>)
MCJob(layout, ixs, tables, pinned) ==
  [layout |-> layout, ixs |-> ixs, tables |-> tables, pinned |-> pinned]
MCPlan == <<MCTransfer, MCSwap, MCUpgrade>>
MCJobs ==
  {MCJob("legacy", MCPlan, <<>>, {}), MCJob("single", MCPlan, <<100>>, {}),
   MCJob("multi", MCPlan, <<101, 100>>, {9}), MCJob("jupiter", MCPlan, <<100>>, {}),
   MCJob("multi", <<MCSwap, MCForeign>>, <<100, 101>>, {})}
MCOld == 100 :> <<21, 30>> @@ 101 :> <<22, 12, 9, 21>>
MCBatches == <<<<11, 22>>, <<12, 9>>>>

(***************************************************************************)
(* Two markets of four pools, all eight venues between them, and four sets *)
(* of switches. Fees and bin steps are in twentieths. In the first market  *)
(* a swap moves the price of SOL in one pool or in the other and a third   *)
(* way leads over USDT; in the second the pools with vaults face one with  *)
(* a tick and one with bins.                                               *)
(***************************************************************************)
MCWindow == [n |-> 1, d |-> 5]

MCSides ==
  {[price |-> 3, exp |-> -1, dec |-> 1, trading |-> TRUE],
   [price |-> 7, exp |-> 0, dec |-> 0, trading |-> TRUE],
   [price |-> 20, exp |-> -2, dec |-> 2, trading |-> TRUE],
   [price |-> 5, exp |-> -1, dec |-> 0, trading |-> FALSE]}

MCPool(name, kind, a, b) == [name |-> name, kind |-> kind, a |-> a, b |-> b]
MCVaults(name)           == [va |-> name \o "a", vb |-> name \o "b"]
MCFee                    == [fee |-> 1, unit |-> 20]
MCRoot(n, d, liq)        == [root |-> [n |-> n, d |-> d], liq |-> liq, fee |-> 1]
MCState(data)            == [data |-> data, ra |-> 0, rb |-> 0]
MCHolding(data, ra, rb)  == [data |-> data, ra |-> ra, rb |-> rb]

MCAmm   == MCPool("A", "amm_v4", "sol", "usdc") @@ MCVaults("A") @@ MCFee
MCTick  == MCPool("W", "whirlpool", "sol", "usdc")
MCBonk  == MCPool("B", "bonkswap", "usdt", "usdc") @@ [rx |-> 100, ry |-> 100] @@ MCFee
MCLif(n, d) == MCPool("L", "lifinity", "usdt", "sol") @@ [price |-> [n |-> n, d |-> d]] @@ MCFee
MCCpmm  == MCPool("C", "cpmm", "usdc", "sol") @@ MCVaults("C")
MCRange == MCPool("R", "clmm", "usdc", "sol")
MCCurve == MCPool("O", "obric", "sol", "usdt") @@ MCVaults("O")
           @@ [target |-> 20, conc |-> 3, multX |-> 2, multY |-> 1, fee |-> 1]
MCBin(id) == MCPool("D", "dlmm", "usdt", "usdc")
             @@ [id |-> id, step |-> 10, factor |-> 1, power |-> 0]

MCFirst ==
  "A" :> <<MCHolding(MCAmm, 50, 100), MCHolding(MCAmm, 36, 140)>>
  @@ "W" :> <<MCState(MCTick @@ MCRoot(3, 2, 40)), MCState(MCTick @@ MCRoot(1, 1, 40))>>
  @@ "B" :> <<MCState(MCBonk)>>
  @@ "L" :> <<MCState(MCLif(1, 2)), MCState(MCLif(2, 3))>>
MCSecond ==
  "C" :> <<MCHolding(MCCpmm, 90, 60), MCHolding(MCCpmm, 60, 90)>>
  @@ "R" :> <<MCState(MCRange @@ MCRoot(1, 1, 60)), MCState(MCRange @@ MCRoot(2, 3, 60))>>
  @@ "O" :> <<MCHolding(MCCurve, 30, 100), MCHolding(MCCurve, 24, 110)>>
  @@ "D" :> <<MCState(MCBin(0)), MCState(MCBin(1))>>

MCJupiter ==
  [native |-> FALSE, disabled |-> {}, inline |-> FALSE, ungated |-> FALSE, nativeMaxHops |-> 2,
   jupiterPoll |-> FALSE, executor |-> TRUE, usdtAlt |-> TRUE, solAlt |-> TRUE, solProbe |-> 4]
MCSolOnly == [MCJupiter EXCEPT !.usdtAlt = FALSE]
MCInline  == [MCJupiter EXCEPT !.native = TRUE, !.inline = TRUE, !.ungated = TRUE,
                               !.disabled = {"obric"}, !.usdtAlt = FALSE, !.solAlt = FALSE]
MCBuffer  == [MCJupiter EXCEPT !.native = TRUE, !.jupiterPoll = TRUE, !.nativeMaxHops = 3]
MCWorlds ==
  {[market |-> MCFirst, settings |-> s] : s \in {MCJupiter, MCInline}}
  \cup {[market |-> MCSecond, settings |-> s] : s \in {MCSolOnly, MCBuffer}}

VARIABLE part

tradeRunVars == <<part, vars, asmVars, evVars>>

TradeInit ==
  /\ part \in {"budget", "assembly", "evaluation"}
  /\ Init /\ AsmInit /\ EvInit
  /\ botHash = 0
  /\ part # "assembly" => deploy.batch = 1
  /\ part = "evaluation" => (updates = <<>> <=> vaults # <<>>)
  /\ part # "evaluation" => /\ settings = MCJupiter /\ DOMAIN store = DOMAIN market
                            /\ vaults # <<>> /\ updates # <<>>

TradeNext ==
  \/ part = "budget" /\ Next /\ UNCHANGED <<part, asmVars, evVars>>
  \/ part = "assembly" /\ AsmNext /\ UNCHANGED <<part, vars, evVars>>
  \/ part = "evaluation" /\ EvNext /\ UNCHANGED <<part, vars, asmVars>>

TradeSpec == TradeInit /\ [][TradeNext]_tradeRunVars
=============================================================================
