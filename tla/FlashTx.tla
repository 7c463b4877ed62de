------------------------------ MODULE FlashTx ------------------------------
(***************************************************************************)
(* The transactions that borrow first and repay last                       *)
(* (src/crates/arb-flashloan, and everybody who lays such a transaction    *)
(* out: native_executor.rs, executor.rs, marginfi_liq.rs, kamino-hunter.rs *)
(* and sandwich-runner.rs). A lender finds its other half by an index      *)
(* written into the data, and every caller computes that index by hand     *)
(* from what it will push around the loan.                                 *)
(*                                                                         *)
(* The programs that run the instructions are external: MarginFi, Solend,  *)
(* Kamino, the swaps. A swap pays at least its minimum; `short` remembers  *)
(* that one paid less than was quoted, or a liquidation repaid less.       *)
(***************************************************************************)
EXTENDS Integers, Sequences, FiniteSets, FiniteSetsExt, SequencesExt

CONSTANTS
  FlashJobs,         \* what to lay out: records with the field `caller`
  LoanMint,              \* the borrowed token
  FlashMints,        \* the tokens and reserves there are
  Coll, CToken,      \* a collateral and the receipt of its reserve
  Loan,              \* amount of the loan
  BonusPct,          \* liquidation bonus
  SolendFee,         \* fee of a Solend flash loan
  Floats,            \* what the wallet may hold of LoanMint beforehand
  NoFlash            \* no MarginFi flash loan is open

VARIABLES
  job,       \* what is laid out
  tx,        \* the instructions
  pc,        \* index of the next one, from 0 as the programs count
  fault,     \* why the transaction was rolled back, "none" while it was not
  ata,       \* token accounts: token -> amount
  flash,     \* the end index MarginFi expects, or NoFlash
  owes,      \* bank -> debt at MarginFi
  holds,     \* bank -> collateral at MarginFi
  fresh,     \* reserves refreshed so far
  short      \* history: something paid less than quoted

flashVars == <<job, tx, pc, fault, ata, flash, owes, holds, fresh, short>>

\* What a caller may be asked to lay out: a route of any length, Jupiter's set-up
\* and clean-up in any number, banks and reserves in any number, every switch.
Shapes == [setup : Nat, cleanup : Nat]
FlashOptions ==
  [caller : {"native"}, lender : {"marginfi", "solend"}, path : Seq(FlashMints)]
  \cup [caller : {"jupiter"}, first : Shapes, second : Shapes]
  \cup [caller : {"solend"}, lender : {"marginfi", "solend", "none"}, price : BOOLEAN,
        ctoken : BOOLEAN, pyth : BOOLEAN, autoSwap : BOOLEAN, shape : Shapes, tip : BOOLEAN]
  \cup [caller : {"marginfi"}, tip : BOOLEAN, pyth : BOOLEAN, shape : Shapes,
        ours : Seq(FlashMints), theirs : Seq(FlashMints)]
  \cup [caller : {"kamino"}, coll : {LoanMint, Coll}, others : Seq(FlashMints),
        cached : SUBSET FlashMints, shape : Shapes]
  \cup [caller : {"sandwich"}]

\* Along a route every minimum is an amount, a number of the token's least units.
ASSUME FlashAssumption ==
  /\ FlashJobs \subseteq FlashOptions
  /\ {LoanMint, Coll, CToken} \subseteq FlashMints /\ LoanMint # Coll
  /\ Loan \in Nat \ {0} /\ {BonusPct, SolendFee} \subseteq Nat /\ Floats \subseteq Nat
  /\ NoFlash \notin Nat
  /\ \A j \in FlashJobs : j.caller = "native" => Len(j.path) < Loan

Repeat(ix, n) == [i \in 1..n |-> ix]
When(b, s) == IF b THEN s ELSE <<>>

---------------------------------------------------------------------------
\* Instruction builders: what of the data and accounts the programs check.

Budget      == <<[op |-> "limit"], [op |-> "price"]>>
Tip         == <<[op |-> "tip"]>>
Ata(t)      == <<[op |-> "ata", token |-> t]>>
Swap(f, t, in, min) == [op |-> "swap", from |-> f, to |-> t, in |-> in, min |-> min]

StartFlash(end)    == [op |-> "start", end |-> end]
Borrow(bank, n)    == [op |-> "borrow", bank |-> bank, amount |-> n]
Repay(bank, n)     == [op |-> "repay", bank |-> bank, amount |-> n]
Deposit(bank, n)   == [op |-> "deposit", bank |-> bank, amount |-> n]
WithdrawAll(bank)  == [op |-> "withdraw", bank |-> bank]
EndFlash(banks)    == [op |-> "end", banks |-> banks]
\* lending_account_liquidate: the tail of its accounts is split by two counts,
\* in accounts and not in pairs.
LiquidateBanks(asset, liab, n, ours, theirs) ==
  [op |-> "seize", asset |-> asset, liab |-> liab, amount |-> n,
   tail |-> ours \o theirs, theirs |-> 2 * Len(theirs), ours |-> 2 * Len(ours)]

\* build_marginfi_flash_loan: what goes before the swaps and what after.
MarginFiPre(end)  == <<StartFlash(end), Borrow(LoanMint, Loan)>>
MarginFiPost      == <<Repay(LoanMint, Loan), EndFlash({LoanMint})>>

\* build_usdc_flash_loan_envelope.
SolendPre         == <<[op |-> "refresh", reserve |-> LoanMint], [op |-> "sborrow", amount |-> Loan]>>
SolendPost(index) == <<[op |-> "srepay", amount |-> Loan, index |-> index]>>

\* Kamino and Solend liquidations: refreshes in any number, then the
\* obligation's with every reserve it names, then the liquidation.
RefreshAll(reserves) == [i \in DOMAIN reserves |-> [op |-> "refresh", reserve |-> reserves[i]]]
RefreshObligation(reserves) == <<[op |-> "obligation", reserves |-> Range(reserves)]>>
Liquidate(repay, coll, n) ==
  <<[op |-> "liquidate", repay |-> repay, coll |-> coll, amount |-> n]>>

Seized(n) == (n * (100 + BonusPct)) \div 100

\* Jupiter's instructions for one swap: set-up, swap, clean-up.
Jupiter(shape, f, t, in, min) ==
  Repeat([op |-> "setup", token |-> t], shape.setup) \o <<Swap(f, t, in, min)>>
    \o Repeat([op |-> "cleanup"], shape.cleanup)

---------------------------------------------------------------------------
\* The callers.

\* native_executor.rs: a route over `path`, a leg spends the minimum of the
\* one before it; token accounts for every other distinct token of the route.
Interim(path) == SetToSeq(Range(path) \ {LoanMint})
Legs(path) ==
  [i \in 1..Len(path) + 1 |->
     Swap(IF i = 1 THEN LoanMint ELSE path[i - 1], IF i = Len(path) + 1 THEN LoanMint ELSE path[i],
          IF i = 1 THEN Loan ELSE Loan - (i - 1), Loan - i)]

\* As if no token came twice on a route.
MutAllDistinct(path) == 7 + Len(path) + Len(Legs(path))

NativeEnd(path) == 7 + Len(Interim(path)) + Len(Legs(path))

NativeTx(j) ==
  Budget \o Tip \o Ata(LoanMint) \o [i \in 1..Len(Interim(j.path)) |-> Ata(Interim(j.path)[i])[1]]
    \o (IF j.lender = "solend" THEN SolendPre ELSE MarginFiPre(NativeEnd(j.path)))
    \o Legs(j.path)
    \o (IF j.lender = "solend" THEN SolendPost(6) ELSE MarginFiPost)

\* execute_flash_jupiter: the middle is counted before the loan is built.
FlashJupiterTx(j) ==
  LET prefix == Budget \o Tip \o Ata(LoanMint) \o Ata(Coll)
      middle == Jupiter(j.first, LoanMint, Coll, Loan, Loan - 1)
                  \o Jupiter(j.second, Coll, LoanMint, Loan - 1, Loan - 1)
      end    == Len(prefix) + 2 + Len(middle) + 1
  IN  prefix \o MarginFiPre(end) \o middle \o MarginFiPost

\* execute_solend_liquidation: the index is patched into the start instruction
\* once everything is laid out; a tip comes after the loan's end.
PatchEnd(all, at) == [all EXCEPT ![at].end = Len(all) - 1]

SolendLiquidationTx(j) ==
  LET prefix == <<[op |-> "limit"]>> \o When(j.price, <<[op |-> "price"]>>)
      open   == CASE j.lender = "marginfi" -> MarginFiPre(0)
                  [] j.lender = "solend"   -> SolendPre
                  [] OTHER                 -> <<>>
      inner  == When(j.ctoken, Ata(CToken))
                  \o When(j.lender = "none" /\ j.pyth, <<[op |-> "pyth"]>>)
                  \o RefreshAll(<<Coll, LoanMint>>) \o RefreshObligation(<<Coll, LoanMint>>)
                  \o Liquidate(LoanMint, Coll, Loan)
                  \o When(j.autoSwap, Jupiter(j.shape, Coll, LoanMint, (Seized(Loan) * 9) \div 10,
                                              (Seized(Loan) * 9) \div 10 - 1))
      close  == CASE j.lender = "marginfi" -> MarginFiPost
                  [] j.lender = "solend"   -> SolendPost(3)
                  [] OTHER                 -> <<>>
      all    == prefix \o open \o inner \o close
  IN  (IF j.lender = "marginfi" THEN PatchEnd(all, Len(prefix) + 1) ELSE all) \o When(j.tip, Tip)

\* plan_liquidation_tx: repays by a deposit.
MarginFiPlanTx(j) ==
  LET prefix == Budget \o When(j.tip, Tip)
      swaps  == Jupiter(j.shape, Coll, LoanMint, Seized(Loan), Loan)
      length == 6 + (IF j.pyth THEN 1 ELSE 0) + Len(swaps)
      pairs  == Range(j.ours) \cup {Coll, LoanMint}
  IN  prefix \o MarginFiPre(Len(prefix) + length - 1)
        \o When(j.pyth, <<[op |-> "pyth"]>>)
        \o <<LiquidateBanks(Coll, LoanMint, Loan, j.ours, j.theirs), WithdrawAll(Coll)>>
        \o swaps \o <<Deposit(LoanMint, Loan), EndFlash(pairs)>>

\* kamino-hunter.rs, build_and_sim: every reserve the obligation names is
\* refreshed once if it is cached, the two of the liquidation first.
KaminoRefreshes(j) ==
  LET first == <<LoanMint>> \o When(j.coll # LoanMint, <<j.coll>>)
  IN  first \o SetToSeq((Range(j.others) \cap j.cached) \ {LoanMint, j.coll})

KaminoTx(j) ==
  LET prefix == Budget \o Tip \o Ata(LoanMint) \o Ata(CToken) \o Ata(j.coll)
      middle == RefreshAll(KaminoRefreshes(j)) \o RefreshObligation(<<LoanMint, j.coll>> \o j.others)
                  \o Liquidate(LoanMint, j.coll, Loan)
                  \o When(j.coll # LoanMint, Jupiter(j.shape, j.coll, LoanMint, (Seized(Loan) * 9) \div 10,
                                                 (Seized(Loan) * 9) \div 10 - 1))
      total  == 6 + 2 + Len(middle) + 2
  IN  prefix \o MarginFiPre(total - 1) \o middle \o MarginFiPost

\* sandwich-runner.rs: eleven instructions, the last one at index 10.
SandwichTx(j) ==
  Budget \o Tip \o Ata(LoanMint) \o Ata(Coll) \o MarginFiPre(10)
    \o <<Swap(LoanMint, Coll, Loan, 1), Swap(Coll, LoanMint, (Loan * 99) \div 100, 1)>> \o MarginFiPost

LayOut(j) ==
  CASE j.caller = "native"      -> NativeTx(j)
    [] j.caller = "jupiter"     -> FlashJupiterTx(j)
    [] j.caller = "solend"      -> SolendLiquidationTx(j)
    [] j.caller = "marginfi"    -> MarginFiPlanTx(j)
    [] j.caller = "kamino"      -> KaminoTx(j)
    [] j.caller = "sandwich"    -> SandwichTx(j)

---------------------------------------------------------------------------
\* The chain.

FlashInit ==
  /\ job \in FlashJobs
  /\ tx = LayOut(job)
  /\ pc = 0 /\ fault = "none" /\ flash = NoFlash /\ short = FALSE
  /\ \E float \in Floats : ata = [t \in {LoanMint, Coll, CToken} |-> IF t = LoanMint THEN float ELSE 0]
  /\ owes = [b \in {LoanMint, Coll} |-> 0] /\ holds = [b \in {LoanMint, Coll} |-> 0]
  /\ fresh = {}

Next0 == pc < Len(tx) /\ fault = "none"
Ix == tx[pc + 1]

Fails(why) == fault' = why /\ UNCHANGED <<ata, flash, owes, holds, fresh, short>>
Holding(t) == IF t \in DOMAIN ata THEN ata[t] ELSE 0
Paid(t, n) == [x \in DOMAIN ata \cup {t} |-> IF x = t THEN Holding(t) + n ELSE ata[x]]
Spent(f, in, t, out) ==
  [x \in DOMAIN ata \cup {t} |-> Holding(x) - (IF x = f THEN in ELSE 0) + (IF x = t THEN out ELSE 0)]

\* start_flashloan and FlashBorrow look ahead for their other half.
At(index) == IF index + 1 \in DOMAIN tx THEN tx[index + 1].op ELSE "nothing"

RunMarginFi ==
  \/ Ix.op = "start" /\ \/ At(Ix.end) # "end" /\ Fails("endIndex")
                        \/ At(Ix.end) = "end" /\ flash' = Ix.end
                             /\ UNCHANGED <<fault, ata, owes, holds, fresh, short>>
  \/ Ix.op = "borrow" /\ owes' = [owes EXCEPT ![Ix.bank] = @ + Ix.amount]
                      /\ ata' = Paid(Ix.bank, Ix.amount)
                      /\ UNCHANGED <<fault, flash, holds, fresh, short>>
  \/ Ix.op = "repay" /\ \/ ata[Ix.bank] < Ix.amount /\ Fails("funds")
                        \/ ata[Ix.bank] >= Ix.amount
                             /\ owes' = [owes EXCEPT ![Ix.bank] = @ - Ix.amount]
                             /\ ata' = Paid(Ix.bank, -Ix.amount)
                             /\ UNCHANGED <<fault, flash, holds, fresh, short>>
  \/ Ix.op = "deposit" /\ \/ owes[Ix.bank] > 0 /\ Fails("depositOnly")
                          \/ owes[Ix.bank] = 0 /\ ata[Ix.bank] < Ix.amount /\ Fails("funds")
                          \/ owes[Ix.bank] = 0 /\ ata[Ix.bank] >= Ix.amount
                               /\ holds' = [holds EXCEPT ![Ix.bank] = @ + Ix.amount]
                               /\ ata' = Paid(Ix.bank, -Ix.amount)
                               /\ UNCHANGED <<fault, flash, owes, fresh, short>>
  \/ Ix.op = "seize" /\ \/ Ix.theirs + Ix.ours # 2 * Len(Ix.tail) /\ Fails("split")
                        \/ Ix.theirs + Ix.ours = 2 * Len(Ix.tail)
                             /\ holds' = [holds EXCEPT ![Ix.asset] = @ + Seized(Ix.amount)]
                             /\ owes' = [owes EXCEPT ![Ix.liab] = @ + Ix.amount]
                             /\ UNCHANGED <<fault, ata, flash, fresh, short>>
  \/ Ix.op = "withdraw" /\ ata' = Paid(Ix.bank, holds[Ix.bank])
                        /\ holds' = [holds EXCEPT ![Ix.bank] = 0]
                        /\ UNCHANGED <<fault, flash, owes, fresh, short>>
  \/ Ix.op = "end" /\ \/ flash # pc /\ Fails("endIndex")
                      \/ flash = pc /\ (\E b \in DOMAIN owes : owes[b] + holds[b] > 0 /\ b \notin Ix.banks)
                           /\ Fails("unobserved")
                      \/ flash = pc /\ (\A b \in DOMAIN owes : owes[b] + holds[b] > 0 => b \in Ix.banks)
                           /\ (\E b \in DOMAIN owes : owes[b] > 0) /\ Fails("unhealthy")
                      \/ flash = pc /\ (\A b \in DOMAIN owes : owes[b] = 0)
                           /\ (\A b \in DOMAIN owes : holds[b] > 0 => b \in Ix.banks)
                           /\ flash' = NoFlash /\ UNCHANGED <<fault, ata, owes, holds, fresh, short>>

RunSolend ==
  \/ Ix.op = "sborrow" /\ \/ LoanMint \notin fresh /\ Fails("stale")
                          \/ LoanMint \in fresh /\ ata' = Paid(LoanMint, Ix.amount)
                               /\ UNCHANGED <<fault, flash, owes, holds, fresh, short>>
  \/ Ix.op = "srepay" /\ \/ (At(Ix.index) # "sborrow" \/ Ix.index >= pc) /\ Fails("borrowIndex")
                         \/ At(Ix.index) = "sborrow" /\ Ix.index < pc
                              /\ ata[LoanMint] < Ix.amount + SolendFee /\ Fails("funds")
                         \/ At(Ix.index) = "sborrow" /\ Ix.index < pc
                              /\ ata[LoanMint] >= Ix.amount + SolendFee
                              /\ ata' = Paid(LoanMint, -(Ix.amount + SolendFee))
                              /\ UNCHANGED <<fault, flash, owes, holds, fresh, short>>

\* The lending protocols want everything refreshed in the same transaction;
\* they repay what the close factor allows, at most what was asked.
RunLiquidation ==
  \/ Ix.op = "refresh" /\ fresh' = fresh \cup {Ix.reserve}
                       /\ UNCHANGED <<fault, ata, flash, owes, holds, short>>
  \/ Ix.op = "obligation" /\ \/ ~(Ix.reserves \subseteq fresh) /\ Fails("stale")
                             \/ Ix.reserves \subseteq fresh
                                  /\ UNCHANGED <<fault, ata, flash, owes, holds, fresh, short>>
  \/ Ix.op = "liquidate" /\
       \E repaid \in {Ix.amount, Ix.amount \div 2} :
         \/ ata[Ix.repay] < repaid /\ Fails("funds")
         \/ ata[Ix.repay] >= repaid
              /\ ata' = Spent(Ix.repay, repaid, Ix.coll, Seized(repaid))
              /\ short' = (short \/ repaid < Ix.amount)
              /\ UNCHANGED <<fault, flash, owes, holds, fresh>>

RunSwap ==
  /\ Ix.op = "swap"
  /\ \E out \in {Ix.min - 1, Ix.min, Ix.in + 1} :
       \/ Holding(Ix.from) < Ix.in /\ Fails("funds")
       \/ Holding(Ix.from) >= Ix.in /\ out < Ix.min /\ Fails("slippage")
       \/ Holding(Ix.from) >= Ix.in /\ out >= Ix.min
            /\ ata' = Spent(Ix.from, Ix.in, Ix.to, out)
            /\ short' = (short \/ out < Ix.in + 1)
            /\ UNCHANGED <<fault, flash, owes, holds, fresh>>

RunOther ==
  \/ Ix.op \in {"ata", "setup"} /\ ata' = Paid(Ix.token, 0)
       /\ UNCHANGED <<fault, flash, owes, holds, fresh, short>>
  \/ Ix.op \in {"limit", "price", "tip", "pyth", "cleanup"}
       /\ UNCHANGED <<fault, ata, flash, owes, holds, fresh, short>>

FlashStep ==
  /\ Next0
  /\ RunMarginFi \/ RunSolend \/ RunLiquidation \/ RunSwap \/ RunOther
  /\ pc' = IF fault' = "none" THEN pc + 1 ELSE pc
  /\ UNCHANGED <<job, tx>>

FlashSpec == FlashInit /\ [][FlashStep]_flashVars

---------------------------------------------------------------------------
\* marginfi.rs:326, solend.rs:162, native_executor.rs:1323: whatever options a
\* caller was given, the index in the data names the other half of its loan,
\* everything is fresh and observed, and the transaction fails for what the
\* market did, or at the repayment, and never for how it is laid out. Four
\* layouts are known to fail: Solend's index is the constant 6 where native
\* routes have other than one token between, and the constant 3 where no price
\* instruction was pushed; the MarginFi plan repays by a deposit, which
\* marginfi.rs:706 says reverts; and Kamino's refresh of the obligation names
\* reserves that were not refreshed because the cache lacks them.
EnvelopesClose ==
  CASE fault \in {"none", "slippage"} -> TRUE
    [] fault = "funds" -> short \/ Ix.op \in {"repay", "srepay"}
                            \/ (job.caller = "solend" /\ job.lender = "none")
    [] fault = "borrowIndex" ->
         \/ job.caller = "native" /\ job.lender = "solend" /\ Len(Interim(job.path)) # 1
         \/ job.caller = "solend" /\ job.lender = "solend" /\ ~job.price
    [] fault = "depositOnly" -> job.caller = "marginfi"
    [] fault = "stale" -> job.caller = "kamino"
                            /\ ~(Range(job.others) \subseteq job.cached \cup {LoanMint, job.coll})
    [] OTHER -> FALSE
=============================================================================
