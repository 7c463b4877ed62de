------------------------------ MODULE MCEngine ------------------------------
(* Constants for checking the native executor's parts and the clients it   *)
(* sends through. `part` names the one a behaviour is about, so that one   *)
(* run explores them all without their product.                            *)
EXTENDS TLC, NativeWorker, NativeExecutor, BundleClient, BundleCorrelator, TpuSender,
  KaminoHunter, MCKaminoHealth, FlashTx

CONSTANTS v1, v2, v3, r1, r2, o1, o2, x, y

MCNets == {-1, 2}

MCPercentiles == <<50, 75>>
MCStarter     == 50 :> 1 @@ 75 :> 2
MCRows        == {50 :> 2 @@ 75 :> 4}

\* A block without our pools, one with two rivals, one with a failed one, one
\* that touches a pool and tips nobody.
MCTx(ours, tips, jupiter, failed) ==
  [ours |-> ours, tips |-> tips, jupiter |-> jupiter, failed |-> failed]
MCBlocks ==
  {{}, {MCTx(TRUE, {1, 2}, TRUE, FALSE), MCTx(FALSE, {2}, FALSE, FALSE)},
   {MCTx(TRUE, {1}, FALSE, TRUE)}, {MCTx(TRUE, {0}, FALSE, FALSE)}}

\* Two leaders share an address.
MCLeaders == [s \in 0..9 |-> CASE s % 3 = 0 -> v1 [] s % 3 = 1 -> v2 [] OTHER -> v3]
MCAddress == v1 :> 1 @@ v2 :> 2 @@ v3 :> 2

MCDeposits == o1 :> {r1} @@ o2 :> {r2}
MCBorrows  == o1 :> {r2} @@ o2 :> {}
MCDebt     == o1 :> 2 @@ o2 :> 1
MCSinksAt  == r1 :> {1} @@ r2 :> {1}

\* The options of every caller of a flash loan, with routes that pass a token twice.
MCShapes == {[setup |-> s, cleanup |-> c] : s \in 0..2, c \in 0..1}

MCFlashMints == {LoanMint, Coll, CToken, x, y}
MCFlashJobs ==
  {[caller |-> "native", lender |-> l, path |-> p] :
     l \in {"marginfi", "solend"}, p \in {<<x>>, <<x, y>>, <<x, LoanMint, x>>, <<x, y, x>>}}
  \cup [caller : {"jupiter"}, first : MCShapes, second : MCShapes]
  \cup [caller : {"solend"}, lender : {"marginfi", "solend", "none"}, price : BOOLEAN,
        ctoken : BOOLEAN, pyth : BOOLEAN, autoSwap : BOOLEAN,
        shape : {[setup |-> 1, cleanup |-> 1]}, tip : BOOLEAN]
  \cup {[caller |-> "marginfi", tip |-> t, pyth |-> p, shape |-> s, ours |-> o, theirs |-> <<Coll, LoanMint>>] :
          t \in BOOLEAN, p \in BOOLEAN, s \in MCShapes, o \in {<<>>, <<Coll>>}}
  \cup {[caller |-> "kamino", coll |-> c, others |-> o, cached |-> {LoanMint, Coll, x}, shape |-> s] :
          c \in {LoanMint, Coll}, o \in {<<>>, <<x, x>>, <<Coll, x, y>>}, s \in MCShapes}
  \cup {[caller |-> "sandwich"]}

VARIABLE part

workVars == <<bufVars, workerVars>>
execVars == <<tipVars, natVars>>
engineVars == <<part, workVars, execVars, bundleVars, corrVars, tpuVars, kHunterVars, healthVars,
  flashVars>>

EngineInit ==
  /\ part \in {"worker", "executor", "bundle", "correlator", "tpu", "hunter", "health", "flash"}
  /\ WorkerInit /\ NatInit /\ BundleInit /\ CorrInit /\ TpuInit /\ HunterInit
  /\ HealthInit /\ FlashInit
  /\ part # "health" => /\ threshold = ConfigThreshold
                        /\ \A r \in HReserves : reserve[r].liquidity = Min(Liquidities)
  /\ part # "flash" => /\ job = CHOOSE j \in FlashJobs : TRUE
                       /\ ata[LoanMint] = Min(Floats)
  /\ part # "executor" => fast /\ permits \in {CHOOSE n \in PermitCounts : TRUE}

EngineNext ==
  \/ /\ part = "worker" /\ WorkerNext
     /\ UNCHANGED <<part, flashVars, execVars, bundleVars, corrVars, tpuVars, kHunterVars, healthVars>>
  \/ /\ part = "executor" /\ NatNext
     /\ UNCHANGED <<part, flashVars, workVars, bundleVars, corrVars, tpuVars, kHunterVars, healthVars>>
  \/ /\ part = "bundle" /\ BundleNext
     /\ UNCHANGED <<part, flashVars, workVars, execVars, corrVars, tpuVars, kHunterVars, healthVars>>
  \/ /\ part = "correlator" /\ CorrNext
     /\ UNCHANGED <<part, flashVars, workVars, execVars, bundleVars, tpuVars, kHunterVars, healthVars>>
  \/ /\ part = "tpu" /\ TpuNext
     /\ UNCHANGED <<part, flashVars, workVars, execVars, bundleVars, corrVars, kHunterVars, healthVars>>
  \/ /\ part = "hunter" /\ HunterNext
     /\ UNCHANGED <<part, flashVars, workVars, execVars, bundleVars, corrVars, tpuVars, healthVars>>
  \/ /\ part = "health" /\ HealthNext
     /\ UNCHANGED <<part, flashVars, workVars, execVars, bundleVars, corrVars, tpuVars, kHunterVars>>
  \/ /\ part = "flash" /\ FlashStep
     /\ UNCHANGED <<part, workVars, execVars, bundleVars, corrVars, tpuVars, kHunterVars, healthVars>>

EngineSpec == EngineInit /\ [][EngineNext]_engineVars
=============================================================================
