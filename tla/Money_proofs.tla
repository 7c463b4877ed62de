----------------------------- MODULE Money_proofs -----------------------------
(***************************************************************************)
(* What the bot does with its money, for any tasks, mints, coins and       *)
(* restarts: the pump.fun budget with its snapshot file and its dedup by   *)
(* mint, the calls that reserve from it, wait for the throttle and send,   *)
(* and the treasury: sweeps, stable swaps and the watch over one wallet.   *)
(***************************************************************************)
EXTENDS PumpBuy, Treasury, FiniteSetTheorems, FunctionTheorems, TLAPS

\* A pricing gives nothing to no mint, adds the price of a new mint, takes the
\* price of a removed one, and grows with the set.
LEMMA WeightFacts ==
  /\ Weight[{}] = 0
  /\ \A S \in SUBSET Mints : Weight[S] \in Nat
  /\ \A S \in SUBSET Mints : \A m \in Mints \ S :
       Weight[S \cup {m}] = Weight[S] + Weight[{m}]
  /\ \A S \in SUBSET Mints : \A m \in S :
       Weight[S] = Weight[S \ {m}] + Weight[{m}]
  /\ \A T \in SUBSET Mints : \A S \in SUBSET T : Weight[S] <= Weight[T]
<1>1. \A S \in SUBSET Mints : Weight[S] \in Nat
  BY BudgetAssumption
<1>2. Weight[{}] = 0
  <2>1. Weight[{} \cup {}] = Weight[{}] + Weight[{}]
    BY BudgetAssumption, {} \in SUBSET Mints, {} \cap {} = {}
  <2>2. Weight[{}] = Weight[{}] + Weight[{}]
    BY <2>1, {} \cup {} = {}
  <2> QED  BY <2>2, <1>1
<1>3. ASSUME NEW S \in SUBSET Mints, NEW m \in Mints \ S
      PROVE  Weight[S \cup {m}] = Weight[S] + Weight[{m}]
  BY BudgetAssumption, {m} \in SUBSET Mints, S \cap {m} = {}
<1>4. ASSUME NEW S \in SUBSET Mints, NEW m \in S
      PROVE  Weight[S] = Weight[S \ {m}] + Weight[{m}]
  <2>1. S \ {m} \in SUBSET Mints /\ m \in Mints \ (S \ {m}) /\ (S \ {m}) \cup {m} = S
    OBVIOUS
  <2> QED  BY <2>1, <1>3
<1>5. ASSUME NEW T \in SUBSET Mints, NEW S \in SUBSET T
      PROVE  Weight[S] <= Weight[T]
  <2>1. /\ S \in SUBSET Mints /\ T \ S \in SUBSET Mints
        /\ S \cap (T \ S) = {} /\ S \cup (T \ S) = T
    OBVIOUS
  <2>2. Weight[T] = Weight[S] + Weight[T \ S]
    BY <2>1, BudgetAssumption
  <2> QED  BY <2>1, <2>2, <1>1
<1> QED  BY <1>1, <1>2, <1>3, <1>4, <1>5

---------------------------------------------------------------------------
\* No snapshot, wherever it is, counts more than the cap.
Capped == 
  /\ mem.total <= CapLamports
  /\ \A t \in Tasks : snap[t].total <= CapLamports
  /\ file.head.total <= CapLamports

\* A sent mint stays in the set and no task is about to send it again; true
\* as long as nobody releases what was sent.
SentStaysBooked ==
  /\ sentRun \subseteq mem.mints
  /\ \A t \in Tasks : pc[t] \in {"reserved", "writing", "held"} => mint[t] \notin sentRun

\* Nobody hands back, in this step, a buy that was sent.
RefundsUnsent == \A t \in Tasks : pc'[t] = "released" => pc[t] # "sent"

\* The invariant of every run, and the one of runs without refunds of sent buys.
Inv == TypeOK /\ LedgerBalanced /\ Capped /\ OneHolderPerMint

---------------------------------------------------------------------------
\* It holds at the start, and nothing is sent yet.
LEMMA InitInv == Init => Inv /\ SentStaysBooked
<1> SUFFICES ASSUME Init PROVE Inv /\ SentStaysBooked
  OBVIOUS
<1>1. TypeOK
  BY DEF Init, TypeOK, Fresh, Truncated, Snapshots, Holding
<1>2. LedgerBalanced
  BY WeightFacts DEF Init, LedgerBalanced, Balanced, Fresh, Truncated
<1>3. Capped
  BY BudgetAssumption DEF Init, Capped, Fresh, Truncated
<1>4. OneHolderPerMint /\ SentStaysBooked
  BY DEF Init, OneHolderPerMint, SentStaysBooked, Live, Holding
<1> QED  BY <1>1, <1>2, <1>3, <1>4 DEF Inv

\* A reservation books its mint and its price, and takes a snapshot.
LEMMA TryReserveInv ==
  ASSUME Inv, NEW t \in Tasks, NEW m \in Mints, TryReserve(t, m)
  PROVE  /\ Inv' 
         /\ SentStaysBooked => SentStaysBooked'
<1> DEFINE newTotal == SatAdd(mem.total, Lamports(m))
           booked   == [total |-> newTotal, mints |-> mem.mints \cup {m}]
<1>1. /\ mem.total \in Nat /\ mem.mints \in SUBSET Mints /\ Lamports(m) \in Nat
      /\ CapLamports \in Nat /\ U64Max \in Nat /\ CapLamports < U64Max
  BY WeightFacts, BudgetAssumption DEF Inv, TypeOK, Snapshots, Lamports
<1>2. newTotal \in Nat /\ newTotal <= CapLamports /\ newTotal = mem.total + Lamports(m)
  BY <1>1 DEF TryReserve, NotBought, WithinCap, SatAdd
<1>3. booked \in Snapshots
  BY <1>1, <1>2 DEF Snapshots
<1>4. Balanced(booked)
  <2>1. Weight[mem.mints \cup {m}] = Weight[mem.mints] + Weight[{m}]
    BY <1>1, WeightFacts DEF TryReserve, NotBought, WithinCap
  <2> QED  BY <1>2, <2>1 DEF Balanced, Inv, LedgerBalanced, Lamports
<1>5. /\ mem' = booked /\ snap' = [snap EXCEPT ![t] = booked]
      /\ mint' = [mint EXCEPT ![t] = m] /\ pc' = [pc EXCEPT ![t] = "reserved"]
      /\ UNCHANGED <<file, sentRun, sent, restarts>>
  BY DEF TryReserve, NotBought, WithinCap
<1> HIDE DEF newTotal, booked
<1>6. TypeOK'
  BY <1>3, <1>5 DEF Inv, TypeOK, Holding
<1>7. LedgerBalanced'
  BY <1>4, <1>5 DEF Inv, TypeOK, LedgerBalanced, Balanced
<1>8. booked.total = newTotal /\ booked.mints = mem.mints \cup {m}
  BY DEF booked
<1>9. Capped'
  BY <1>2, <1>5, <1>8 DEF Inv, TypeOK, Capped
<1>10. m \notin mem.mints /\ pc[t] = "idle"
  BY DEF TryReserve, NotBought, WithinCap
<1>11. OneHolderPerMint'
  BY <1>5, <1>8, <1>10 DEF Inv, TypeOK, OneHolderPerMint, Live, Holding
<1>12. SentStaysBooked => SentStaysBooked'
  BY <1>5, <1>8, <1>10 DEF Inv, TypeOK, SentStaysBooked
<1> QED  BY <1>6, <1>7, <1>9, <1>11, <1>12 DEF Inv

\* An opened file is empty, and an empty file contradicts nothing.
LEMMA OpenFileInv ==
  ASSUME Inv, NEW t \in Tasks, OpenFile(t)
  PROVE  Inv' /\ (SentStaysBooked => SentStaysBooked')
<1>1. TypeOK'
  BY DEF Inv, TypeOK, OpenFile, Truncated, Fresh, Snapshots, Holding, Flushing
<1>2. LedgerBalanced'
  BY WeightFacts DEF Inv, OpenFile, LedgerBalanced, Balanced, Truncated, Fresh
<1>3. Capped'
  BY BudgetAssumption DEF Inv, OpenFile, Capped, Truncated, Fresh
<1>4. OneHolderPerMint' /\ (SentStaysBooked => SentStaysBooked')
  BY DEF Inv, TypeOK, OpenFile, OneHolderPerMint, SentStaysBooked, Live, Holding, Flushing
<1> QED  BY <1>1, <1>2, <1>3, <1>4 DEF Inv

\* A written one is the snapshot laid over what was there.
LEMMA WriteFileInv ==
  ASSUME Inv, NEW t \in Tasks, WriteFile(t)
  PROVE  Inv' /\ (SentStaysBooked => SentStaysBooked')
<1>1. snap[t] \in Snapshots
  BY DEF Inv, TypeOK
<1>2. Size(snap[t]) \in Nat
  <2>1. IsFiniteSet(snap[t].mints)
    BY <1>1, BudgetAssumption, FS_Subset DEF Snapshots
  <2> QED  BY <2>1, FS_CardinalityType DEF Size
<1>3. file'.head = snap[t] /\ file' \in [head : Snapshots, len : Nat]
  BY <1>1, <1>2 DEF Inv, TypeOK, WriteFile, Overlay
<1>4. pc' = [pc EXCEPT ![t] = Returned(pc[t])] /\ pc[t] \in Opened
  BY DEF WriteFile
<1>5. UNCHANGED <<mem, mint, snap, sentRun, sent, restarts>>
  BY DEF WriteFile
<1>6. TypeOK'
  BY <1>3, <1>4, <1>5 DEF Inv, TypeOK, Returned, Holding
<1>7. LedgerBalanced' /\ Capped'
  BY <1>3, <1>5 DEF Inv, LedgerBalanced, Balanced, Capped
<1>8. OneHolderPerMint' /\ (SentStaysBooked => SentStaysBooked')
  BY <1>4, <1>5 DEF Inv, TypeOK, OneHolderPerMint, SentStaysBooked, Live,
                    Returned, Holding, Opened
<1> QED  BY <1>6, <1>7, <1>8 DEF Inv

\* A failed write changes no reservation.
LEMMA WriteFailsInv ==
  ASSUME Inv, NEW t \in Tasks, WriteFails(t)
  PROVE  Inv' /\ (SentStaysBooked => SentStaysBooked')
<1>1. TypeOK'
  BY DEF Inv, TypeOK, WriteFails, Returned, Holding
<1>2. LedgerBalanced' /\ Capped'
  BY DEF Inv, WriteFails, LedgerBalanced, Balanced, Capped
<1>3. OneHolderPerMint' /\ (SentStaysBooked => SentStaysBooked')
  BY DEF Inv, TypeOK, WriteFails, OneHolderPerMint, SentStaysBooked, Live,
         Returned, Holding, Flushing, Opened
<1> QED  BY <1>1, <1>2, <1>3 DEF Inv

\* A sent buy stays booked.
LEMMA SpendInv ==
  ASSUME Inv, NEW t \in Tasks, Spend(t)
  PROVE  Inv' /\ (SentStaysBooked => SentStaysBooked')
<1>1. mint[t] \in mem.mints /\ mem.mints \in SUBSET Mints
  BY DEF Inv, TypeOK, Snapshots, Spend, OneHolderPerMint, Live, Holding
<1>2. TypeOK'
  BY <1>1 DEF Inv, TypeOK, Spend, Holding
<1>3. LedgerBalanced' /\ Capped'
  BY DEF Inv, Spend, LedgerBalanced, Balanced, Capped
<1>4. OneHolderPerMint'
  BY DEF Inv, TypeOK, Spend, OneHolderPerMint, Live, Holding
<1>5. SentStaysBooked => SentStaysBooked'
  BY <1>1 DEF Inv, TypeOK, Spend, SentStaysBooked, OneHolderPerMint, Live, Holding
<1> QED  BY <1>2, <1>3, <1>4, <1>5 DEF Inv

\* A release takes the mint and its price back.
LEMMA ReleaseInv ==
  ASSUME Inv, NEW t \in Tasks, Release(t)
  PROVE  Inv' /\ (RefundsUnsent /\ SentStaysBooked => SentStaysBooked')
<1> DEFINE left == [total |-> SatSub(mem.total, Lamports(mint[t])),
                    mints |-> mem.mints \ {mint[t]}]
<1>1. pc[t] \in {"held", "sent"} /\ mint[t] \in mem.mints
  BY DEF Inv, TypeOK, Release, Refundable, OneHolderPerMint, Live, Holding
<1>2. mem.total \in Nat /\ mem.mints \in SUBSET Mints /\ CapLamports \in Nat
  BY BudgetAssumption DEF Inv, TypeOK, Snapshots
<1>3. Weight[mem.mints] = Weight[mem.mints \ {mint[t]}] + Lamports(mint[t])
  BY <1>1, <1>2, WeightFacts DEF Lamports
<1>4. Lamports(mint[t]) \in Nat /\ Weight[mem.mints \ {mint[t]}] \in Nat
  BY <1>1, <1>2, WeightFacts DEF Lamports
<1>5. left.total = Weight[mem.mints \ {mint[t]}] /\ left.total <= CapLamports
  BY <1>2, <1>3, <1>4 DEF Inv, LedgerBalanced, Balanced, Capped, SatSub
<1>6. left \in Snapshots /\ Balanced(left) /\ left.mints = mem.mints \ {mint[t]}
  BY <1>2, <1>4, <1>5 DEF Snapshots, Balanced
<1>7. /\ mem' = left /\ snap' = [snap EXCEPT ![t] = left]
      /\ pc' = [pc EXCEPT ![t] = "released"]
      /\ UNCHANGED <<file, mint, sentRun, sent, restarts>>
  BY DEF Release, Refundable
<1> HIDE DEF left
<1>8. TypeOK'
  BY <1>6, <1>7 DEF Inv, TypeOK
<1>9. LedgerBalanced' /\ Capped'
  BY <1>5, <1>6, <1>7 DEF Inv, TypeOK, LedgerBalanced, Balanced, Capped
<1>10. OneHolderPerMint'
  BY <1>1, <1>6, <1>7 DEF Inv, TypeOK, OneHolderPerMint, Live, Holding
<1>11. ASSUME RefundsUnsent, SentStaysBooked PROVE SentStaysBooked'
  <2>1. pc[t] = "held" /\ mint[t] \notin sentRun
    BY <1>1, <1>7, <1>11 DEF Inv, TypeOK, RefundsUnsent, SentStaysBooked
  <2> QED  BY <2>1, <1>6, <1>7, <1>11 DEF Inv, TypeOK, SentStaysBooked
<1> QED  BY <1>8, <1>9, <1>10, <1>11 DEF Inv

\* A task that has ended holds nothing.
LEMMA FinishInv ==
  ASSUME Inv, NEW t \in Tasks, Finish(t)
  PROVE  Inv' /\ (SentStaysBooked => SentStaysBooked')
<1>1. TypeOK'
  BY DEF Inv, TypeOK, Finish
<1>2. LedgerBalanced' /\ Capped'
  BY DEF Inv, Finish, LedgerBalanced, Balanced, Capped
<1>3. OneHolderPerMint' /\ (SentStaysBooked => SentStaysBooked')
  BY DEF Inv, TypeOK, Finish, OneHolderPerMint, SentStaysBooked, Live, Holding
<1> QED  BY <1>1, <1>2, <1>3 DEF Inv

\* After a restart nobody holds a reservation.
LEMMA RestartInv ==
  ASSUME Inv, Restart
  PROVE  Inv' /\ SentStaysBooked'
<1>1. Fresh \in Snapshots /\ Balanced(Fresh) /\ Fresh.total <= CapLamports
  BY WeightFacts, BudgetAssumption DEF Fresh, Snapshots, Balanced
<1>2. mem' \in {file.head, Fresh}
  BY DEF Restart, Load
<1>3. TypeOK'
  BY <1>1, <1>2 DEF Inv, TypeOK, Restart
<1>4. LedgerBalanced' /\ Capped'
  BY <1>1, <1>2 DEF Inv, TypeOK, Restart, LedgerBalanced, Balanced, Capped
<1>5. OneHolderPerMint' /\ SentStaysBooked'
  BY DEF Inv, Restart, OneHolderPerMint, SentStaysBooked, Live, Holding
<1> QED  BY <1>3, <1>4, <1>5 DEF Inv

\* Every step of the budget keeps the invariant.
LEMMA NextInv ==
  ASSUME Inv, [Next]_vars
  PROVE  Inv' /\ (RefundsUnsent /\ SentStaysBooked => SentStaysBooked')
<1>1. CASE Restart
  BY <1>1, RestartInv
<1>2. ASSUME NEW t \in Tasks, Step(t)
      PROVE  Inv' /\ (RefundsUnsent /\ SentStaysBooked => SentStaysBooked')
  BY <1>2, TryReserveInv, OpenFileInv, WriteFileInv, WriteFailsInv, SpendInv,
     ReleaseInv, FinishInv DEF Step
<1>3. CASE UNCHANGED vars
  BY <1>3 DEF vars, Inv, TypeOK, LedgerBalanced, Balanced, Capped,
              OneHolderPerMint, SentStaysBooked, Live
<1> QED  BY <1>1, <1>2, <1>3 DEF Next

\* Callers that may not release after a send do not.
LEMMA NoLateRefund ==
  ASSUME Inv, ~RefundAfterSend, [Next]_vars
  PROVE  RefundsUnsent
<1>1. ASSUME NEW t \in Tasks, Step(t) PROVE RefundsUnsent
  <2>1. CASE Release(t)
    BY <1>1, <2>1 DEF Inv, TypeOK, Release, Refundable, RefundsUnsent
  <2>2. CASE \E m \in Mints : TryReserve(t, m)
    BY <2>2 DEF Inv, TypeOK, TryReserve, RefundsUnsent
  <2>3. CASE OpenFile(t) \/ WriteFile(t) \/ WriteFails(t)
    BY <2>3 DEF Inv, TypeOK, OpenFile, WriteFile, WriteFails, Returned, Holding, Flushing,
                Opened, RefundsUnsent
  <2>4. CASE Spend(t) \/ Finish(t)
    BY <2>4 DEF Inv, TypeOK, Spend, Finish, RefundsUnsent
  <2> QED  BY <1>1, <2>1, <2>2, <2>3, <2>4 DEF Step
<1>2. CASE Restart
  BY <1>2 DEF Restart, RefundsUnsent
<1>3. CASE UNCHANGED vars
  BY <1>3 DEF vars, RefundsUnsent
<1> QED  BY <1>1, <1>2, <1>3 DEF Next

---------------------------------------------------------------------------
\* The state keeps its types: pump_sniper_budget.rs has no underflow and no
\* overflow of the counter.
THEOREM TypeCorrect == Spec => []TypeOK
<1>1. Inv => TypeOK
  BY DEF Inv
<1> QED  BY <1>1, InitInv, NextInv, PTL DEF Spec

\* Counter and mint set agree in memory, in every snapshot under way and in
\* the file, for every number of tasks and every interleaving of their writes.
THEOREM LedgerCorrect == Spec => []LedgerBalanced
<1>1. Inv => LedgerBalanced
  BY DEF Inv
<1> QED  BY <1>1, InitInv, NextInv, PTL DEF Spec

\* At most one task holds a reservation for a mint, with or without refunds.
THEOREM DedupCorrect == Spec => []OneHolderPerMint
<1>1. Inv => OneHolderPerMint
  BY DEF Inv
<1> QED  BY <1>1, InitInv, NextInv, PTL DEF Spec

\* Without refunds of sent buys, the buys of one run never cost more than the
\* cap together.
THEOREM CapCorrect == ASSUME ~RefundAfterSend PROVE Spec => []SpentWithinCap
<1>1. Inv /\ SentStaysBooked => SpentWithinCap
  <2> SUFFICES ASSUME Inv, SentStaysBooked PROVE SpentWithinCap
    OBVIOUS
  <2>1. mem.mints \in SUBSET Mints /\ mem.total \in Nat /\ CapLamports \in Nat
    BY BudgetAssumption DEF Inv, TypeOK, Snapshots
  <2>2. Weight[sentRun] <= Weight[mem.mints] /\ Weight[sentRun] \in Nat
    BY <2>1, WeightFacts DEF SentStaysBooked
  <2>3. Weight[mem.mints] = mem.total /\ mem.total <= CapLamports
    BY DEF Inv, LedgerBalanced, Balanced, Capped
  <2> QED  BY <2>1, <2>2, <2>3 DEF SpentWithinCap
<1>2. Inv /\ SentStaysBooked /\ [Next]_vars => (Inv /\ SentStaysBooked)'
  BY NextInv, NoLateRefund
<1> QED  BY <1>1, <1>2, InitInv, PTL DEF Spec

\* Without refunds of sent buys, no mint is bought twice in one run.
THEOREM NoDoubleBuy == ASSUME ~RefundAfterSend PROVE Spec => NeverBoughtTwice
<1>1. Inv /\ SentStaysBooked /\ [Next]_vars
        => [\A t \in Tasks : pc[t] = "held" /\ pc'[t] = "sent"
                               => mint[t] \notin sentRun]_vars
  BY DEF SentStaysBooked
<1>2. Inv /\ SentStaysBooked /\ [Next]_vars => (Inv /\ SentStaysBooked)'
  BY NextInv, NoLateRefund
<1> QED  BY <1>1, <1>2, InitInv, PTL DEF Spec, NeverBoughtTwice

\* Unless it hands back a sent buy, a step of a task or a restart is a step of the
\* abstract ledger or changes nothing it shows.
LEMMA NextLedger ==
  ASSUME Inv, SentStaysBooked, RefundsUnsent, [Next]_vars
  PROVE  [Ledger!LedgerNext]_(Ledger!ledgerVars)
<1> USE DEF Ledger!ledgerVars
<1>1. ASSUME NEW t \in Tasks, NEW m \in Mints, TryReserve(t, m)
      PROVE  Ledger!Book(m)
  <2>1. /\ mem.total \in Nat /\ mem.mints \in SUBSET Mints /\ Lamports(m) \in Nat
        /\ CapLamports \in Nat /\ U64Max \in Nat /\ CapLamports < U64Max
    BY WeightFacts, BudgetAssumption DEF Inv, TypeOK, Snapshots, Lamports
  <2>2. m \notin mem.mints /\ mem.total + Lamports(m) <= CapLamports
    BY <1>1, <2>1 DEF TryReserve, NotBought, WithinCap, SatAdd
  <2>3. Weight[mem.mints \cup {m}] = mem.total + Lamports(m)
    <3>1. Weight[mem.mints \cup {m}] = Weight[mem.mints] + Weight[{m}]
      BY <2>1, <2>2, WeightFacts
    <3> QED  BY <3>1 DEF Inv, LedgerBalanced, Balanced, Lamports
  <2>4. mem'.mints = mem.mints \cup {m} /\ sentRun' = sentRun
    BY <1>1 DEF TryReserve, NotBought, WithinCap
  <2> QED  BY <2>2, <2>3, <2>4 DEF Ledger!Book, Ledger!Affordable
<1>2. ASSUME NEW t \in Tasks, OpenFile(t) \/ WriteFile(t) \/ WriteFails(t) \/ Finish(t)
      PROVE  UNCHANGED Ledger!ledgerVars
  BY <1>2 DEF OpenFile, WriteFile, WriteFails, Finish
<1>3. ASSUME NEW t \in Tasks, Spend(t)
      PROVE  mint[t] \in Mints /\ Ledger!Buy(mint[t])
  <2>1. mint[t] \in mem.mints /\ mint[t] \notin sentRun /\ mint[t] \in Mints
    BY <1>3 DEF Inv, TypeOK, Snapshots, Spend, OneHolderPerMint, Live, Holding,
                SentStaysBooked
  <2> QED  BY <1>3, <2>1 DEF Spend, Ledger!Buy
<1>4. ASSUME NEW t \in Tasks, Release(t)
      PROVE  mint[t] \in Mints /\ Ledger!HandBack(mint[t])
  <2>1. mint[t] \in mem.mints /\ mint[t] \notin sentRun /\ mint[t] \in Mints
    <3>1. pc[t] = "held"
      BY <1>4 DEF Inv, TypeOK, Release, Refundable, RefundsUnsent
    <3> QED  BY <3>1 DEF Inv, TypeOK, Snapshots, OneHolderPerMint, Live, Holding, SentStaysBooked
  <2> QED  BY <1>4, <2>1 DEF Release, Refundable, Ledger!HandBack
<1>5. ASSUME Restart PROVE Ledger!Rerun
  <2>1. mem' \in {file.head, Fresh}
    BY <1>5 DEF Restart, Load
  <2>2. mem' \in Snapshots /\ Balanced(mem') /\ mem'.total <= CapLamports
    BY <2>1, WeightFacts, BudgetAssumption
       DEF Inv, TypeOK, LedgerBalanced, Capped, Fresh, Snapshots, Balanced
  <2>3. sentRun' = {}
    BY <1>5 DEF Restart
  <2> QED  BY <2>2, <2>3 DEF Ledger!Rerun, Ledger!Affordable, Snapshots, Balanced
<1>6. CASE UNCHANGED vars
  BY <1>6 DEF vars
<1> QED  BY <1>1, <1>2, <1>3, <1>4, <1>5, <1>6 DEF Next, Step, Ledger!LedgerNext

\* For every number of tasks and every disk, the budget implements the
\* abstract ledger as long as nobody hands back a buy that was sent.
THEOREM LedgerImplemented == ASSUME ~RefundAfterSend PROVE Spec => ImplementsLedger
<1>1. Init => Ledger!LedgerInit
  BY DEF Init, Fresh, Ledger!LedgerInit
<1>2. Inv /\ SentStaysBooked /\ [Next]_vars => (Inv /\ SentStaysBooked)'
  BY NextInv, NoLateRefund
<1>3. Inv /\ SentStaysBooked /\ [Next]_vars => [Ledger!LedgerNext]_(Ledger!ledgerVars)
  BY NextLedger, NoLateRefund
<1> QED  BY <1>1, <1>2, <1>3, InitInv, PTL DEF Spec, ImplementsLedger, Ledger!LedgerSpec

---------------------------------------------------------------------------
\* A call that still reads the curve has sent nothing; a call is of a kind
\* that is enabled.
CallsInOrder ==
  \A t \in Tasks :
    /\ at[t] = "curve" => pc[t] # "sent"
    /\ at[t] # "none" => kind[t] \in Kinds

\* Unless a request is out, the time since the last good one is at least the
\* age of the stamp, which was taken when its reply came.
StampIsLate == lastOk /\ (\A t \in Tasks : at[t] # "sending") => gap >= stamp

\* The invariant: the budget's, and that of the calls.
BuyInv == Inv /\ CallsSound /\ CallsInOrder /\ StampIsLate

\* It holds before the first call.
LEMMA BuyInitInv == BuyInit => BuyInv /\ SentStaysBooked
<1> SUFFICES ASSUME BuyInit PROVE BuyInv /\ SentStaysBooked
  OBVIOUS
<1>1. Inv /\ SentStaysBooked
  BY InitInv DEF BuyInit
<1>2. BuyTypeOK
  <2>1. stamp \in 0 .. Interval /\ gap \in 0 .. Interval
    BY BuyAssumption DEF BuyInit
  <2>2. at \in [Tasks -> Places] /\ kind \in [Tasks -> AllKinds \cup {"none"}]
    BY DEF BuyInit, Places
  <2>3. throttle \in Tasks \cup {NoTask} /\ lastOk \in BOOLEAN
    BY DEF BuyInit
  <2> QED  BY <1>1, <2>1, <2>2, <2>3 DEF BuyTypeOK, Inv
<1>3. CallHoldsReservation
  BY BuyAssumption DEF BuyInit, Init, CallHoldsReservation
<1>4. CallsInOrder /\ StampIsLate
  BY DEF BuyInit, CallsInOrder, StampIsLate
<1> QED  BY <1>1, <1>2, <1>3, <1>4 DEF BuyInv, CallsSound

\* Every step of a call is a step of the budget, or none.
LEMMA BudgetStep == [BuyNext]_allVars => [Next]_vars
<1> SUFFICES ASSUME [BuyNext]_allVars PROVE [Next]_vars
  OBVIOUS
<1>1. ASSUME NEW t \in Tasks, NEW m \in Mints, NEW k \in Kinds, Call(t, m, k) PROVE [Next]_vars
  BY <1>1 DEF Call, Next, Step
<1>2. ASSUME NEW t \in Tasks,
             BudgetIO(t) \/ MayhemSkip(t) \/ CurveRead(t) \/ BuildFails(t) \/ Built(t)
      PROVE  [Next]_vars
  BY <1>2 DEF BudgetIO, MayhemSkip, CurveRead, BuildFails, Built, ReturnKeeping, Next, Step
<1>3. ASSUME NEW t \in Tasks, LockThrottle(t) \/ HolderStep(t) \/ Accept(t)
      PROVE  [Next]_vars
  BY <1>3 DEF LockThrottle, HolderStep, SenderMissing, Dispatch, ReplyOk, ReplyError,
              FailedSend, Accept, ReturnKeeping, Next, Step
<1>4. ASSUME NEW t \in Tasks, BuyConfirmed(t) \/ BuyNotConfirmed(t) \/ SellDone(t)
      PROVE  [Next]_vars
  BY <1>4 DEF BuyConfirmed, BuyNotConfirmed, SellDone, ReturnKeeping, Next, Step
<1>5. CASE Tick
  BY <1>5 DEF Tick
<1>6. CASE BuyRestart
  BY <1>6 DEF BuyRestart, Next
<1>7. CASE UNCHANGED allVars
  BY <1>7 DEF allVars
<1> QED  BY <1>1, <1>2, <1>3, <1>4, <1>5, <1>6, <1>7 DEF BuyNext

---------------------------------------------------------------------------
\* What a step must keep besides the budget's own invariant.
Kept == CallsSound /\ CallsInOrder /\ StampIsLate

\* A new call keeps what is said of calls: it begins with its reservation.
LEMMA CallKeeps ==
  ASSUME BuyInv, Inv', NEW t \in Tasks, NEW m \in Mints, NEW k \in Kinds, Call(t, m, k)
  PROVE  Kept'
<1> USE DEF BuyInv, CallsSound, Goto
<1>1. BuyTypeOK'
  BY BuyAssumption DEF Call, BuyTypeOK, Inv, Places
<1>2. CallHoldsReservation'
  BY DEF Call, TryReserve, CallHoldsReservation, BuyTypeOK, TypeOK, Live, Holding
<1>3. CallsInOrder' /\ StampIsLate'
  BY DEF Call, TryReserve, CallsInOrder, StampIsLate, BuyTypeOK, TypeOK
<1> QED  BY <1>1, <1>2, <1>3 DEF Kept

\* Writing the file moves no call past the throttle.
LEMMA BudgetIOKeeps ==
  ASSUME BuyInv, Inv', NEW t \in Tasks, BudgetIO(t)
  PROVE  Kept'
<1> USE DEF BuyInv, CallsSound
<1>1. /\ UNCHANGED buyVars
      /\ pc' \in {[pc EXCEPT ![t] = IF @ = "reserved" THEN "writing" ELSE "rewriting"],
                  [pc EXCEPT ![t] = Returned(@)]}
      /\ pc[t] \in Flushing \cup Opened
  BY DEF BudgetIO, OpenFile, WriteFile, WriteFails
<1>2. ASSUME pc' = [pc EXCEPT ![t] = IF @ = "reserved" THEN "writing" ELSE "rewriting"],
             pc[t] \in Flushing
      PROVE  CallHoldsReservation' /\ CallsInOrder'
  BY <1>1, <1>2 DEF buyVars, CallHoldsReservation, CallsInOrder, BuyTypeOK, TypeOK, Live, Holding,
                    Flushing
<1>3. ASSUME pc' = [pc EXCEPT ![t] = Returned(@)]
      PROVE  CallHoldsReservation' /\ CallsInOrder'
  BY <1>1, <1>3 DEF buyVars, CallHoldsReservation, CallsInOrder, BuyTypeOK, TypeOK, Live, Holding,
                    Flushing, Opened, Returned
<1>4. BuyTypeOK' /\ StampIsLate'
  BY <1>1 DEF buyVars, BuyTypeOK, Inv, StampIsLate
<1>5. \/ pc' = [pc EXCEPT ![t] = Returned(@)]
      \/ /\ pc' = [pc EXCEPT ![t] = IF @ = "reserved" THEN "writing" ELSE "rewriting"]
         /\ pc[t] \in Flushing
  BY DEF BudgetIO, OpenFile, WriteFile, WriteFails
<1> QED  BY <1>2, <1>3, <1>4, <1>5 DEF Kept

\* The steps between reserving and queueing.
LEMMA BuildKeeps ==
  ASSUME BuyInv, Inv', NEW t \in Tasks,
         MayhemSkip(t) \/ CurveRead(t) \/ BuildFails(t) \/ Built(t)
  PROVE  Kept'
<1> USE DEF BuyInv, CallsSound, Goto, MayhemSkip, CurveRead, BuildFails, Built, ReturnKeeping,
            Finish, Release
<1>1. BuyTypeOK'
  BY DEF BuyTypeOK, Inv, Places
<1>2. CallHoldsReservation'
  BY DEF CallHoldsReservation, BuyTypeOK, TypeOK, vars, Live, Holding
<1>3. CallsInOrder'
  BY DEF CallsInOrder, BuyTypeOK, TypeOK, vars
<1>4. StampIsLate'
  BY DEF StampIsLate, BuyTypeOK
<1> QED  BY <1>1, <1>2, <1>3, <1>4 DEF Kept

\* The throttle goes to one task at a time.
LEMMA LockKeeps ==
  ASSUME BuyInv, Inv', NEW t \in Tasks, LockThrottle(t)
  PROVE  Kept'
<1> USE DEF BuyInv, CallsSound, Goto, LockThrottle
<1>1. BuyTypeOK'
  BY DEF BuyTypeOK, Inv, Places
<1>2. CallHoldsReservation'
  BY BuyAssumption DEF CallHoldsReservation, BuyTypeOK, TypeOK, vars, Live, Holding
<1>3. CallsInOrder' /\ StampIsLate'
  BY DEF CallsInOrder, StampIsLate, BuyTypeOK, TypeOK, vars
<1> QED  BY <1>1, <1>2, <1>3 DEF Kept

\* The steps that hold the throttle.
LEMMA DispatchKeeps ==
  ASSUME BuyInv, Inv', NEW t \in Tasks, Dispatch(t)
  PROVE  Kept'
<1> USE DEF BuyInv, CallsSound, Goto, Dispatch, Slept
<1>1. BuyTypeOK'
  BY BuyAssumption DEF BuyTypeOK, Inv, Places
<1>2. CallHoldsReservation'
  BY DEF CallHoldsReservation, BuyTypeOK, TypeOK, vars, Live, Holding
<1>3. CallsInOrder' /\ StampIsLate'
  BY DEF CallsInOrder, StampIsLate, BuyTypeOK, TypeOK, vars
<1> QED  BY <1>1, <1>2, <1>3 DEF Kept

\* A call that leaves for want of a sender gives the throttle back.
LEMMA SenderMissingKeeps ==
  ASSUME BuyInv, Inv', NEW t \in Tasks, SenderMissing(t)
  PROVE  Kept'
<1> USE DEF BuyInv, CallsSound, Goto, SenderMissing, Slept, ReturnKeeping, Finish
<1>1. BuyTypeOK'
  BY DEF BuyTypeOK, Inv, Places
<1>2. CallHoldsReservation'
  BY BuyAssumption DEF CallHoldsReservation, BuyTypeOK, TypeOK, Live, Holding
<1>3. CallsInOrder'
  BY DEF CallsInOrder, BuyTypeOK, TypeOK
<1>4. \A u \in Tasks : at[u] # "sending"
  BY DEF CallHoldsReservation
<1>5. StampIsLate'
  BY <1>4 DEF StampIsLate
<1> QED  BY <1>1, <1>2, <1>3, <1>5 DEF Kept

\* The other side takes a request whether or not its answer comes.
LEMMA AcceptKeeps ==
  ASSUME BuyInv, Inv', NEW t \in Tasks, Accept(t)
  PROVE  Kept'
<1> USE DEF BuyInv, CallsSound, Accept, Spend, buyVars
<1>1. BuyTypeOK' /\ StampIsLate'
  BY DEF BuyTypeOK, Inv, StampIsLate
<1>2. CallHoldsReservation' /\ CallsInOrder'
  BY DEF CallHoldsReservation, CallsInOrder, BuyTypeOK, TypeOK, Live, Holding
<1> QED  BY <1>1, <1>2 DEF Kept

\* An answer stamps the throttle and gives it back.
LEMMA ReplyOkKeeps ==
  ASSUME BuyInv, Inv', NEW t \in Tasks, ReplyOk(t)
  PROVE  Kept'
<1> USE DEF BuyInv, CallsSound, Goto, ReplyOk, ReturnKeeping, Finish
<1>1. BuyTypeOK'
  BY BuyAssumption DEF BuyTypeOK, Inv, Places
<1>2. CallHoldsReservation'
  BY BuyAssumption DEF CallHoldsReservation, BuyTypeOK, TypeOK, vars, Live, Holding
<1>3. CallsInOrder' /\ StampIsLate'
  BY BuyAssumption DEF CallsInOrder, StampIsLate, BuyTypeOK, TypeOK, vars
<1> QED  BY <1>1, <1>2, <1>3 DEF Kept

\* An error gives it back without a stamp.
LEMMA ReplyErrorKeeps ==
  ASSUME BuyInv, Inv', NEW t \in Tasks, ReplyError(t)
  PROVE  Kept'
<1> USE DEF BuyInv, CallsSound, Goto, ReplyError, FailedSend, Finish, Release
<1>1. BuyTypeOK'
  BY DEF BuyTypeOK, Inv, Places
<1>2. CallHoldsReservation'
  BY BuyAssumption DEF CallHoldsReservation, BuyTypeOK, TypeOK, Live, Holding
<1>3. CallsInOrder' /\ StampIsLate'
  BY DEF CallsInOrder, StampIsLate, BuyTypeOK, TypeOK
<1> QED  BY <1>1, <1>2, <1>3 DEF Kept

\* What follows a buy that went out leaves the throttle alone.
LEMMA SellKeeps ==
  ASSUME BuyInv, Inv', NEW t \in Tasks, BuyConfirmed(t) \/ BuyNotConfirmed(t) \/ SellDone(t)
  PROVE  Kept'
<1> USE DEF BuyInv, CallsSound, Goto, BuyConfirmed, BuyNotConfirmed, SellDone, ReturnKeeping, Finish
<1>1. BuyTypeOK'
  BY DEF BuyTypeOK, Inv, Places
<1>2. CallHoldsReservation'
  BY DEF CallHoldsReservation, BuyTypeOK, TypeOK, vars, Live, Holding
<1>3. CallsInOrder' /\ StampIsLate'
  BY DEF CallsInOrder, StampIsLate, BuyTypeOK, TypeOK, vars
<1> QED  BY <1>1, <1>2, <1>3 DEF Kept

\* Time ages stamp and gap alike.
LEMMA TickKeeps ==
  ASSUME BuyInv, Inv', Tick
  PROVE  Kept'
<1> USE DEF BuyInv, CallsSound, Tick, Older
<1>1. BuyTypeOK'
  BY BuyAssumption DEF BuyTypeOK, Inv
<1>2. CallHoldsReservation' /\ CallsInOrder'
  BY DEF CallHoldsReservation, CallsInOrder, vars, Live
<1>3. StampIsLate'
  BY BuyAssumption DEF StampIsLate, BuyTypeOK
<1> QED  BY <1>1, <1>2, <1>3 DEF Kept

\* A restart forgets the calls.
LEMMA BuyRestartKeeps ==
  ASSUME BuyInv, Inv', BuyRestart
  PROVE  Kept'
<1> USE DEF BuyInv, CallsSound, BuyRestart
<1>1. BuyTypeOK'
  <2>1. stamp' \in 0 .. Interval /\ gap' \in 0 .. Interval
    BY BuyAssumption DEF BuyTypeOK
  <2>2. at' \in [Tasks -> Places] /\ kind' \in [Tasks -> AllKinds \cup {"none"}]
    BY DEF Places
  <2>3. throttle' \in Tasks \cup {NoTask} /\ lastOk' \in BOOLEAN
    OBVIOUS
  <2> QED  BY <2>1, <2>2, <2>3 DEF BuyTypeOK, Inv
<1>2. CallHoldsReservation' /\ CallsInOrder' /\ StampIsLate'
  BY BuyAssumption DEF Restart, CallHoldsReservation, CallsInOrder, StampIsLate
<1> QED  BY <1>1, <1>2 DEF Kept

\* Every step of the buys keeps the invariant.
LEMMA BuyNextInv == BuyInv /\ [BuyNext]_allVars => BuyInv'
<1> SUFFICES ASSUME BuyInv, [BuyNext]_allVars PROVE BuyInv'
  OBVIOUS
<1>1. Inv'
  BY BudgetStep, NextInv DEF BuyInv
<1>2. ASSUME NEW t \in Tasks, HolderStep(t) PROVE Kept'
  BY <1>1, <1>2, SenderMissingKeeps, DispatchKeeps, ReplyOkKeeps, ReplyErrorKeeps DEF HolderStep
<1>3. ASSUME UNCHANGED allVars PROVE Kept'
  BY <1>1, <1>3 DEF allVars, buyVars, vars, BuyInv, Kept, CallsSound, BuyTypeOK, Inv,
                    CallHoldsReservation, CallsInOrder, StampIsLate, Live
<1>4. Kept'
  BY <1>1, <1>2, <1>3, CallKeeps, BudgetIOKeeps, BuildKeeps, LockKeeps, AcceptKeeps, SellKeeps,
     TickKeeps, BuyRestartKeeps DEF BuyNext
<1> QED  BY <1>1, <1>4 DEF Kept, BuyInv

---------------------------------------------------------------------------
\* Types hold, a call past try_reserve holds its reservation until it returns,
\* and whoever sleeps or sends holds the throttle, alone: on every error path,
\* after every lost reply and every restart.
THEOREM CallsCorrect == BuySpec => []CallsSound
<1>1. BuyInv => CallsSound
  BY DEF BuyInv
<1> QED  BY <1>1, BuyInitInv, BuyNextInv, PTL DEF BuySpec

\* executor.rs:269: between a successful send and the next request lies the
\* configured interval, for any number of tasks.
THEOREM SendsAreSpaced == BuySpec => SuccessfulSendsSpaced
<1>1. BuyInv /\ [BuyNext]_allVars
        => [\A t \in Tasks : at[t] = "throttle" /\ at'[t] = "sending" /\ lastOk
                               => gap >= Interval]_allVars
  <2> SUFFICES ASSUME BuyInv, BuyNext, NEW t \in Tasks,
                      at[t] = "throttle", at'[t] = "sending", lastOk
               PROVE  gap >= Interval
    BY DEF allVars
  <2>1. \A u \in Tasks : at[u] # "sending"
    BY DEF BuyInv, CallsSound, CallHoldsReservation
  <2>2. gap >= stamp /\ stamp \in 0 .. Interval /\ gap \in 0 .. Interval
    BY <2>1 DEF BuyInv, StampIsLate, CallsSound, BuyTypeOK
  <2>3. stamp >= Interval
    <3>1. ASSUME NEW u \in Tasks, Dispatch(u) PROVE u = t
      BY <3>1 DEF Dispatch, Slept, BuyInv, CallsSound, CallHoldsReservation
    <3>2. \E u \in Tasks : Dispatch(u)
      <4> USE DEF BuyInv, CallsSound, BuyTypeOK, Goto
      <4>1. ASSUME NEW u \in Tasks, at' = [at EXCEPT ![u] = at'[u]], at'[u] # "sending"
            PROVE  FALSE
        BY <4>1
      <4>2. ASSUME NEW u \in Tasks, NEW m \in Mints, NEW k \in Kinds, Call(u, m, k) PROVE FALSE
        BY <4>1, <4>2 DEF Call
      <4>3. ASSUME NEW u \in Tasks, BudgetIO(u) \/ Accept(u) PROVE FALSE
        BY <4>3 DEF BudgetIO, Accept, buyVars
      <4>4. ASSUME NEW u \in Tasks, MayhemSkip(u) \/ CurveRead(u) \/ BuildFails(u) \/ Built(u)
            PROVE  FALSE
        BY <4>1, <4>4 DEF MayhemSkip, CurveRead, BuildFails, Built, ReturnKeeping
      <4>5. ASSUME NEW u \in Tasks, LockThrottle(u) \/ BuyConfirmed(u) \/ BuyNotConfirmed(u)
                                    \/ SellDone(u)
            PROVE  FALSE
        BY <4>1, <4>5 DEF LockThrottle, BuyConfirmed, BuyNotConfirmed, SellDone, ReturnKeeping
      <4>6. ASSUME NEW u \in Tasks, SenderMissing(u) \/ ReplyOk(u) \/ ReplyError(u) PROVE FALSE
        BY <4>1, <4>6 DEF SenderMissing, ReplyOk, ReplyError, ReturnKeeping
      <4>7. CASE Tick \/ BuyRestart
        BY <4>7 DEF Tick, BuyRestart
      <4> QED  BY <4>2, <4>3, <4>4, <4>5, <4>6, <4>7 DEF BuyNext, HolderStep
    <3> QED  BY <3>1, <3>2 DEF Dispatch, Slept
  <2> QED  BY <2>2, <2>3, BuyAssumption
<1> QED  BY <1>1, BuyInitInv, BuyNextInv, PTL DEF BuySpec, SuccessfulSendsSpaced

---------------------------------------------------------------------------
\* Without the bundle path nobody hands back a buy that was sent, though the
\* budget would let him.
LEMMA OnlyBundlesRefund ==
  ASSUME BuyInv, [BuyNext]_allVars, "bundle" \notin Kinds
  PROVE  RefundsUnsent
<1> USE DEF BuyInv, CallsSound, BuyTypeOK, TypeOK
<1>1. ASSUME NEW t \in Tasks, MayhemSkip(t) PROVE RefundsUnsent
  BY <1>1 DEF MayhemSkip, Release, RefundsUnsent, CallsInOrder
<1>2. ASSUME NEW t \in Tasks, ReplyError(t) PROVE RefundsUnsent
  <2>1. Finish(t)
    BY <1>2 DEF ReplyError, FailedSend, CallsInOrder
  <2> QED  BY <2>1 DEF Finish, RefundsUnsent
<1>3. ASSUME NEW t \in Tasks, NEW m \in Mints, NEW k \in Kinds, Call(t, m, k)
      PROVE  RefundsUnsent
  BY <1>3 DEF Call, TryReserve, RefundsUnsent
<1>4. ASSUME NEW t \in Tasks, BudgetIO(t) PROVE RefundsUnsent
  BY <1>4 DEF BudgetIO, OpenFile, WriteFile, WriteFails, Returned, Holding, Flushing, Opened,
              RefundsUnsent
<1>5. ASSUME NEW t \in Tasks, Finish(t) PROVE RefundsUnsent
  BY <1>5 DEF Finish, RefundsUnsent
<1>6. ASSUME NEW t \in Tasks, Spend(t) PROVE RefundsUnsent
  BY <1>6 DEF Spend, RefundsUnsent
<1>7. CASE UNCHANGED vars
  BY <1>7 DEF vars, RefundsUnsent
<1>8. CASE Restart
  BY <1>8 DEF Restart, RefundsUnsent
<1>9. ASSUME NEW t \in Tasks, HolderStep(t) \/ LockThrottle(t) \/ Accept(t) PROVE RefundsUnsent
  BY <1>2, <1>5, <1>6, <1>7, <1>9 DEF HolderStep, LockThrottle, Accept, SenderMissing, Dispatch,
     ReplyOk, ReturnKeeping
<1>10. ASSUME NEW t \in Tasks, CurveRead(t) \/ BuildFails(t) \/ Built(t) \/ BuyConfirmed(t)
                               \/ BuyNotConfirmed(t) \/ SellDone(t)
       PROVE  RefundsUnsent
  BY <1>5, <1>7, <1>10 DEF CurveRead, BuildFails, Built, BuyConfirmed, BuyNotConfirmed, SellDone,
     ReturnKeeping
<1>11. CASE UNCHANGED allVars
  BY <1>7, <1>11 DEF allVars
<1> QED  BY <1>1, <1>3, <1>4, <1>7, <1>8, <1>9, <1>10, <1>11 DEF BuyNext, Tick, BuyRestart

\* The calls of buy_only and buy_then_sell keep the promise of the ledger, with
\* lost replies, file faults and restarts: the cap holds over all tokens bought
\* in a run, and none is bought twice.
THEOREM CallsImplementLedger == ASSUME "bundle" \notin Kinds PROVE BuySpec => ImplementsLedger
<1>1. BuyInit => Ledger!LedgerInit
  BY DEF BuyInit, Init, Fresh, Ledger!LedgerInit
<1>2. BuyInv /\ SentStaysBooked /\ [BuyNext]_allVars => (BuyInv /\ SentStaysBooked)'
  BY BuyNextInv, OnlyBundlesRefund, BudgetStep, NextInv DEF BuyInv
<1>3. BuyInv /\ SentStaysBooked /\ [BuyNext]_allVars => [Ledger!LedgerNext]_(Ledger!ledgerVars)
  BY OnlyBundlesRefund, BudgetStep, NextLedger DEF BuyInv
<1> QED  BY <1>1, <1>2, <1>3, BuyInitInv, PTL DEF BuySpec, ImplementsLedger, Ledger!LedgerSpec

\* Without the bundle path a reservation is handed back only if nothing was
\* sent for it (executor.rs:1339).
THEOREM RefundsAreSafe == ASSUME "bundle" \notin Kinds PROVE BuySpec => RefundedNeverWentOut
<1>1. BuyInv /\ [BuyNext]_allVars
        => [\A t \in Tasks : pc'[t] = "released" => pc[t] # "sent"]_allVars
  BY OnlyBundlesRefund DEF RefundsUnsent
<1> QED  BY <1>1, BuyInitInv, BuyNextInv, PTL DEF BuySpec, RefundedNeverWentOut

---------------------------------------------------------------------------
\* The swaps of the accumulator and of the cross-stable worker.
SweepSwap  == [by : {"sweep"}, src : {"usdc", "usdt"}, dst : {"sol"}, amount : Nat, at : Nat, alone : BOOLEAN]
StableSwap == [by : {"stable"}, turn : Nat, src : Coins, dst : Coins, amount : Nat, at : Nat, alone : {FALSE}]

\* Types of the wallet, the swaps under way and the accumulator. No swap is older
\* than its blockhash.
MoneyTypes ==
  /\ wallet \in [Coins -> Nat] /\ treasuryNow \in Nat
  /\ \A s \in pendingSwaps :
       s \in SweepSwap \cup StableSwap /\ s.at <= treasuryNow /\ treasuryNow - s.at <= SwapLife
  /\ accum \in [phase : {"asleep", "reading", "sending"}, excess : Nat, alone : BOOLEAN, at : Nat,
                todo : {<<>>, <<"usdt">>, <<"usdc", "usdt">>}]
  /\ accum.phase = "asleep" <=> accum.todo = <<>>
  /\ direction \in 1..Len(Directions) /\ stableSwaps \in Nat

\* A sweep that nothing has overtaken leaves the threshold, and so will the one
\* about to be sent.
SweepsCovered ==
  /\ \A s \in pendingSwaps : s.alone => wallet[s.src] >= SweepAbove + s.amount
  /\ accum.phase = "sending" /\ accum.alone => wallet[Head(accum.todo)] >= SweepAbove + accum.excess

\* Two sweeps of a coin were sent a round apart, and the next will be a round
\* later than the last.
SweepsApart ==
  /\ \A s, t \in pendingSwaps :
       s.by = "sweep" /\ t.by = "sweep" /\ s.src = t.src /\ s # t =>
         s.at + SweepEvery <= t.at \/ t.at + SweepEvery <= s.at
  /\ \A s \in pendingSwaps : s.by = "sweep" =>
       /\ accum.phase = "asleep" => s.at + SweepEvery <= accum.at
       /\ accum.phase # "asleep" /\ (s.src = "usdt" \/ Len(accum.todo) = 2) =>
            s.at + SweepEvery <= treasuryNow

\* What the watch would see now.
Total == wallet["sol"] * ApproxSol + wallet["usdc"]

\* Types of the samples and the alerts.
WatchTypes ==
  /\ watch \in [due : Nat, sol : Nat \cup {Unseen}]
  /\ samples \in Seq([at : Nat, total : Nat])
  /\ alerts \in Seq([at : Nat, cause : Nat \cup {Unseen}])
  /\ drain \in [at : Nat \cup {Unseen}, shown : Nat]
  /\ lastCause \in Nat \cup {Unseen} /\ lastCause <= treasuryNow

\* The watch is never more than a reading late, and what it read of SOL is still
\* there unless something happened since the reading was due.
WatchKeepsUp ==
  /\ "watch" \notin enabled => samples = <<>> /\ alerts = <<>> /\ watch.sol = Unseen
  /\ "watch" \in enabled => treasuryNow <= watch.due + 1
  /\ 1 <= watch.due /\ watch.due <= treasuryNow + WatchEvery
  /\ watch.sol # Unseen => watch.due <= treasuryNow /\ (lastCause < watch.due => watch.sol = wallet["sol"])

\* The samples are in order, and each shows what there is unless something
\* happened since the reading before it was due.
SamplesTrue ==
  /\ \A i \in DOMAIN samples :
       /\ 1 <= samples[i].at /\ samples[i].at <= treasuryNow
       /\ lastCause < samples[i].at - 1 => samples[i].total = Total
       /\ \A j \in DOMAIN samples : i <= j => samples[i].at <= samples[j].at
  /\ samples # <<>> => watch.due <= samples[Len(samples)].at + WatchEvery

\* Every alert has a cause in the window, and alerts keep their distance.
AlertsCaused ==
  \A i \in DOMAIN alerts :
    /\ alerts[i].cause # Unseen /\ alerts[i].at - alerts[i].cause <= AlertWindow + 1
    /\ alerts[i].at <= treasuryNow
    /\ i > 1 => alerts[i].at - alerts[i - 1].at >= AlertWindow

\* There is an alert the operator has, late enough to be muted no longer before
\* the drain.
Noticed == \E i \in DOMAIN alerts : alerts[i].at >= drain.at - AlertWindow

\* Or the watch still holds what it saw before the drain, and will compare it
\* with nothing: in its next reading, or in the one after if the drain came
\* between the two reads of this one.
Comparing ==
  /\ \A c \in Coins : wallet[c] = 0
  /\ \E i \in DOMAIN samples :
       /\ samples[i].total = drain.shown
       /\ \/ watch.sol \in {Unseen, 0} /\ watch.due <= drain.at + WatchEvery
             /\ watch.due <= samples[i].at + 2 * WatchEvery
          \/ watch.sol > 0 /\ watch.due <= drain.at /\ watch.due <= samples[i].at + WatchEvery

\* One of the two, as long as the watch has not caught up with a drain.
DrainNoticed ==
  /\ drain.at <= treasuryNow
  /\ "watch" \in enabled /\ drain.at # Unseen /\ drain.shown > 0 => Noticed \/ Comparing

\* The two halves of the inductive invariant.
MoneyInv == MoneyTypes /\ SweepsCovered /\ SweepsApart
WatchInv == WatchTypes /\ WatchKeepsUp /\ SamplesTrue /\ AlertsCaused /\ DrainNoticed

\* The amounts and intervals are numbers.
LEMMA AmountTypes ==
  /\ SweepAbove \in Nat /\ StableProbe \in Nat /\ AlertWindow \in Nat /\ SwapLife \in Nat
  /\ DropPct \in 1..100 /\ MinSweep \in Nat \ {0} /\ RealSol \in Nat \ {0}
  /\ ApproxSol \in Nat \ {0} /\ SweepEvery \in Nat \ {0} /\ WatchEvery \in Nat \ {0}
BY TreasuryAssumption

\* Nothing was sent or read at the start.
LEMMA TreasuryInitInv == TreasuryInit => MoneyInv /\ WatchInv
<1> SUFFICES ASSUME TreasuryInit PROVE MoneyInv /\ WatchInv
  OBVIOUS
<1> USE TreasuryAssumption DEF TreasuryInit, Unseen
<1>1. enabled \in SUBSET Loops /\ wallet \in [Coins -> Nat]
  <2>1. PICK s \in Setups : enabled = s.enabled /\ wallet = s.wallet
    OBVIOUS
  <2>2. s \in [enabled : SUBSET Loops, wallet : [Coins -> Nat]]
    BY <2>1
  <2> QED  BY <2>1, <2>2
<1>2. MoneyTypes
  <2>1. Len(Directions) \in Nat /\ Len(Directions) >= 1
    <3> DEFINE D == [src : Coins, dst : Coins]
    <3>1. Directions \in Seq(D) /\ Directions # <<>>
      OBVIOUS
    <3> HIDE DEF D
    <3> QED  BY <3>1
  <2> QED  BY <1>1, <2>1 DEF MoneyTypes
<1>3. SweepsCovered /\ SweepsApart
  BY DEF SweepsCovered, SweepsApart
<1>4. WatchTypes /\ WatchKeepsUp
  BY DEF WatchTypes, WatchKeepsUp
<1>5. SamplesTrue /\ AlertsCaused
  BY DEF SamplesTrue, AlertsCaused
<1>6. DrainNoticed
  BY DEF DrainNoticed
<1> QED  BY <1>2, <1>3, <1>4, <1>5, <1>6 DEF MoneyInv, WatchInv

\* What Left does to a swap.
LEMMA LeftKeeps ==
  ASSUME NEW S, \A s \in S : s \in SweepSwap \cup StableSwap,
         NEW coins, NEW t \in Left(S, coins)
  PROVE  \E s \in S :
           /\ t = [s EXCEPT !.alone = s.alone /\ s.src \notin coins]
           /\ t \in SweepSwap \cup StableSwap
           /\ t.by = s.by /\ t.src = s.src /\ t.amount = s.amount /\ t.at = s.at
           /\ t.alone => s.alone /\ s.src \notin coins
<1>1. PICK s \in S : t = [s EXCEPT !.alone = s.alone /\ s.src \notin coins]
  BY DEF Left
<1>2. s \in SweepSwap \/ s \in StableSwap
  OBVIOUS
<1> DEFINE b == s.alone /\ s.src \notin coins
<1>3. b \in BOOLEAN /\ (b => s.alone /\ s.src \notin coins) /\ t = [s EXCEPT !.alone = b]
  BY <1>1
<1>4. CASE s \in SweepSwap
  BY <1>1, <1>3, <1>4 DEF SweepSwap
<1>5. CASE s \in StableSwap
  <2>1. b = FALSE
    BY <1>5 DEF StableSwap
  <2> HIDE DEF b
  <2> QED  BY <1>1, <1>3, <1>5, <2>1 DEF StableSwap
<1> QED  BY <1>2, <1>4, <1>5

\* The fields of a swap.
LEMMA SwapFields ==
  ASSUME NEW s \in SweepSwap \cup StableSwap
  PROVE  /\ s.by \in {"sweep", "stable"} /\ s.src \in Coins /\ s.dst \in Coins
         /\ s.amount \in Nat /\ s.at \in Nat /\ s.alone \in BOOLEAN
         /\ s.by = "sweep" => s.src \in {"usdc", "usdt"}
BY DEF SweepSwap, StableSwap, Coins

\* What an amount is worth in SOL.
LEMMA Exchanged ==
  ASSUME NEW n \in Nat, NEW r \in Nat \ {0}
  PROVE  n \div r \in Nat /\ (n = 0 => n \div r = 0)
<1>1. 0 \div r = 0
  OBVIOUS
<1>2. n \div r \in Nat
  OBVIOUS
<1> QED  BY <1>1, <1>2

\* A swap that lands takes from one coin and gives to another.
LEMMA LandedWallet ==
  ASSUME MoneyTypes, NEW swap \in pendingSwaps, SwapLands(swap)
  PROVE  /\ wallet' \in [Coins -> Nat]
         /\ \A c \in Coins : c # swap.src => wallet'[c] >= wallet[c]
         /\ (\A c \in Coins : wallet[c] = 0) => \A c \in Coins : wallet'[c] = 0
<1> DEFINE gets == IF swap.dst = "sol" THEN swap.amount \div RealSol ELSE swap.amount
           w1 == [wallet EXCEPT ![swap.src] = @ - swap.amount]
<1>1. /\ swap.src \in Coins /\ swap.dst \in Coins /\ swap.amount \in Nat
      /\ wallet \in [Coins -> Nat] /\ swap.amount <= wallet[swap.src]
  BY SwapFields DEF MoneyTypes, SwapLands
<1>2. gets \in Nat /\ (swap.amount = 0 => gets = 0)
  <2>1. RealSol \in Nat \ {0}
    BY TreasuryAssumption
  <2> QED  BY <1>1, <2>1, Exchanged
<1>3. wallet' = [w1 EXCEPT ![swap.dst] = @ + gets]
  BY <1>1 DEF SwapLands
<1> HIDE DEF gets
<1>4. w1 \in [Coins -> Nat] /\ (\A c \in Coins : c # swap.src => w1[c] = wallet[c])
      /\ w1[swap.src] = wallet[swap.src] - swap.amount
  BY <1>1
<1> HIDE DEF w1
<1>5. wallet' \in [Coins -> Nat] /\ (\A c \in Coins : c # swap.dst => wallet'[c] = w1[c])
      /\ wallet'[swap.dst] = w1[swap.dst] + gets
  BY <1>1, <1>2, <1>3, <1>4
<1>6. \A c \in Coins : w1[c] \in Nat /\ wallet'[c] \in Nat /\ wallet[c] \in Nat
  BY <1>1, <1>4, <1>5
<1>7. \A c \in Coins : c # swap.src => wallet'[c] >= wallet[c]
  BY <1>1, <1>2, <1>4, <1>5, <1>6
<1>8. ASSUME \A c \in Coins : wallet[c] = 0 PROVE \A c \in Coins : wallet'[c] = 0
  <2>1. swap.amount = 0
    BY <1>1, <1>8
  <2> QED  BY <1>1, <1>2, <1>4, <1>5, <1>6, <1>8, <2>1
<1> QED  BY <1>5, <1>7, <1>8

\* What the accumulator's round goes on with.
LEMMA NextStableType ==
  ASSUME MoneyTypes, accum.phase # "asleep"
  PROVE  /\ NextStable \in [phase : {"asleep", "reading", "sending"}, excess : Nat, alone : BOOLEAN,
                            at : Nat, todo : {<<>>, <<"usdt">>, <<"usdc", "usdt">>}]
         /\ NextStable.phase # "sending"
         /\ NextStable.phase = "asleep" <=> NextStable.todo = <<>>
         /\ Len(accum.todo) = 2 => NextStable.phase # "asleep" /\ NextStable.todo = <<"usdt">>
         /\ Len(accum.todo) # 2 => NextStable.phase = "asleep" /\ NextStable.at = treasuryNow + SweepEvery
<1>1. accum.todo \in {<<"usdt">>, <<"usdc", "usdt">>}
  BY DEF MoneyTypes
<1>2. /\ accum \in [phase : {"asleep", "reading", "sending"}, excess : Nat, alone : BOOLEAN, at : Nat,
                    todo : {<<>>, <<"usdt">>, <<"usdc", "usdt">>}]
      /\ treasuryNow + SweepEvery \in Nat
  <2>1. SweepEvery \in Nat
    BY TreasuryAssumption
  <2> QED  BY <2>1 DEF MoneyTypes
<1>3. CASE accum.todo = <<"usdt">>
  BY <1>2, <1>3 DEF NextStable
<1>4. CASE accum.todo = <<"usdc", "usdt">>
  <2>1. Tail(accum.todo) = <<"usdt">> /\ Len(accum.todo) = 2
    BY <1>4
  <2>2. NextStable = [accum EXCEPT !.phase = "reading", !.todo = Tail(@), !.excess = 0]
    BY <2>1 DEF NextStable
  <2>3. NextStable = [phase |-> "reading", excess |-> 0, alone |-> accum.alone, at |-> accum.at,
                      todo |-> <<"usdt">>]
    BY <1>2, <2>1, <2>2
  <2> QED  BY <1>2, <2>1, <2>3
<1> QED  BY <1>1, <1>3, <1>4

\* Whose head the accumulator is at.
LEMMA HeadCoin ==
  ASSUME MoneyTypes, accum.phase # "asleep"
  PROVE  /\ Head(accum.todo) \in {"usdc", "usdt"} /\ Head(accum.todo) \in Coins
         /\ Head(accum.todo) = "usdc" => Len(accum.todo) = 2
         /\ Head(accum.todo) = "usdt" => Len(accum.todo) = 1
<1>1. accum.todo \in {<<"usdt">>, <<"usdc", "usdt">>}
  BY DEF MoneyTypes
<1> QED  BY <1>1 DEF Coins

\* What a loss does to the accumulator.
LEMMA LeftUnreadType ==
  ASSUME MoneyTypes, NEW coins
  PROVE  LET a == LeftUnread(coins) IN
         /\ a \in [phase : {"asleep", "reading", "sending"}, excess : Nat, alone : BOOLEAN, at : Nat,
                   todo : {<<>>, <<"usdt">>, <<"usdc", "usdt">>}]
         /\ a.phase = accum.phase /\ a.todo = accum.todo /\ a.excess = accum.excess /\ a.at = accum.at
         /\ a.alone => accum.alone
         /\ a.alone /\ accum.todo # <<>> => Head(accum.todo) \notin coins
<1>1. accum \in [phase : {"asleep", "reading", "sending"}, excess : Nat, alone : BOOLEAN, at : Nat,
                 todo : {<<>>, <<"usdt">>, <<"usdc", "usdt">>}]
  BY DEF MoneyTypes
<1>2. CASE accum.todo # <<>> /\ Head(accum.todo) \in coins
  BY <1>1, <1>2 DEF LeftUnread
<1>3. CASE ~(accum.todo # <<>> /\ Head(accum.todo) \in coins)
  BY <1>1, <1>3 DEF LeftUnread
<1> QED  BY <1>2, <1>3

\* Something leaves the wallet in these coins.
LEMMA LeavesStep ==
  ASSUME MoneyInv, NEW S \in SUBSET pendingSwaps, NEW coins,
         pendingSwaps' = Left(S, coins), accum' = LeftUnread(coins),
         UNCHANGED <<treasuryNow, direction, stableSwaps>>,
         wallet' \in [Coins -> Nat], \A c \in Coins : c \notin coins => wallet'[c] >= wallet[c]
  PROVE  MoneyInv'
<1> DEFINE Same(t, s) ==
      /\ t = [s EXCEPT !.alone = s.alone /\ s.src \notin coins]
      /\ t \in SweepSwap \cup StableSwap
      /\ t.by = s.by /\ t.src = s.src /\ t.amount = s.amount /\ t.at = s.at
      /\ t.alone => s.alone /\ s.src \notin coins
<1>1. \A s \in pendingSwaps : s \in SweepSwap \cup StableSwap
  BY DEF MoneyInv, MoneyTypes
<1>2. \A t \in pendingSwaps' : \E s \in S : Same(t, s)
  BY <1>1, LeftKeeps
<1>3. LET a == accum' IN
      /\ a \in [phase : {"asleep", "reading", "sending"}, excess : Nat, alone : BOOLEAN, at : Nat,
                todo : {<<>>, <<"usdt">>, <<"usdc", "usdt">>}]
      /\ a.phase = accum.phase /\ a.todo = accum.todo /\ a.excess = accum.excess /\ a.at = accum.at
      /\ a.alone => accum.alone
      /\ a.alone /\ accum.todo # <<>> => Head(accum.todo) \notin coins
  BY LeftUnreadType DEF MoneyInv
<1>4. MoneyTypes'
  <2>1. \A t \in pendingSwaps' : t \in SweepSwap \cup StableSwap /\ t.at <= treasuryNow /\ treasuryNow - t.at <= SwapLife
    BY <1>2 DEF MoneyInv, MoneyTypes
  <2> QED  BY <1>3, <2>1 DEF MoneyInv, MoneyTypes
<1>5. SweepsCovered'
  <2>1. ASSUME NEW t \in pendingSwaps', t.alone PROVE wallet'[t.src] >= SweepAbove + t.amount
    <3>1. PICK s \in S : Same(t, s)
      BY <1>2
    <3>2. s.alone /\ s.src \notin coins /\ t.src = s.src /\ t.amount = s.amount
      BY <2>1, <3>1
    <3>3. s.src \in Coins /\ s.amount \in Nat
      BY <1>1, SwapFields
    <3>4. wallet[s.src] >= SweepAbove + s.amount
      BY <3>2 DEF MoneyInv, SweepsCovered
    <3>5. wallet'[s.src] >= wallet[s.src] /\ wallet'[s.src] \in Nat /\ wallet[s.src] \in Nat
      BY <3>2, <3>3 DEF MoneyInv, MoneyTypes
    <3> QED  BY <3>2, <3>3, <3>4, <3>5, AmountTypes
  <2>2. ASSUME accum'.phase = "sending", accum'.alone
        PROVE  wallet'[Head(accum'.todo)] >= SweepAbove + accum'.excess
    <3>1. accum.phase = "sending" /\ accum.alone /\ accum'.todo = accum.todo /\ accum'.excess = accum.excess
      BY <1>3, <2>2
    <3>2. Head(accum.todo) \in Coins
      BY <3>1, HeadCoin DEF MoneyInv
    <3>3. accum.todo # <<>>
      BY <3>1 DEF MoneyInv, MoneyTypes
    <3>4. Head(accum.todo) \notin coins
      BY <1>3, <2>2, <3>3
    <3>5. wallet[Head(accum.todo)] >= SweepAbove + accum.excess /\ accum.excess \in Nat
      BY <3>1 DEF MoneyInv, SweepsCovered, MoneyTypes
    <3>6. /\ wallet'[Head(accum.todo)] >= wallet[Head(accum.todo)]
          /\ wallet'[Head(accum.todo)] \in Nat /\ wallet[Head(accum.todo)] \in Nat
      BY <3>2, <3>4 DEF MoneyInv, MoneyTypes
    <3> QED  BY <3>1, <3>5, <3>6, AmountTypes
  <2> QED  BY <2>1, <2>2 DEF SweepsCovered
<1>6. SweepsApart'
  <2>1. ASSUME NEW t \in pendingSwaps', NEW u \in pendingSwaps', t.by = "sweep", u.by = "sweep",
               t.src = u.src, t # u
        PROVE  t.at + SweepEvery <= u.at \/ u.at + SweepEvery <= t.at
    <3>1. PICK s \in S : Same(t, s)
      BY <1>2
    <3>2. PICK r \in S : Same(u, r)
      BY <1>2
    <3>3. s # r
      BY <2>1, <3>1, <3>2
    <3> QED  BY <2>1, <3>1, <3>2, <3>3 DEF MoneyInv, SweepsApart
  <2>2. ASSUME NEW t \in pendingSwaps', t.by = "sweep"
        PROVE  /\ accum'.phase = "asleep" => t.at + SweepEvery <= accum'.at
               /\ accum'.phase # "asleep" /\ (t.src = "usdt" \/ Len(accum'.todo) = 2) =>
                     t.at + SweepEvery <= treasuryNow'
    <3>1. PICK s \in S : Same(t, s)
      BY <1>2
    <3> QED  BY <1>3, <2>2, <3>1 DEF MoneyInv, SweepsApart
  <2> HIDE DEF Same
  <2> QED  BY <2>1, <2>2 DEF SweepsApart
<1> QED  BY <1>4, <1>5, <1>6 DEF MoneyInv

\* A balance is read: the sweep is computed from what is there.
LEMMA SweepReadsStep ==
  ASSUME MoneyInv, SweepReads
  PROVE  MoneyInv'
<1> DEFINE coin == Head(accum.todo)
<1>1. /\ accum.phase = "reading" /\ coin \in Coins
      /\ UNCHANGED <<wallet, pendingSwaps, treasuryNow, direction, stableSwaps>>
  BY HeadCoin DEF SweepReads, chainState, MoneyInv
<1>2. PICK seen \in {wallet[coin], 0} :
        accum' = IF seen <= SweepAbove \/ seen - SweepAbove < MinSweep THEN NextStable
                 ELSE [accum EXCEPT !.phase = "sending", !.excess = seen - SweepAbove, !.alone = TRUE]
  BY DEF SweepReads
<1>3. seen \in Nat /\ wallet[coin] \in Nat /\ accum.todo # <<>>
  BY <1>1 DEF MoneyInv, MoneyTypes
<1>4. CASE seen <= SweepAbove \/ seen - SweepAbove < MinSweep
  <2>1. accum' = NextStable
    BY <1>2, <1>4
  <2>2. NextStable.phase # "sending"
    BY <1>1, NextStableType DEF MoneyInv
  <2>3. MoneyTypes'
    BY <1>1, <2>1, NextStableType DEF MoneyInv, MoneyTypes
  <2>4. SweepsCovered'
    BY <1>1, <2>1, <2>2 DEF MoneyInv, SweepsCovered
  <2>5. SweepsApart'
    <3>1. ASSUME NEW s \in pendingSwaps, s.by = "sweep"
          PROVE  /\ accum'.phase = "asleep" => s.at + SweepEvery <= accum'.at
                 /\ accum'.phase # "asleep" /\ (s.src = "usdt" \/ Len(accum'.todo) = 2) =>
                       s.at + SweepEvery <= treasuryNow
      <4>1. /\ s.src \in {"usdc", "usdt"} /\ s.at <= treasuryNow
        BY <3>1, SwapFields DEF MoneyInv, MoneyTypes
      <4>2. s.at \in Nat /\ treasuryNow \in Nat
        BY SwapFields DEF MoneyInv, MoneyTypes
      <4>3. s.src = "usdt" \/ Len(accum.todo) = 2 => s.at + SweepEvery <= treasuryNow
        BY <1>1, <3>1 DEF MoneyInv, SweepsApart
      <4>4. CASE Len(accum.todo) = 2
        <5>1. accum'.phase # "asleep" /\ accum'.todo = <<"usdt">>
          BY <1>1, <2>1, <4>4, NextStableType DEF MoneyInv
        <5> QED  BY <4>3, <4>4, <5>1
      <4>5. CASE Len(accum.todo) # 2
        <5>1. accum'.phase = "asleep" /\ accum'.at = treasuryNow + SweepEvery
          BY <1>1, <2>1, <4>5, NextStableType DEF MoneyInv
        <5> QED  BY <4>1, <4>2, <5>1, AmountTypes
      <4> QED  BY <4>4, <4>5
    <3> QED  BY <1>1, <3>1 DEF MoneyInv, SweepsApart
  <2> QED  BY <2>3, <2>4, <2>5 DEF MoneyInv
<1>5. CASE ~(seen <= SweepAbove \/ seen - SweepAbove < MinSweep)
  <2> DEFINE e == seen - SweepAbove
  <2>1. e \in Nat /\ seen = wallet[coin] /\ wallet[coin] >= SweepAbove + e
    BY <1>2, <1>3, <1>5, AmountTypes
  <2>2. accum' = [accum EXCEPT !.phase = "sending", !.excess = e, !.alone = TRUE]
    BY <1>2, <1>5
  <2> HIDE DEF e
  <2>3. /\ accum' = [phase |-> "sending", excess |-> e, alone |-> TRUE, at |-> accum.at,
                     todo |-> accum.todo]
        /\ accum.at \in Nat /\ accum.todo \in {<<>>, <<"usdt">>, <<"usdc", "usdt">>}
    BY <2>2 DEF MoneyInv, MoneyTypes
  <2>4. MoneyTypes'
    BY <1>1, <1>3, <2>1, <2>3 DEF MoneyInv, MoneyTypes
  <2>5. SweepsCovered'
    BY <1>1, <2>1, <2>3 DEF MoneyInv, SweepsCovered
  <2>6. SweepsApart'
    BY <1>1, <2>3 DEF MoneyInv, SweepsApart
  <2> QED  BY <2>4, <2>5, <2>6 DEF MoneyInv
<1> QED  BY <1>4, <1>5

\* The sweep is sent, or its request fails.
LEMMA SweepSendsStep ==
  ASSUME MoneyInv, SweepSends
  PROVE  MoneyInv'
<1> DEFINE coin == Head(accum.todo)
           new == [by |-> "sweep", src |-> coin, dst |-> "sol", amount |-> accum.excess,
                   at |-> treasuryNow, alone |-> accum.alone]
<1>1. /\ accum.phase = "sending" /\ accum' = NextStable
      /\ UNCHANGED <<wallet, treasuryNow, direction, stableSwaps>>
      /\ pendingSwaps' = pendingSwaps \/ pendingSwaps' = pendingSwaps \cup {new}
  BY DEF SweepSends, RawSwap
<1>2. /\ coin \in {"usdc", "usdt"} /\ coin \in Coins
      /\ coin = "usdc" => Len(accum.todo) = 2
      /\ coin = "usdt" => Len(accum.todo) = 1
  BY <1>1, HeadCoin DEF MoneyInv
<1>3. /\ accum'.phase # "sending"
      /\ Len(accum.todo) = 2 => accum'.phase # "asleep" /\ accum'.todo = <<"usdt">>
      /\ Len(accum.todo) # 2 => accum'.phase = "asleep" /\ accum'.at = treasuryNow + SweepEvery
  BY <1>1, NextStableType DEF MoneyInv
<1>4. /\ new \in SweepSwap /\ treasuryNow \in Nat
      /\ new.by = "sweep" /\ new.src = coin /\ new.amount = accum.excess /\ new.at = treasuryNow
      /\ new.alone = accum.alone
  BY <1>2 DEF MoneyInv, MoneyTypes, SweepSwap
<1>5. new.alone => wallet[new.src] >= SweepAbove + new.amount
  BY <1>1, <1>4 DEF MoneyInv, SweepsCovered
<1> HIDE DEF new
<1>6. MoneyTypes'
  <2>1. \A s \in pendingSwaps' :
          s \in SweepSwap \cup StableSwap /\ s.at <= treasuryNow /\ treasuryNow - s.at <= SwapLife
    BY <1>1, <1>4, AmountTypes DEF MoneyInv, MoneyTypes
  <2> QED  BY <1>1, <2>1, NextStableType DEF MoneyInv, MoneyTypes
<1>7. SweepsCovered'
  BY <1>1, <1>3, <1>5 DEF MoneyInv, SweepsCovered
<1>8. \A s \in pendingSwaps : s.by = "sweep" /\ s.src = coin => s.at + SweepEvery <= treasuryNow
  <2> SUFFICES ASSUME NEW s \in pendingSwaps, s.by = "sweep", s.src = coin
               PROVE  s.at + SweepEvery <= treasuryNow
    OBVIOUS
  <2>1. s.src = "usdt" \/ Len(accum.todo) = 2
    BY <1>2
  <2> QED  BY <1>1, <2>1 DEF MoneyInv, SweepsApart
<1>9. SweepsApart'
  <2>1. ASSUME NEW t \in pendingSwaps', NEW u \in pendingSwaps', t.by = "sweep", u.by = "sweep",
               t.src = u.src, t # u
        PROVE  t.at + SweepEvery <= u.at \/ u.at + SweepEvery <= t.at
    <3>1. CASE t \in pendingSwaps /\ u \in pendingSwaps
      BY <2>1, <3>1 DEF MoneyInv, SweepsApart
    <3>2. CASE t = new /\ u \in pendingSwaps
      BY <1>4, <1>8, <2>1, <3>2
    <3>3. CASE u = new /\ t \in pendingSwaps
      BY <1>4, <1>8, <2>1, <3>3
    <3> QED  BY <1>1, <2>1, <3>1, <3>2, <3>3
  <2>2. ASSUME NEW s \in pendingSwaps', s.by = "sweep"
        PROVE  /\ accum'.phase = "asleep" => s.at + SweepEvery <= accum'.at
               /\ accum'.phase # "asleep" /\ (s.src = "usdt" \/ Len(accum'.todo) = 2) =>
                     s.at + SweepEvery <= treasuryNow'
    <3>1. s \in SweepSwap \cup StableSwap /\ s.at <= treasuryNow /\ s.at \in Nat /\ treasuryNow \in Nat
      BY <1>1, <1>6, SwapFields DEF MoneyTypes
    <3>2. CASE Len(accum.todo) = 2
      <4>1. accum'.phase # "asleep" /\ accum'.todo = <<"usdt">> /\ coin = "usdc"
        BY <1>2, <1>3, <3>2
      <4>2. s.src = "usdt" => s \in pendingSwaps
        BY <1>1, <1>4, <4>1
      <4>3. s.src = "usdt" => s.at + SweepEvery <= treasuryNow
        BY <1>1, <2>2, <4>2 DEF MoneyInv, SweepsApart
      <4> QED  BY <1>1, <4>1, <4>3
    <3>3. CASE Len(accum.todo) # 2
      BY <1>3, <3>1, <3>3, AmountTypes
    <3> QED  BY <3>2, <3>3
  <2> QED  BY <2>1, <2>2 DEF SweepsApart
<1> QED  BY <1>6, <1>7, <1>9 DEF MoneyInv

\* A turn of the cross-stable worker adds no sweep.
LEMMA StableTurnStep ==
  ASSUME MoneyInv, StableTurn
  PROVE  MoneyInv'
<1> DEFINE new == [by |-> "stable", turn |-> stableSwaps, src |-> Directions[direction].src,
                   dst |-> Directions[direction].dst, amount |-> StableProbe, at |-> treasuryNow,
                   alone |-> FALSE]
<1>1. /\ UNCHANGED <<wallet, treasuryNow, accum>>
      /\ pendingSwaps' = pendingSwaps \/ pendingSwaps' = pendingSwaps \cup {new}
      /\ stableSwaps' = stableSwaps \/ stableSwaps' = stableSwaps + 1
      /\ direction' = (direction % Len(Directions)) + 1
  BY DEF StableTurn
<1>2. /\ Len(Directions) \in Nat /\ Len(Directions) >= 1 /\ direction \in 1..Len(Directions)
      /\ Directions[direction] \in [src : Coins, dst : Coins]
  <2> DEFINE D == [src : Coins, dst : Coins]
  <2>1. Directions \in Seq(D) /\ Directions # <<>> /\ direction \in 1..Len(Directions)
    BY TreasuryAssumption DEF MoneyInv, MoneyTypes
  <2> HIDE DEF D
  <2>2. Directions[direction] \in D
    BY <2>1
  <2> QED  BY <2>1, <2>2 DEF D
<1>3. direction' \in 1..Len(Directions)
  BY <1>1, <1>2
<1>4. new \in StableSwap /\ new.by = "stable" /\ new.alone = FALSE /\ new.at = treasuryNow /\ treasuryNow \in Nat
  BY <1>2, AmountTypes DEF MoneyInv, MoneyTypes, StableSwap
<1> HIDE DEF new
<1>5. MoneyTypes'
  <2>1. \A s \in pendingSwaps' :
          s \in SweepSwap \cup StableSwap /\ s.at <= treasuryNow /\ treasuryNow - s.at <= SwapLife
    BY <1>1, <1>4, AmountTypes DEF MoneyInv, MoneyTypes
  <2> QED  BY <1>1, <1>3, <2>1 DEF MoneyInv, MoneyTypes
<1>6. SweepsCovered'
  BY <1>1, <1>4 DEF MoneyInv, SweepsCovered
<1>7. \A s \in pendingSwaps' : s.by = "sweep" => s \in pendingSwaps
  BY <1>1, <1>4
<1>8. SweepsApart'
  <2>1. ASSUME NEW t \in pendingSwaps', NEW u \in pendingSwaps', t.by = "sweep", u.by = "sweep",
               t.src = u.src, t # u
        PROVE  t.at + SweepEvery <= u.at \/ u.at + SweepEvery <= t.at
    BY <1>7, <2>1 DEF MoneyInv, SweepsApart
  <2>2. ASSUME NEW s \in pendingSwaps', s.by = "sweep"
        PROVE  /\ accum'.phase = "asleep" => s.at + SweepEvery <= accum'.at
               /\ accum'.phase # "asleep" /\ (s.src = "usdt" \/ Len(accum'.todo) = 2) =>
                     s.at + SweepEvery <= treasuryNow'
    BY <1>1, <1>7, <2>2 DEF MoneyInv, SweepsApart
  <2> QED  BY <2>1, <2>2 DEF SweepsApart
<1> QED  BY <1>5, <1>6, <1>8 DEF MoneyInv

\* Time passes, and swaps die.
LEMMA TickKeepsMoney ==
  ASSUME MoneyInv, TreasuryTick
  PROVE  MoneyInv'
<1>1. /\ treasuryNow' = treasuryNow + 1 /\ UNCHANGED <<wallet, accum, direction, stableSwaps>>
      /\ \A s \in pendingSwaps' : s \in pendingSwaps /\ treasuryNow' - s.at <= SwapLife
  BY DEF TreasuryTick, workerState
<1>2. treasuryNow \in Nat /\ \A s \in pendingSwaps : s.at \in Nat /\ s.at <= treasuryNow
  BY SwapFields DEF MoneyInv, MoneyTypes
<1>3. MoneyTypes'
  <2>1. \A s \in pendingSwaps' :
          s \in SweepSwap \cup StableSwap /\ s.at <= treasuryNow' /\ treasuryNow' - s.at <= SwapLife
    BY <1>1, <1>2 DEF MoneyInv, MoneyTypes
  <2> QED  BY <1>1, <1>2, <2>1 DEF MoneyInv, MoneyTypes
<1>4. SweepsCovered'
  BY <1>1 DEF MoneyInv, SweepsCovered
<1>5. SweepsApart'
  <2>1. ASSUME NEW t \in pendingSwaps', NEW u \in pendingSwaps', t.by = "sweep", u.by = "sweep",
               t.src = u.src, t # u
        PROVE  t.at + SweepEvery <= u.at \/ u.at + SweepEvery <= t.at
    BY <1>1, <2>1 DEF MoneyInv, SweepsApart
  <2>2. ASSUME NEW s \in pendingSwaps', s.by = "sweep"
        PROVE  /\ accum'.phase = "asleep" => s.at + SweepEvery <= accum'.at
               /\ accum'.phase # "asleep" /\ (s.src = "usdt" \/ Len(accum'.todo) = 2) =>
                     s.at + SweepEvery <= treasuryNow'
    <3>1. accum.phase # "asleep" /\ (s.src = "usdt" \/ Len(accum.todo) = 2) =>
            s.at + SweepEvery <= treasuryNow
      BY <1>1, <2>2 DEF MoneyInv, SweepsApart
    <3>2. accum.phase = "asleep" => s.at + SweepEvery <= accum.at
      BY <1>1, <2>2 DEF MoneyInv, SweepsApart
    <3> QED  BY <1>1, <1>2, <3>1, <3>2, AmountTypes
  <2> QED  BY <2>1, <2>2 DEF SweepsApart
<1> QED  BY <1>3, <1>4, <1>5 DEF MoneyInv

\* A round begins.
LEMMA SweepRoundStep ==
  ASSUME MoneyInv, SweepRound
  PROVE  MoneyInv'
<1>1. /\ accum.phase = "asleep" /\ treasuryNow >= accum.at
      /\ UNCHANGED <<wallet, pendingSwaps, treasuryNow, direction, stableSwaps>>
      /\ accum' = [accum EXCEPT !.phase = "reading", !.todo = <<"usdc", "usdt">>]
  BY DEF SweepRound, chainState
<1>2. /\ accum' = [phase |-> "reading", excess |-> accum.excess, alone |-> accum.alone, at |-> accum.at,
                   todo |-> <<"usdc", "usdt">>]
      /\ accum.excess \in Nat /\ accum.alone \in BOOLEAN /\ accum.at \in Nat /\ treasuryNow \in Nat
  BY <1>1 DEF MoneyInv, MoneyTypes
<1>3. MoneyTypes'
  BY <1>1, <1>2 DEF MoneyInv, MoneyTypes
<1>4. SweepsCovered'
  BY <1>1, <1>2 DEF MoneyInv, SweepsCovered
<1>5. SweepsApart'
  <2>1. ASSUME NEW s \in pendingSwaps, s.by = "sweep"
        PROVE  s.at + SweepEvery <= treasuryNow
    <3>1. s.at + SweepEvery <= accum.at /\ s.at \in Nat
      BY <1>1, <2>1, SwapFields DEF MoneyInv, MoneyTypes, SweepsApart
    <3> QED  BY <1>1, <1>2, <3>1, AmountTypes
  <2> QED  BY <1>1, <1>2, <2>1 DEF MoneyInv, SweepsApart
<1> QED  BY <1>3, <1>4, <1>5 DEF MoneyInv

\* Every step keeps the sweeps covered and apart.
LEMMA MoneyStep == MoneyInv /\ [TreasuryNext]_treasuryVars => MoneyInv'
<1> SUFFICES ASSUME MoneyInv, [TreasuryNext]_treasuryVars PROVE MoneyInv'
  OBVIOUS
<1>1. CASE TreasuryTick
  BY <1>1, TickKeepsMoney
<1>2. CASE Drained
  <2>1. /\ pendingSwaps' = Left(pendingSwaps, Coins) /\ accum' = LeftUnread(Coins)
        /\ UNCHANGED <<treasuryNow, direction, stableSwaps>>
        /\ wallet' = [c \in Coins |-> 0]
    BY <1>2 DEF Drained
  <2>2. wallet' \in [Coins -> Nat] /\ \A c \in Coins : c \notin Coins => wallet'[c] >= wallet[c]
    BY <2>1
  <2> QED  BY <2>1, <2>2, LeavesStep
<1>3. ASSUME NEW swap \in pendingSwaps, SwapLands(swap) PROVE MoneyInv'
  <2>1. /\ pendingSwaps' = Left(pendingSwaps \ {swap}, {swap.src}) /\ accum' = LeftUnread({swap.src})
        /\ UNCHANGED <<treasuryNow, direction, stableSwaps>>
    BY <1>3 DEF SwapLands
  <2>2. wallet' \in [Coins -> Nat] /\ \A c \in Coins : c \notin {swap.src} => wallet'[c] >= wallet[c]
    BY <1>3, LandedWallet DEF MoneyInv
  <2> QED  BY <2>1, <2>2, LeavesStep
<1>4. CASE SweepRound
  BY <1>4, SweepRoundStep
<1>5. CASE SweepReads
  BY <1>5, SweepReadsStep
<1>6. CASE SweepSends
  BY <1>6, SweepSendsStep
<1>7. CASE StableTurn
  BY <1>7, StableTurnStep
<1>8. CASE WatchReadsSol \/ WatchReadsUsdc \/ UNCHANGED treasuryVars
  <2>1. UNCHANGED <<wallet, pendingSwaps, treasuryNow, accum, direction, stableSwaps>>
    BY <1>8 DEF WatchReadsSol, WatchReadsUsdc, treasuryVars, chainState, workerState
  <2>2. MoneyTypes'
    BY <2>1 DEF MoneyInv, MoneyTypes
  <2>3. SweepsCovered' /\ SweepsApart'
    BY <2>1 DEF MoneyInv, SweepsCovered, SweepsApart
  <2> QED  BY <2>2, <2>3 DEF MoneyInv
<1> QED  BY <1>1, <1>2, <1>3, <1>4, <1>5, <1>6, <1>7, <1>8 DEF TreasuryNext

\* What the watch keeps.
Sampled == [at : Nat, total : Nat]
Alerted  == [at : Nat, cause : Nat \cup {Unseen}]

\* The samples are samples.
LEMMA SampleTypes ==
  ASSUME WatchTypes
  PROVE  /\ samples \in Seq(Sampled) /\ DOMAIN samples = 1..Len(samples) /\ Len(samples) \in Nat
         /\ \A i \in DOMAIN samples : samples[i] \in Sampled /\ samples[i].at \in Nat /\ samples[i].total \in Nat
         /\ samples # <<>> => Len(samples) \in DOMAIN samples /\ Last(samples) = samples[Len(samples)]
<1>1. samples \in Seq(Sampled)
  BY DEF WatchTypes, Sampled
<1>2. \A e \in Sampled : e.at \in Nat /\ e.total \in Nat
  BY DEF Sampled
<1> QED  BY <1>1, <1>2 DEF Last

\* The alerts are alerts.
LEMMA AlertTypes ==
  ASSUME WatchTypes
  PROVE  /\ alerts \in Seq(Alerted) /\ DOMAIN alerts = 1..Len(alerts) /\ Len(alerts) \in Nat
         /\ \A i \in DOMAIN alerts : alerts[i].at \in Nat /\ alerts[i].cause \in Nat \cup {Unseen}
         /\ alerts # <<>> => Len(alerts) \in DOMAIN alerts /\ Last(alerts) = alerts[Len(alerts)]
<1>1. alerts \in Seq(Alerted)
  BY DEF WatchTypes, Alerted
<1>2. \A e \in Alerted : e.at \in Nat /\ e.cause \in Nat \cup {Unseen}
  BY DEF Alerted
<1> QED  BY <1>1, <1>2 DEF Last

\* A product of naturals.
LEMMA ProductIsNat == ASSUME NEW a \in Nat, NEW b \in Nat PROVE a * b \in Nat
OBVIOUS

\* Nothing the watch keeps changes but the reason for what it may see next.
LEMMA CauseStep ==
  ASSUME MoneyTypes, WatchTypes, WatchKeepsUp, SamplesTrue, AlertsCaused,
         UNCHANGED <<treasuryNow, watchState, enabled>>,
         (UNCHANGED <<wallet, lastCause>>) \/ lastCause' = treasuryNow
  PROVE  /\ WatchKeepsUp' /\ SamplesTrue' /\ AlertsCaused'
         /\ lastCause' \in Nat \cup {Unseen} /\ lastCause' <= treasuryNow'
         /\ UNCHANGED <<watch, samples, alerts>>
<1>1. UNCHANGED <<watch, samples, alerts>>
  BY DEF watchState
<1>2. /\ lastCause' \in Nat \cup {Unseen} /\ lastCause' <= treasuryNow' /\ treasuryNow \in Nat
      /\ watch.due \in Nat
  BY DEF WatchTypes, MoneyTypes
<1>3. WatchKeepsUp'
  BY <1>1, <1>2 DEF WatchKeepsUp
<1>4. SamplesTrue'
  <2>1. ASSUME NEW i \in DOMAIN samples, lastCause' < samples[i].at - 1
        PROVE  samples[i].total = Total'
    <3>1. samples[i].at \in Nat /\ samples[i].at <= treasuryNow
      BY SampleTypes DEF SamplesTrue
    <3>2. UNCHANGED <<wallet, lastCause>>
      BY <1>2, <2>1, <3>1
    <3>3. Total' = Total
      BY <3>2 DEF Total
    <3> QED  BY <2>1, <3>2, <3>3 DEF SamplesTrue
  <2> QED  BY <1>1, <2>1 DEF SamplesTrue
<1>5. AlertsCaused'
  BY <1>1 DEF AlertsCaused
<1> QED  BY <1>1, <1>2, <1>3, <1>4, <1>5

\* Time passes, but not beyond a reading that is due.
LEMMA TickKeepsWatch ==
  ASSUME MoneyTypes, WatchInv, TreasuryTick, UNCHANGED enabled
  PROVE  WatchInv'
<1>1. /\ treasuryNow' = treasuryNow + 1 /\ ("watch" \in enabled => treasuryNow <= watch.due)
      /\ UNCHANGED <<wallet, watch, samples, alerts, drain, lastCause>>
  BY DEF TreasuryTick, watchState
<1>2. /\ treasuryNow \in Nat /\ lastCause \in Nat \cup {Unseen} /\ lastCause <= treasuryNow
      /\ watch.due \in Nat /\ drain.at \in Nat \cup {Unseen} /\ drain.at <= treasuryNow
      /\ \A i \in DOMAIN samples : samples[i].at \in Nat
      /\ \A i \in DOMAIN alerts : alerts[i].at \in Nat
  <2>1. treasuryNow \in Nat /\ lastCause \in Nat \cup {Unseen} /\ lastCause <= treasuryNow
        /\ watch.due \in Nat /\ drain.at \in Nat \cup {Unseen} /\ drain.at <= treasuryNow
    BY DEF WatchInv, WatchTypes, MoneyTypes, DrainNoticed
  <2> QED  BY <2>1, SampleTypes, AlertTypes DEF WatchInv
<1>3. WatchTypes'
  BY <1>1, <1>2 DEF WatchInv, WatchTypes, Unseen
<1>4. WatchKeepsUp'
  BY <1>1, <1>2, AmountTypes DEF WatchInv, WatchKeepsUp
<1>5. SamplesTrue'
  <2>1. Total' = Total
    BY <1>1 DEF Total
  <2> QED  BY <1>1, <1>2, <2>1 DEF WatchInv, SamplesTrue
<1>6. AlertsCaused'
  <2>1. \A i \in DOMAIN alerts : alerts[i].at <= treasuryNow'
    BY <1>1, <1>2 DEF WatchInv, AlertsCaused
  <2> QED  BY <1>1, <2>1 DEF WatchInv, AlertsCaused
<1>7. DrainNoticed'
  <2>1. drain'.at <= treasuryNow'
    BY <1>1, <1>2 DEF Unseen
  <2>2. Noticed' = Noticed /\ Comparing' = Comparing
    BY <1>1 DEF Noticed, Comparing
  <2> QED  BY <1>1, <2>1, <2>2 DEF WatchInv, DrainNoticed
<1> QED  BY <1>3, <1>4, <1>5, <1>6, <1>7 DEF WatchInv

\* A swap that lands is a cause.
LEMMA LandingKeepsWatch ==
  ASSUME MoneyTypes, WatchInv, NEW swap \in pendingSwaps, SwapLands(swap), UNCHANGED enabled
  PROVE  WatchInv'
<1>1. /\ UNCHANGED <<treasuryNow, watchState, drain>> /\ lastCause' = treasuryNow
  BY DEF SwapLands
<1>2. /\ WatchKeepsUp' /\ SamplesTrue' /\ AlertsCaused'
      /\ lastCause' \in Nat \cup {Unseen} /\ lastCause' <= treasuryNow'
      /\ UNCHANGED <<watch, samples, alerts>>
  BY <1>1, CauseStep DEF WatchInv
<1>3. WatchTypes'
  BY <1>1, <1>2 DEF WatchInv, WatchTypes
<1>4. DrainNoticed'
  <2>1. Noticed' = Noticed
    BY <1>1, <1>2 DEF Noticed
  <2>2. (\A c \in Coins : wallet[c] = 0) => \A c \in Coins : wallet'[c] = 0
    BY LandedWallet
  <2>3. Comparing => Comparing'
    BY <1>1, <1>2, <2>2 DEF Comparing
  <2> QED  BY <1>1, <2>1, <2>3 DEF WatchInv, DrainNoticed
<1> QED  BY <1>2, <1>3, <1>4 DEF WatchInv

\* A thief is a cause, and takes what the last sample showed.
LEMMA DrainKeepsWatch ==
  ASSUME MoneyTypes, WatchInv, Drained, UNCHANGED enabled
  PROVE  WatchInv'
<1>1. /\ UNCHANGED <<treasuryNow, watchState>> /\ lastCause' = treasuryNow
      /\ drain' = [at |-> treasuryNow, shown |-> IF samples = <<>> THEN 0 ELSE Last(samples).total]
      /\ wallet' = [c \in Coins |-> 0]
  BY DEF Drained
<1>2. /\ WatchKeepsUp' /\ SamplesTrue' /\ AlertsCaused'
      /\ lastCause' \in Nat \cup {Unseen} /\ lastCause' <= treasuryNow'
      /\ UNCHANGED <<watch, samples, alerts>>
  BY <1>1, CauseStep DEF WatchInv
<1>3. samples # <<>> =>
        /\ Len(samples) \in DOMAIN samples /\ Last(samples) = samples[Len(samples)]
        /\ samples[Len(samples)] \in [at : Nat, total : Nat]
  BY SampleTypes DEF WatchInv, Sampled
<1>4. treasuryNow \in Nat /\ watch.due \in Nat /\ watch.sol \in Nat \cup {Unseen}
  BY DEF MoneyTypes, WatchInv, WatchTypes
<1>5. drain' \in [at : Nat \cup {Unseen}, shown : Nat] /\ drain'.at = treasuryNow
      /\ (drain'.shown > 0 => samples # <<>> /\ drain'.shown = samples[Len(samples)].total)
  BY <1>1, <1>3, <1>4
<1>6. WatchTypes'
  BY <1>1, <1>2, <1>5 DEF WatchInv, WatchTypes
<1>7. DrainNoticed'
  <2> SUFFICES ASSUME "watch" \in enabled, drain'.shown > 0 PROVE Comparing'
    BY <1>1, <1>4, <1>5 DEF DrainNoticed
  <2> DEFINE i == Len(samples)
  <2>1. i \in DOMAIN samples /\ samples[i].total = drain'.shown /\ samples[i].at \in Nat
        /\ watch.due <= samples[i].at + WatchEvery
    BY <1>3, <1>5 DEF WatchInv, SamplesTrue
  <2>2. watch.due <= treasuryNow + WatchEvery
    BY DEF WatchInv, WatchKeepsUp
  <2>3. watch.sol # Unseen => watch.due <= treasuryNow
    BY DEF WatchInv, WatchKeepsUp
  <2>4. watch.due <= samples[i].at + 2 * WatchEvery
    BY <1>4, <2>1, AmountTypes
  <2> HIDE DEF i
  <2>5. \A c \in Coins : wallet'[c] = 0
    BY <1>1
  <2>6. CASE watch.sol \in {Unseen, 0}
    BY <1>1, <1>2, <1>5, <2>1, <2>2, <2>4, <2>5, <2>6 DEF Comparing
  <2>7. CASE watch.sol > 0 /\ watch.sol # Unseen
    BY <1>1, <1>2, <1>5, <2>1, <2>3, <2>5, <2>7 DEF Comparing
  <2> QED  BY <1>4, <2>6, <2>7
<1> QED  BY <1>2, <1>6, <1>7 DEF WatchInv

\* Some samples go off the front and one is appended.
Advanced(r, s, n, e) == r = Append(SubSeq(s, n + 1, Len(s)), e)

\* What a round leaves of a sequence.
TrimFacts(D, s, n, e, r) ==
  /\ r \in Seq(D) /\ Len(r) = Len(s) - n + 1 /\ r[Len(r)] = e /\ r # <<>> /\ Last(r) = e
  /\ DOMAIN r = 1..(Len(s) - n + 1)
  /\ \A i \in 1..(Len(s) - n) : r[i] = s[n + i] /\ n + i \in DOMAIN s

\* The positions of those that stay.
LEMMA Trimmed ==
  ASSUME NEW D, NEW s \in Seq(D), NEW n \in 0..Len(s), NEW e \in D, NEW r,
         Advanced(r, s, n, e)
  PROVE  TrimFacts(D, s, n, e, r)
<1> DEFINE t == SubSeq(s, n + 1, Len(s))
<1>1. t \in Seq(D) /\ Len(t) = Len(s) - n /\ \A i \in 1..(Len(s) - n) : t[i] = s[n + i] /\ n + i \in DOMAIN s
  OBVIOUS
<1>2. r = Append(t, e)
  BY DEF Advanced
<1> HIDE DEF t
<1>3. r \in Seq(D) /\ Len(r) = Len(t) + 1 /\ r[Len(t) + 1] = e /\ \A i \in 1..Len(t) : r[i] = t[i]
  BY <1>1, <1>2
<1>4. Len(s) \in Nat /\ Len(r) = Len(s) - n + 1 /\ DOMAIN r = 1..Len(r) /\ Len(r) > 0
  BY <1>1, <1>3
<1>5. r[Len(r)] = e /\ r # <<>>
  <2>1. r[Len(r)] = e
    BY <1>3
  <2> QED  BY <1>4, <2>1
<1>6. Last(r) = e
  BY <1>5 DEF Last
<1>7. \A i \in 1..(Len(s) - n) : r[i] = s[n + i] /\ n + i \in DOMAIN s
  BY <1>1, <1>3
<1> QED  BY <1>3, <1>4, <1>5, <1>6, <1>7 DEF TrimFacts

\* The first read of a round.
LEMMA SolReadKeepsWatch ==
  ASSUME MoneyTypes, WatchInv, WatchReadsSol, "watch" \in enabled, UNCHANGED enabled
  PROVE  WatchInv'
<1>1. PICK seen \in {wallet["sol"], 0} : Reads("sol", seen) /\ watch' = [watch EXCEPT !.sol = seen]
  BY DEF WatchReadsSol
<1>2. /\ watch.sol = Unseen /\ treasuryNow >= watch.due
      /\ UNCHANGED <<wallet, treasuryNow, samples, alerts, drain>>
  BY DEF WatchReadsSol, chainState
<1>3. /\ treasuryNow \in Nat /\ watch.due \in Nat /\ wallet["sol"] \in Nat /\ seen \in Nat
      /\ lastCause \in Nat \cup {Unseen} /\ lastCause <= treasuryNow
  BY DEF WatchInv, WatchTypes, MoneyTypes, Coins
<1>4. /\ watch' = [due |-> watch.due, sol |-> seen]
      /\ (lastCause' = lastCause /\ seen = wallet["sol"]) \/ lastCause' = treasuryNow
  BY <1>1 DEF WatchInv, WatchTypes, Reads
<1>5. WatchTypes'
  BY <1>2, <1>3, <1>4 DEF WatchInv, WatchTypes
<1>6. WatchKeepsUp'
  BY <1>2, <1>3, <1>4 DEF WatchInv, WatchKeepsUp
<1>7. SamplesTrue'
  <2>1. Total' = Total
    BY <1>2 DEF Total
  <2>2. \A i \in DOMAIN samples : lastCause' < samples[i].at - 1 => lastCause < samples[i].at - 1
    BY <1>3, <1>4, SampleTypes DEF WatchInv, SamplesTrue
  <2> QED  BY <1>2, <1>4, <2>1, <2>2 DEF WatchInv, SamplesTrue
<1>8. AlertsCaused'
  BY <1>2 DEF WatchInv, AlertsCaused
<1>9. DrainNoticed'
  <2>1. Noticed' = Noticed
    BY <1>2 DEF Noticed
  <2>2. Comparing => Comparing'
    <3> SUFFICES ASSUME Comparing PROVE Comparing'
      OBVIOUS
    <3>1. seen = 0
      BY <1>1 DEF Comparing, Coins
    <3> QED  BY <1>2, <1>4, <3>1 DEF Comparing, Unseen
  <2> QED  BY <1>2, <2>1, <2>2 DEF WatchInv, DrainNoticed
<1> QED  BY <1>5, <1>6, <1>7, <1>8, <1>9 DEF WatchInv

\* A fall of everything the peak was is a fall of any percentage of it.
LEMMA WholePeak ==
  ASSUME NEW d \in 1..100, NEW x \in Nat, x > 0
  PROVE  (x - 0) * 100 >= d * x
<1>1. PICK k \in Nat : 100 = d + k
  OBVIOUS
<1>2. k * x \in Nat /\ d * x \in Nat
  OBVIOUS
<1>3. (d + k) * x = d * x + k * x
  BY <1>1
<1> QED  BY <1>1, <1>2, <1>3

\* No fall is none.
LEMMA NoFall ==
  ASSUME NEW d \in 1..100, NEW x \in Nat, x > 0, (x - x) * 100 >= d * x
  PROVE  FALSE
<1>1. d * x > 0
  <2>1. PICK k \in Nat : d = k + 1
    OBVIOUS
  <2>2. (k + 1) * x = k * x + x /\ k * x \in Nat
    OBVIOUS
  <2> QED  BY <2>1, <2>2
<1> QED  BY <1>1

\* What one round of the watch does, field by field.
UsdcRound(seen, n) ==
  /\ watch.sol \in Nat /\ seen \in Nat /\ n \in 0..Len(samples) /\ Trims(n)
  /\ watch.due <= treasuryNow /\ treasuryNow <= watch.due + 1
  /\ (lastCause' = lastCause /\ seen = wallet["usdc"]) \/ lastCause' = treasuryNow
  /\ seen \in {wallet["usdc"], 0}
  /\ watch' = [due |-> watch.due + WatchEvery, sol |-> Unseen]
  /\ samples' = Append(SubSeq(samples, n + 1, Len(samples)),
                       [at |-> treasuryNow, total |-> watch.sol * ApproxSol + seen])
  /\ alerts' = IF Dropped(samples') /\ ~Muted
               THEN Append(alerts, [at |-> treasuryNow, cause |-> lastCause']) ELSE alerts
  /\ UNCHANGED <<wallet, treasuryNow, drain, enabled>>

\* The second read is such a round.
LEMMA UsdcReadIsRound ==
  ASSUME MoneyTypes, WatchInv, WatchReadsUsdc, "watch" \in enabled, UNCHANGED enabled
  PROVE  \E seen \in {wallet["usdc"], 0}, n \in 0..Len(samples) : UsdcRound(seen, n)
<1>1. PICK seen \in {wallet["usdc"], 0}, n \in 0..Len(samples) :
        /\ Reads("usdc", seen) /\ Trims(n)
        /\ samples' = Append(SubSeq(samples, n + 1, Len(samples)),
                             [at |-> treasuryNow, total |-> watch.sol * ApproxSol + seen])
        /\ alerts' = IF Dropped(samples') /\ ~Muted
                     THEN Append(alerts, [at |-> treasuryNow, cause |-> lastCause']) ELSE alerts
  BY DEF WatchReadsUsdc
<1>2. /\ watch.sol # Unseen /\ watch' = [due |-> watch.due + WatchEvery, sol |-> Unseen]
      /\ UNCHANGED <<wallet, treasuryNow, drain, enabled>>
  BY DEF WatchReadsUsdc, chainState
<1>3. watch.sol \in Nat /\ seen \in Nat /\ watch.due <= treasuryNow /\ treasuryNow <= watch.due + 1
  BY <1>1, <1>2 DEF MoneyTypes, WatchInv, WatchTypes, WatchKeepsUp, Coins
<1>4. (lastCause' = lastCause /\ seen = wallet["usdc"]) \/ lastCause' = treasuryNow
  BY <1>1 DEF Reads
<1> QED  BY <1>1, <1>2, <1>3, <1>4 DEF UsdcRound

\* The samples after a round.
LEMMA RoundSamples ==
  ASSUME MoneyTypes, WatchInv, NEW seen, NEW n, UsdcRound(seen, n)
  PROVE  LET r == samples'
             k == Len(samples) - n
         IN  /\ k \in Nat /\ r \in Seq(Sampled) /\ Len(r) = k + 1 /\ r # <<>> /\ DOMAIN r = 1..(k + 1)
             /\ r[k + 1].at = treasuryNow /\ r[k + 1].total = watch.sol * ApproxSol + seen
             /\ Last(r).total = watch.sol * ApproxSol + seen
             /\ \A i \in 1..k : r[i] = samples[n + i] /\ n + i \in DOMAIN samples
             /\ \A i \in DOMAIN r : r[i].at \in Nat /\ r[i].total \in Nat
             /\ watch.sol * ApproxSol + seen \in Nat
<1> DEFINE tot == watch.sol * ApproxSol + seen
           e == [at |-> treasuryNow, total |-> tot]
<1>1. tot \in Nat /\ treasuryNow \in Nat
  <2>1. watch.sol \in Nat /\ seen \in Nat /\ treasuryNow \in Nat /\ ApproxSol \in Nat
    BY AmountTypes DEF UsdcRound, MoneyTypes
  <2>2. watch.sol * ApproxSol \in Nat
    BY <2>1, ProductIsNat
  <2> QED  BY <2>1, <2>2
<1>2. samples' = Append(SubSeq(samples, n + 1, Len(samples)), e) /\ n \in 0..Len(samples)
  BY DEF UsdcRound
<1> HIDE DEF tot
<1>3. e \in Sampled /\ e.at = treasuryNow /\ e.total = tot
  BY <1>1 DEF Sampled
<1> HIDE DEF e
<1>4. samples \in Seq(Sampled) /\ Len(samples) \in Nat
  BY SampleTypes DEF WatchInv
<1>5. /\ samples' \in Seq(Sampled) /\ Len(samples') = Len(samples) - n + 1
      /\ samples'[Len(samples')] = e /\ samples' # <<>> /\ Last(samples') = e
      /\ DOMAIN samples' = 1..(Len(samples) - n + 1)
      /\ \A i \in 1..(Len(samples) - n) : samples'[i] = samples[n + i] /\ n + i \in DOMAIN samples
  <2>1. Advanced(samples', samples, n, e)
    BY <1>2 DEF Advanced
  <2>2. TrimFacts(Sampled, samples, n, e, samples')
    BY <1>2, <1>3, <1>4, <2>1, Trimmed
  <2> QED  BY <2>2 DEF TrimFacts
<1>6. Len(samples) - n \in Nat
  BY <1>2, <1>4
<1>7. \A x \in Sampled : x.at \in Nat /\ x.total \in Nat
  BY DEF Sampled
<1>8. \A i \in DOMAIN samples' : samples'[i] \in Sampled
  BY <1>5
<1> QED  BY <1>1, <1>3, <1>5, <1>6, <1>7, <1>8 DEF tot

\* If nothing happened since before the round, it saw what there is.
LEMMA RoundIsTrue ==
  ASSUME MoneyTypes, WatchInv, NEW seen, NEW n, UsdcRound(seen, n), lastCause' < treasuryNow - 1
  PROVE  watch.sol * ApproxSol + seen = Total
<1>1. lastCause' = lastCause /\ seen = wallet["usdc"]
  BY DEF UsdcRound, MoneyTypes
<1>2. lastCause < watch.due /\ watch.sol # Unseen
  <2>1. /\ treasuryNow \in Nat /\ watch.due \in Nat /\ treasuryNow <= watch.due + 1
        /\ lastCause \in Nat \cup {-1} /\ watch.sol \in Nat
    BY DEF UsdcRound, MoneyTypes, WatchInv, WatchTypes, Unseen
  <2> QED  BY <1>1, <2>1 DEF Unseen
<1>3. watch.sol = wallet["sol"]
  BY <1>2 DEF WatchInv, WatchKeepsUp
<1> QED  BY <1>1, <1>3 DEF Total

\* The samples stay true.
LEMMA RoundKeepsSamples ==
  ASSUME MoneyTypes, WatchInv, NEW seen, NEW n, UsdcRound(seen, n)
  PROVE  SamplesTrue'
<1> DEFINE k == Len(samples) - n
           tot == watch.sol * ApproxSol + seen
<1>1. /\ k \in Nat /\ Len(samples') = k + 1 /\ samples' # <<>> /\ DOMAIN samples' = 1..(k + 1)
      /\ samples'[k + 1].at = treasuryNow /\ samples'[k + 1].total = tot
      /\ \A i \in 1..k : samples'[i] = samples[n + i] /\ n + i \in DOMAIN samples
      /\ \A i \in DOMAIN samples' : samples'[i].at \in Nat
  BY RoundSamples
<1>2. /\ treasuryNow \in Nat /\ n \in Nat /\ watch.due \in Nat /\ watch.due <= treasuryNow /\ watch.due >= 1
      /\ lastCause \in Nat \cup {Unseen} /\ lastCause <= treasuryNow
      /\ lastCause' = lastCause \/ lastCause' = treasuryNow
      /\ Total' = Total /\ treasuryNow' = treasuryNow /\ watch'.due = watch.due + WatchEvery
  BY SampleTypes DEF UsdcRound, MoneyTypes, WatchInv, WatchTypes, WatchKeepsUp, Total
<1>3. lastCause' < treasuryNow - 1 => tot = Total
  BY RoundIsTrue
<1> HIDE DEF k, tot
<1>4. ASSUME NEW i \in DOMAIN samples'
      PROVE  /\ 1 <= samples'[i].at /\ samples'[i].at <= treasuryNow
             /\ lastCause' < samples'[i].at - 1 => samples'[i].total = Total
             /\ \A j \in DOMAIN samples' : i <= j => samples'[i].at <= samples'[j].at
  <2>1. CASE i = k + 1
    BY <1>1, <1>2, <1>3, <2>1
  <2>2. CASE i \in 1..k
    <3>1. /\ samples'[i] = samples[n + i] /\ n + i \in DOMAIN samples
          /\ samples[n + i].at \in Nat
          /\ 1 <= samples[n + i].at /\ samples[n + i].at <= treasuryNow
          /\ lastCause < samples[n + i].at - 1 => samples[n + i].total = Total
          /\ \A j \in DOMAIN samples : n + i <= j => samples[n + i].at <= samples[j].at
      BY <1>1, <2>2, SampleTypes DEF WatchInv, SamplesTrue
    <3>2. lastCause' < samples'[i].at - 1 => samples'[i].total = Total
      BY <1>2, <3>1
    <3>3. ASSUME NEW j \in DOMAIN samples', i <= j PROVE samples'[i].at <= samples'[j].at
      <4>1. CASE j = k + 1
        BY <1>1, <3>1, <4>1
      <4>2. CASE j \in 1..k
        <5>1. samples'[j] = samples[n + j] /\ n + j \in DOMAIN samples /\ n + i <= n + j
          BY <1>1, <1>2, <2>2, <3>3, <4>2
        <5> QED  BY <3>1, <5>1
      <4> QED  BY <1>1, <4>1, <4>2
    <3> QED  BY <3>1, <3>2, <3>3
  <2> QED  BY <1>1, <2>1, <2>2
<1>5. watch'.due <= samples'[Len(samples')].at + WatchEvery
  BY <1>1, <1>2, AmountTypes
<1> QED  BY <1>2, <1>4, <1>5 DEF SamplesTrue

\* A fall that a round reports has a cause in the window.
LEMMA RoundHasCause ==
  ASSUME MoneyTypes, WatchInv, NEW seen, NEW n, UsdcRound(seen, n), Dropped(samples')
  PROVE  lastCause' # Unseen /\ treasuryNow - lastCause' <= AlertWindow + 1
<1> DEFINE k == Len(samples) - n
           tot == watch.sol * ApproxSol + seen
<1>1. /\ k \in Nat /\ DOMAIN samples' = 1..(k + 1) /\ samples'[k + 1].total = tot
      /\ Last(samples').total = tot /\ tot \in Nat
      /\ \A i \in 1..k : samples'[i] = samples[n + i] /\ n + i \in DOMAIN samples
      /\ \A i \in DOMAIN samples' : samples'[i].at \in Nat /\ samples'[i].total \in Nat
  BY RoundSamples
<1>2. PICK i \in DOMAIN samples' :
        samples'[i].total > 0 /\ (samples'[i].total - Last(samples').total) * 100 >= DropPct * samples'[i].total
  BY DEF Dropped
<1>3. /\ treasuryNow \in Nat /\ n \in Nat /\ DropPct \in 1..100 /\ AlertWindow \in Nat /\ k = Len(samples) - n
      /\ Len(samples) \in Nat
      /\ lastCause \in Nat \cup {-1} /\ lastCause <= treasuryNow
      /\ lastCause' = lastCause \/ lastCause' = treasuryNow
  BY SampleTypes, AmountTypes DEF UsdcRound, MoneyTypes, WatchInv, WatchTypes, Unseen
<1>4. lastCause' < treasuryNow - 1 => tot = Total
  BY RoundIsTrue
<1> HIDE DEF tot, k
<1>5. samples'[i].total # tot
  <2> SUFFICES ASSUME samples'[i].total = tot PROVE FALSE
    OBVIOUS
  <2>1. tot > 0 /\ (tot - tot) * 100 >= DropPct * tot
    BY <1>1, <1>2
  <2> QED  BY <1>1, <1>3, <2>1, NoFall
<1>6. i \in 1..k
  BY <1>1, <1>2, <1>5
<1>7. /\ samples'[i] = samples[n + i] /\ n + i \in DOMAIN samples
      /\ samples[n + i].at \in Nat /\ samples[n + i].at >= 1 /\ samples[n + i].at <= treasuryNow
      /\ lastCause < samples[n + i].at - 1 => samples[n + i].total = Total
  BY <1>1, <1>6, SampleTypes DEF WatchInv, SamplesTrue
<1>8. treasuryNow - samples[n + i].at <= AlertWindow
  <2>1. n + 1 \in DOMAIN samples /\ n < Len(samples) /\ n + 1 <= n + i
    BY <1>3, <1>6, SampleTypes DEF WatchInv
  <2>2. treasuryNow - samples[n + 1].at <= AlertWindow
    BY <2>1 DEF UsdcRound, Trims
  <2>3. samples[n + 1].at <= samples[n + i].at /\ samples[n + 1].at \in Nat
    BY <1>7, <2>1, SampleTypes DEF WatchInv, SamplesTrue
  <2> QED  BY <1>3, <1>7, <2>2, <2>3
<1>9. ~(lastCause' < samples[n + i].at - 1)
  <2> SUFFICES ASSUME lastCause' < samples[n + i].at - 1 PROVE FALSE
    OBVIOUS
  <2>1. lastCause' < treasuryNow - 1 /\ lastCause < samples[n + i].at - 1
    BY <1>3, <1>7
  <2> QED  BY <1>4, <1>5, <1>7, <2>1
<1> QED  BY <1>3, <1>7, <1>8, <1>9 DEF Unseen

\* A sequence and one more.
LEMMA Alerting ==
  ASSUME NEW D, NEW s \in Seq(D), NEW e \in D
  PROVE  /\ Append(s, e) \in Seq(D) /\ Len(Append(s, e)) = Len(s) + 1
         /\ Append(s, e)[Len(s) + 1] = e /\ DOMAIN Append(s, e) = 1..(Len(s) + 1)
         /\ \A i \in 1..Len(s) : Append(s, e)[i] = s[i]
OBVIOUS

\* The alerts after a round: one more, or the same.
Raised(e) ==
  /\ alerts' \in Seq(Alerted) /\ Len(alerts') = Len(alerts) + 1 /\ alerts'[Len(alerts) + 1] = e
  /\ DOMAIN alerts' = 1..(Len(alerts) + 1)
  /\ \A i \in 1..Len(alerts) : alerts'[i] = alerts[i]

\* A round alerts if the total fell and the watch is not muted.
LEMMA RoundAlerts ==
  ASSUME MoneyTypes, WatchInv, NEW seen, NEW n, UsdcRound(seen, n)
  PROVE  \/ Dropped(samples') /\ ~Muted /\ Raised([at |-> treasuryNow, cause |-> lastCause'])
         \/ ~(Dropped(samples') /\ ~Muted) /\ alerts' = alerts
<1>1. CASE Dropped(samples') /\ ~Muted
  <2> DEFINE e == [at |-> treasuryNow, cause |-> lastCause']
  <2>1. e \in Alerted
    BY DEF MoneyTypes, WatchInv, WatchTypes, UsdcRound, Alerted
  <2>2. alerts' = Append(alerts, e)
    BY <1>1 DEF UsdcRound
  <2> HIDE DEF e
  <2>3. alerts \in Seq(Alerted)
    BY AlertTypes DEF WatchInv
  <2>4. Raised(e)
    BY <2>1, <2>2, <2>3, Alerting DEF Raised
  <2> QED  BY <1>1, <2>4 DEF e
<1>2. CASE ~(Dropped(samples') /\ ~Muted)
  BY <1>2 DEF UsdcRound
<1> QED  BY <1>1, <1>2

\* Alerted keep their causes and their distance, and none is forgotten.
LEMMA RoundKeepsAlerts ==
  ASSUME MoneyTypes, WatchInv, NEW seen, NEW n, UsdcRound(seen, n)
  PROVE  AlertsCaused' /\ alerts' \in Seq(Alerted) /\ (Noticed => Noticed')
<1>1. treasuryNow' = treasuryNow /\ treasuryNow \in Nat /\ drain' = drain
  BY DEF UsdcRound, MoneyTypes
<1>2. /\ alerts \in Seq(Alerted) /\ DOMAIN alerts = 1..Len(alerts) /\ Len(alerts) \in Nat
      /\ \A i \in DOMAIN alerts : alerts[i].at \in Nat
      /\ alerts # <<>> => Last(alerts) = alerts[Len(alerts)]
  BY AlertTypes DEF WatchInv
<1>3. AlertsCaused
  BY DEF WatchInv
<1>4. CASE alerts' = alerts
  BY <1>1, <1>2, <1>3, <1>4 DEF AlertsCaused, Noticed
<1>5. CASE Dropped(samples') /\ ~Muted /\ Raised([at |-> treasuryNow, cause |-> lastCause'])
  <2> DEFINE e == [at |-> treasuryNow, cause |-> lastCause']
             k == Len(alerts)
  <2>1. e.at = treasuryNow /\ e.cause # Unseen /\ e.at - e.cause <= AlertWindow + 1
    BY <1>5, RoundHasCause
  <2>2. /\ alerts' \in Seq(Alerted) /\ DOMAIN alerts' = 1..(k + 1) /\ alerts'[k + 1] = e
        /\ \A i \in 1..k : alerts'[i] = alerts[i]
    BY <1>5 DEF Raised
  <2> HIDE DEF e
  <2>3. k > 0 => treasuryNow - alerts[k].at >= AlertWindow
    <3> SUFFICES ASSUME k > 0 PROVE treasuryNow - alerts[k].at >= AlertWindow
      OBVIOUS
    <3>1. alerts # <<>> /\ k \in DOMAIN alerts
      BY <1>2
    <3>2. Last(alerts).at = alerts[k].at /\ alerts[k].at \in Nat
      BY <1>2, <3>1
    <3> QED  BY <1>1, <1>5, <3>1, <3>2, AmountTypes DEF Muted
  <2>4. ASSUME NEW i \in DOMAIN alerts'
        PROVE  /\ alerts'[i].cause # Unseen /\ alerts'[i].at - alerts'[i].cause <= AlertWindow + 1
               /\ alerts'[i].at <= treasuryNow
               /\ i > 1 => alerts'[i].at - alerts'[i - 1].at >= AlertWindow
    <3>1. CASE i = k + 1
      <4>1. i > 1 => k > 0 /\ i - 1 = k /\ alerts'[i - 1] = alerts[k]
        BY <1>2, <2>2, <3>1
      <4> QED  BY <1>1, <2>1, <2>2, <2>3, <3>1, <4>1
    <3>2. CASE i \in 1..k
      <4>1. alerts'[i] = alerts[i] /\ (i > 1 => alerts'[i - 1] = alerts[i - 1]) /\ i \in DOMAIN alerts
        BY <1>2, <2>2, <3>2
      <4> QED  BY <1>3, <4>1 DEF AlertsCaused
    <3> QED  BY <1>2, <2>2, <3>1, <3>2
  <2>5. AlertsCaused'
    BY <1>1, <2>4 DEF AlertsCaused
  <2>6. Noticed => Noticed'
    <3> SUFFICES ASSUME Noticed PROVE Noticed'
      OBVIOUS
    <3>1. PICK i \in DOMAIN alerts : alerts[i].at >= drain.at - AlertWindow
      BY DEF Noticed
    <3>2. i \in DOMAIN alerts' /\ alerts'[i] = alerts[i]
      BY <1>2, <2>2, <3>1
    <3> QED  BY <1>1, <3>1, <3>2 DEF Noticed
  <2> QED  BY <2>2, <2>5, <2>6
<1> QED  BY <1>4, <1>5, RoundAlerts

\* An alert by this round, or the one that mutes it, is one the operator can tie to
\* the drain.
LEMMA FallIsNoticed ==
  ASSUME MoneyTypes, WatchInv, NEW seen, NEW n, UsdcRound(seen, n), Dropped(samples'),
         drain.at # Unseen
  PROVE  Noticed'
<1>1. /\ treasuryNow' = treasuryNow /\ treasuryNow \in Nat /\ drain' = drain /\ drain.at \in Nat
      /\ drain.at <= treasuryNow
  BY DEF UsdcRound, MoneyTypes, WatchInv, WatchTypes, DrainNoticed
<1>2. /\ alerts \in Seq(Alerted) /\ DOMAIN alerts = 1..Len(alerts) /\ Len(alerts) \in Nat
      /\ \A i \in DOMAIN alerts : alerts[i].at \in Nat
      /\ alerts # <<>> => Len(alerts) \in DOMAIN alerts /\ Last(alerts) = alerts[Len(alerts)]
  BY AlertTypes DEF WatchInv
<1>3. CASE Muted /\ alerts' = alerts
  <2>1. /\ Len(alerts) \in DOMAIN alerts
        /\ treasuryNow - alerts[Len(alerts)].at < AlertWindow
    BY <1>2, <1>3 DEF Muted
  <2>2. alerts[Len(alerts)].at >= drain.at - AlertWindow
    BY <1>1, <1>2, <2>1, AmountTypes
  <2> QED  BY <1>1, <1>3, <2>1, <2>2 DEF Noticed
<1>4. CASE Raised([at |-> treasuryNow, cause |-> lastCause'])
  <2>1. /\ Len(alerts) + 1 \in DOMAIN alerts' /\ alerts'[Len(alerts) + 1].at = treasuryNow
    BY <1>2, <1>4 DEF Raised
  <2>2. treasuryNow >= drain.at - AlertWindow
    BY <1>1, AmountTypes
  <2> QED  BY <1>1, <2>1, <2>2 DEF Noticed
<1> QED  BY <1>3, <1>4, RoundAlerts

\* The round that sees the empty wallet reports it or is muted by an alert in the
\* window; the one before it at least keeps what there was.
LEMMA RoundNoticesDrain ==
  ASSUME MoneyTypes, WatchInv, NEW seen, NEW n, UsdcRound(seen, n),
         AlertWindow >= 2 * WatchEvery + 1
  PROVE  DrainNoticed'
<1> DEFINE k == Len(samples) - n
           tot == watch.sol * ApproxSol + seen
<1>1. /\ treasuryNow \in Nat /\ UNCHANGED <<treasuryNow, drain, wallet, enabled>>
      /\ drain.at \in Nat \cup {Unseen} /\ drain.shown \in Nat /\ drain.at <= treasuryNow
      /\ watch.due \in Nat /\ watch.sol \in Nat /\ treasuryNow <= watch.due + 1
      /\ watch' = [due |-> watch.due + WatchEvery, sol |-> Unseen]
      /\ n \in 0..Len(samples) /\ Len(samples) \in Nat /\ k = Len(samples) - n
      /\ seen \in {wallet["usdc"], 0}
  BY SampleTypes DEF UsdcRound, MoneyTypes, WatchInv, WatchTypes, DrainNoticed
<1> SUFFICES ASSUME "watch" \in enabled, drain.at # Unseen, drain.shown > 0
             PROVE  Noticed' \/ Comparing'
  BY <1>1 DEF DrainNoticed
<1>2. Noticed \/ Comparing
  BY DEF WatchInv, DrainNoticed
<1>3. CASE Noticed
  BY <1>3, RoundKeepsAlerts
<1>4. CASE Comparing
  <2>1. PICK j \in DOMAIN samples :
          /\ samples[j].total = drain.shown
          /\ \/ watch.sol \in {Unseen, 0} /\ watch.due <= drain.at + WatchEvery
                /\ watch.due <= samples[j].at + 2 * WatchEvery
             \/ watch.sol > 0 /\ watch.due <= drain.at /\ watch.due <= samples[j].at + WatchEvery
    BY <1>4 DEF Comparing
  <2>2. /\ k \in Nat /\ Len(samples') = k + 1 /\ DOMAIN samples' = 1..(k + 1)
        /\ Last(samples').total = tot /\ tot \in Nat
        /\ \A i \in 1..k : samples'[i] = samples[n + i]
    BY RoundSamples
  <2> HIDE DEF k, tot
  <2>3. samples[j].at \in Nat /\ j \in 1..Len(samples)
    BY SampleTypes DEF WatchInv
  <2>4. treasuryNow - samples[j].at <= AlertWindow
    <3>1. WatchEvery \in Nat /\ AlertWindow \in Nat
      BY AmountTypes
    <3>2. watch.due \in Nat /\ treasuryNow \in Nat /\ treasuryNow <= watch.due + 1
      BY <1>1
    <3> DEFINE sampled == samples[j].at
               due == watch.due
    <3>3. due <= sampled + 2 * WatchEvery \/ due <= sampled + WatchEvery
      BY <2>1
    <3>4. sampled \in Nat /\ due \in Nat /\ treasuryNow <= due + 1
      BY <2>3, <3>2
    <3> HIDE DEF sampled, due
    <3>5. due <= sampled + 2 * WatchEvery
      BY <3>1, <3>3, <3>4
    <3>6. treasuryNow - sampled <= AlertWindow
      BY <3>1, <3>2, <3>4, <3>5
    <3> QED  BY <3>6 DEF sampled
  <2>5. ~(j \in 1..n)
    BY <1>1, <2>3, <2>4, AmountTypes DEF UsdcRound, Trims
  <2> DEFINE i == j - n
  <2>6. i \in 1..k /\ n + i = j
    BY <1>1, <2>3, <2>5
  <2> HIDE DEF i
  <2>7. i \in DOMAIN samples' /\ samples'[i] = samples[j] /\ Len(samples') >= 2
    BY <2>2, <2>6
  <2>8. CASE watch.sol = 0
    <3>1. seen = 0
      BY <1>1, <1>4 DEF Comparing, Coins
    <3>2. tot = 0
      BY <2>8, <3>1, AmountTypes DEF tot
    <3>3. (drain.shown - 0) * 100 >= DropPct * drain.shown
      BY <1>1, WholePeak, AmountTypes
    <3>4. samples'[i].total = drain.shown /\ Last(samples').total = 0
      BY <2>1, <2>2, <2>7, <3>2
    <3>5. (samples'[i].total - Last(samples').total) * 100 >= DropPct * samples'[i].total
      BY <3>3, <3>4
    <3>6. Dropped(samples')
      BY <2>7, <3>4, <3>5 DEF Dropped
    <3> QED  BY <3>6, FallIsNoticed
  <2>9. CASE watch.sol > 0
    <3>1. watch.due <= drain.at /\ watch.due <= samples[j].at + WatchEvery
      BY <2>1, <2>9 DEF Unseen
    <3>2. watch'.due <= drain.at + WatchEvery /\ watch'.due <= samples[j].at + 2 * WatchEvery
      <4>1. /\ watch'.due = watch.due + WatchEvery /\ watch.due \in Nat /\ drain.at \in Nat
            /\ WatchEvery \in Nat /\ samples[j].at \in Nat
        BY <1>1, <2>3, AmountTypes
      <4> QED  BY <3>1, <4>1
    <3>3. samples'[i].total = drain.shown /\ samples'[i].at = samples[j].at
      BY <2>1, <2>7
    <3>4. \A c \in Coins : wallet[c] = 0
      BY <1>4 DEF Comparing
    <3> QED  BY <1>1, <2>7, <3>2, <3>3, <3>4 DEF Comparing
  <2> QED  BY <1>1, <2>8, <2>9
<1> QED  BY <1>2, <1>3, <1>4

\* The second read of a round.
LEMMA UsdcReadKeepsWatch ==
  ASSUME MoneyTypes, WatchInv, WatchReadsUsdc, "watch" \in enabled, UNCHANGED enabled,
         AlertWindow >= 2 * WatchEvery + 1
  PROVE  WatchInv'
<1>1. PICK seen \in {wallet["usdc"], 0}, n \in 0..Len(samples) : UsdcRound(seen, n)
  BY UsdcReadIsRound
<1>2. SamplesTrue' /\ AlertsCaused' /\ DrainNoticed'
  BY <1>1, RoundKeepsSamples, RoundKeepsAlerts, RoundNoticesDrain
<1>3. /\ samples' \in Seq(Sampled) /\ alerts' \in Seq(Alerted)
  BY <1>1, RoundSamples, RoundKeepsAlerts
<1>4. /\ UNCHANGED <<treasuryNow, drain>> /\ treasuryNow \in Nat
      /\ watch' = [due |-> watch.due + WatchEvery, sol |-> Unseen]
      /\ watch.due \in Nat /\ watch.due >= 1 /\ watch.due <= treasuryNow /\ treasuryNow <= watch.due + 1
      /\ lastCause' = lastCause \/ lastCause' = treasuryNow
      /\ lastCause \in Nat \cup {Unseen} /\ lastCause <= treasuryNow
  BY <1>1 DEF UsdcRound, MoneyTypes, WatchInv, WatchTypes, WatchKeepsUp
<1>5. WatchTypes'
  <2>1. watch' \in [due : Nat, sol : Nat \cup {Unseen}]
    BY <1>4, AmountTypes
  <2> QED  BY <1>3, <1>4, <2>1 DEF WatchInv, WatchTypes, Sampled, Alerted
<1>6. WatchKeepsUp'
  BY <1>4, AmountTypes DEF WatchKeepsUp
<1> QED  BY <1>2, <1>5, <1>6 DEF WatchInv

\* Every step keeps what the watch knows.
LEMMA WatchStep ==
  ASSUME AlertWindow >= 2 * WatchEvery + 1, MoneyTypes, WatchInv, [TreasuryNext]_treasuryVars
  PROVE  WatchInv'
<1>1. UNCHANGED enabled
  BY DEF TreasuryNext, treasuryVars
<1>2. CASE TreasuryTick
  BY <1>1, <1>2, TickKeepsWatch
<1>3. CASE Drained
  BY <1>1, <1>3, DrainKeepsWatch
<1>4. ASSUME NEW swap \in pendingSwaps, SwapLands(swap) PROVE WatchInv'
  BY <1>1, <1>4, LandingKeepsWatch
<1>5. CASE SweepRound \/ SweepReads \/ SweepSends \/ StableTurn \/ UNCHANGED treasuryVars
  <2>1. /\ UNCHANGED <<wallet, treasuryNow, watchState, drain>>
        /\ lastCause' = lastCause \/ lastCause' = treasuryNow
    BY <1>5 DEF SweepRound, SweepReads, SweepSends, StableTurn, Reads, treasuryVars, chainState
  <2>2. /\ WatchKeepsUp' /\ SamplesTrue' /\ AlertsCaused'
        /\ lastCause' \in Nat \cup {Unseen} /\ lastCause' <= treasuryNow'
        /\ UNCHANGED <<watch, samples, alerts>>
    BY <1>1, <2>1, CauseStep DEF WatchInv
  <2>3. WatchTypes'
    BY <2>1, <2>2 DEF WatchInv, WatchTypes
  <2>4. DrainNoticed'
    <3>1. Noticed' = Noticed /\ Comparing' = Comparing
      BY <2>1, <2>2 DEF Noticed, Comparing
    <3> QED  BY <1>1, <2>1, <3>1 DEF WatchInv, DrainNoticed
  <2> QED  BY <2>2, <2>3, <2>4 DEF WatchInv
<1>6. CASE "watch" \in enabled /\ WatchReadsSol
  BY <1>1, <1>6, SolReadKeepsWatch
<1>7. CASE "watch" \in enabled /\ WatchReadsUsdc
  BY <1>1, <1>7, UsdcReadKeepsWatch
<1> QED  BY <1>2, <1>3, <1>4, <1>5, <1>6, <1>7 DEF TreasuryNext

\* Numbers a period apart are in different periods.
LEMMA Spread ==
  ASSUME NEW p \in Nat \ {0}, NEW x \in Nat, NEW y \in Nat, x + p <= y
  PROVE  x \div p # y \div p
<1> DEFINE q == x \div p
           r == y \div p
<1>1. q \in Nat /\ r \in Nat /\ p * q <= x /\ x < p * q + p /\ p * r <= y /\ y < p * r + p
  OBVIOUS
<1>2. p * q \in Nat
  BY <1>1
<1> HIDE DEF q, r
<1>3. q # r
  BY <1>1, <1>2
<1> QED  BY <1>3 DEF q, r

\* A quotient grows with its dividend.
LEMMA QuotientBound ==
  ASSUME NEW p \in Nat \ {0}, NEW x \in Nat, NEW l \in Nat, x <= l
  PROVE  x \div p \in 0..(l \div p) /\ l \div p \in Nat
<1> DEFINE q == x \div p
           r == l \div p
<1>1. q \in Nat /\ r \in Nat /\ p * q <= x /\ x < p * q + p /\ p * r <= l /\ l < p * r + p
  OBVIOUS
<1>2. \A k \in Nat : p * k \in Nat
  OBVIOUS
<1> HIDE DEF q, r
<1>3. ~(r < q)
  <2> SUFFICES ASSUME r < q PROVE FALSE
    OBVIOUS
  <2>1. PICK k \in Nat : q = r + 1 + k
    BY <1>1
  <2>2. p * q = p * r + p + p * k
    BY <1>1, <2>1
  <2> QED  BY <1>1, <1>2, <2>2
<1>4. q <= r
  BY <1>1, <1>3
<1> QED  BY <1>1, <1>4 DEF q, r

\* No more sweeps of a coin are under way than rounds fit in the life of a
\* blockhash: their ages fall into different rounds.
LEMMA FewSweeps ==
  ASSUME MoneyInv, NEW coin
  PROVE  Cardinality({s \in pendingSwaps : s.by = "sweep" /\ s.src = coin}) <= SwapLife \div SweepEvery + 1
<1> DEFINE S == {s \in pendingSwaps : s.by = "sweep" /\ s.src = coin}
           b == SwapLife \div SweepEvery
           ago(s) == SwapLife - (treasuryNow - s.at)
           f == [s \in S |-> ago(s) \div SweepEvery]
<1>1. SweepEvery \in Nat \ {0} /\ SwapLife \in Nat /\ treasuryNow \in Nat
  BY AmountTypes DEF MoneyInv, MoneyTypes
<1>2. \A s \in S : s.at \in Nat /\ s.at <= treasuryNow /\ treasuryNow - s.at <= SwapLife
  BY SwapFields DEF MoneyInv, MoneyTypes
<1>3. \A s \in S : ago(s) \in Nat /\ ago(s) <= SwapLife
  BY <1>1, <1>2
<1>4. \A s \in S : ago(s) \div SweepEvery \in 0..b
  BY <1>1, <1>3, QuotientBound
<1>5. b \in Nat
  BY <1>1, QuotientBound
<1>6. \A s, t \in S : s # t => f[s] # f[t]
  <2> SUFFICES ASSUME NEW s \in S, NEW t \in S, s # t PROVE ago(s) \div SweepEvery # ago(t) \div SweepEvery
    OBVIOUS
  <2>1. s.at + SweepEvery <= t.at \/ t.at + SweepEvery <= s.at
    BY DEF MoneyInv, SweepsApart
  <2>2. ago(s) + SweepEvery <= ago(t) \/ ago(t) + SweepEvery <= ago(s)
    BY <1>1, <1>2, <2>1
  <2>3. ago(s) \in Nat /\ ago(t) \in Nat
    BY <1>3
  <2> HIDE DEF ago
  <2> QED  BY <1>1, <2>2, <2>3, Spread
<1>7. f \in Injection(S, 0..b)
  BY <1>4, <1>6, Fun_IsInj
<1> HIDE DEF S, b, f
<1>8. IsFiniteSet(0..b) /\ Cardinality(0..b) = b + 1
  BY <1>5, FS_Interval
<1>9. IsFiniteSet(S) /\ Cardinality(S) <= Cardinality(0..b)
  BY <1>7, <1>8, FS_Injection
<1> QED  BY <1>8, <1>9 DEF S, b

\* The invariant, if the window spans two rounds of the watch (the defaults are
\* 300 and 30 seconds, scout.rs:2035 and 2064).
LEMMA TreasuryInvHolds ==
  ASSUME AlertWindow >= 2 * WatchEvery + 1
  PROVE  TreasurySpec => [](MoneyInv /\ WatchInv)
<1>1. TreasuryInit => MoneyInv /\ WatchInv
  BY TreasuryInitInv
<1>2. MoneyInv /\ WatchInv /\ [TreasuryNext]_treasuryVars => (MoneyInv /\ WatchInv)'
  BY MoneyStep, WatchStep DEF MoneyInv
<1> QED  BY <1>1, <1>2, PTL DEF TreasurySpec

\* scout.rs, run_wallet_watch, run_sol_accumulator and run_cross_stable_arb: for any
\* wallet, thresholds and intervals a sweep leaves its threshold, sweeps do not pile
\* up, every alert has a cause, and a thief goes unnoticed only behind an alert.
THEOREM MoneyIsWatched ==
  ASSUME AlertWindow >= 2 * WatchEvery + 1
  PROVE  TreasurySpec => []TreasurySound
<1>1. MoneyInv /\ WatchInv => TreasurySound
  <2> SUFFICES ASSUME MoneyInv, WatchInv PROVE TreasurySound
    OBVIOUS
  <2>1. \A swap \in pendingSwaps : swap.alone => wallet[swap.src] >= SweepAbove + swap.amount
    BY DEF MoneyInv, SweepsCovered
  <2>2. \A coin \in {"usdc", "usdt"} :
          Cardinality({s \in pendingSwaps : s.by = "sweep" /\ s.src = coin}) <= SwapLife \div SweepEvery + 1
    BY FewSweeps
  <2>3. \A i \in DOMAIN alerts :
          /\ alerts[i].cause # Unseen /\ alerts[i].at - alerts[i].cause <= AlertWindow + 1
          /\ i > 1 => alerts[i].at - alerts[i - 1].at >= AlertWindow
    BY DEF WatchInv, AlertsCaused
  <2>4. Overdue => \E i \in DOMAIN alerts : alerts[i].at >= drain.at - AlertWindow
    <3> SUFFICES ASSUME Overdue PROVE Noticed
      BY DEF Noticed
    <3>1. /\ "watch" \in enabled /\ drain.at # Unseen /\ drain.shown > 0
          /\ treasuryNow > drain.at + WatchEvery + 1
      BY DEF Overdue
    <3>2. treasuryNow \in Nat /\ watch.due \in Nat /\ drain.at \in Nat /\ treasuryNow <= watch.due + 1
      BY <3>1 DEF MoneyInv, MoneyTypes, WatchInv, WatchTypes, WatchKeepsUp
    <3>3. ~(watch.due <= drain.at + WatchEvery) /\ ~(watch.due <= drain.at)
      BY <3>1, <3>2, AmountTypes
    <3>4. ~Comparing
      BY <3>3 DEF Comparing
    <3> QED  BY <3>1, <3>4 DEF WatchInv, DrainNoticed
  <2> QED  BY <2>1, <2>2, <2>3, <2>4 DEF TreasurySound
<1> QED  BY <1>1, TreasuryInvHolds, PTL
=============================================================================
