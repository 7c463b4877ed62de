---------------------------- MODULE SnipeBudget ----------------------------
(***************************************************************************)
(* The pump.fun buy budget of the bot, PumpSnipeBudget in                  *)
(* src/crates/arb-scout/src/pump_sniper_budget.rs: a lamport counter and a *)
(* set of mints behind one mutex, mirrored to a JSON file.                 *)
(*                                                                         *)
(* A buy task (one tokio task per detected token) reserves its lamports,   *)
(* sends or gives up, and may hand the reservation back.  The counter is   *)
(* changed and serialised under the mutex; the file is written after the   *)
(* mutex was dropped, so the writes of two tasks may take any order.       *)
(* std::fs::write truncates the file and then writes it from offset 0, and *)
(* the process may stop between any two steps.                             *)
(*                                                                         *)
(* What the task does between reserving and sending is left to PumpBuy.    *)
(***************************************************************************)
EXTENDS Integers, FiniteSets

CONSTANTS
  Tasks,            \* concurrent buy tasks
  Mints,            \* tokens the detectors report
  NoMint,           \* a task without a reservation
  Weight,           \* Weight[S]: the lamports asked for the mints of S together
  CapLamports,      \* PUMP_FUN_TOTAL_BUDGET_LAMPORTS
  U64Max,           \* largest value of the counter's type
  MaxRestarts,      \* bound: how often the process is restarted
  CrashMidWrite,    \* may the process stop between truncating and writing?
  DiskFaults,       \* may fs::write return an error?
  RefundAfterSend   \* may a caller release a reservation whose buy went out?

\* Weight is a finitely additive measure: the sum of one amount per mint.
ASSUME BudgetAssumption ==
  /\ IsFiniteSet(Mints) /\ NoMint \notin Mints
  /\ Weight \in [SUBSET Mints -> Nat]
  /\ \A S, T \in SUBSET Mints :
        S \cap T = {} => Weight[S \cup T] = Weight[S] + Weight[T]
  /\ CapLamports \in Nat /\ U64Max \in Nat /\ CapLamports < U64Max
  /\ MaxRestarts \in Nat
  /\ CrashMidWrite \in BOOLEAN /\ DiskFaults \in BOOLEAN
  /\ RefundAfterSend \in BOOLEAN

VARIABLES
  mem,        \* PersistedState under the mutex: total_spent_lamports, bought_mints
  file,       \* the state file: the bytes at its start and its length
  pc,         \* where each task stands
  mint,       \* the mint of each task's reservation
  snap,       \* the snapshot each task serialised under the mutex
  sentRun,    \* history: mints whose buy was sent since the last start
  sent,       \* history: mints whose buy was ever sent
  restarts    \* bounded count of restarts

vars == <<mem, file, pc, mint, snap, sentRun, sent, restarts>>

---------------------------------------------------------------------------
(* Data.                                                                   *)

Snapshots == [total : Nat, mints : SUBSET Mints]
Fresh     == [total |-> 0, mints |-> {}]

\* Length of the serialised snapshot, counted in mints (every mint takes one
\* line, and a line is longer than any change in the digits of the total).
Size(s) == 1 + Cardinality(s.mints)

Truncated == [head |-> Fresh, len |-> 0]

\* Writing s at offset 0 of a file somebody else may have filled since this
\* task truncated it: the longer text sticks out behind the shorter one.
Overlay(f, s) ==
  [head |-> s, len |-> IF f.len > Size(s) THEN f.len ELSE Size(s)]

Readable(f) == f.len = Size(f.head)

\* A missing, empty or unparsable file is a fresh start.
Load(f) == IF Readable(f) THEN f.head ELSE Fresh

\* Mutants of the counter's arithmetic: wrapping, operands swapped, no effect.
MutWrapAdd(a, b) == (a + b) % (U64Max + 1)
MutSwapSub(a, b) == IF a < b THEN 0 ELSE b - a
MutKeepSub(a, b) == a

SatAdd(a, b) == IF a + b > U64Max THEN U64Max ELSE a + b
SatSub(a, b) == IF a < b THEN 0 ELSE a - b

Lamports(m) == Weight[{m}]

---------------------------------------------------------------------------
Holding == {"reserved", "writing", "held", "sent"}
Flushing == {"reserved", "released"}
Opened   == {"writing", "rewriting"}

\* A task whose reservation is counted in mem.
Live(t) == pc[t] \in Holding

Init ==
  /\ mem = Fresh
  /\ file = Truncated
  /\ pc = [t \in Tasks |-> "idle"]
  /\ mint = [t \in Tasks |-> NoMint]
  /\ snap = [t \in Tasks |-> Fresh]
  /\ sentRun = {}
  /\ sent = {}
  /\ restarts = 0

\* The two gates of try_reserve, and who may hand a reservation back.
MutNoDedup(m) == TRUE
NotBought(m) == m \notin mem.mints

MutOldTotal(newTotal) == mem.total <= CapLamports
WithinCap(newTotal) == newTotal <= CapLamports

MutSentToo(t) == pc[t] \in {"held", "sent"}
Refundable(t) == pc[t] = "held" \/ (RefundAfterSend /\ pc[t] = "sent")

\* The locked part of try_reserve.  Its two refusals (AlreadyBought,
\* BudgetExhausted) return without touching the state.
TryReserve(t, m) ==
  LET newTotal == SatAdd(mem.total, Lamports(m))
      booked   == [total |-> newTotal, mints |-> mem.mints \cup {m}]
  IN  /\ pc[t] = "idle"
      /\ NotBought(m)
      /\ WithinCap(newTotal)
      /\ mem' = booked
      /\ snap' = [snap EXCEPT ![t] = booked]
      /\ mint' = [mint EXCEPT ![t] = m]
      /\ pc' = [pc EXCEPT ![t] = "reserved"]
      /\ UNCHANGED <<file, sentRun, sent, restarts>>

\* fs::write opens the file with O_TRUNC ...
OpenFile(t) ==
  /\ pc[t] \in Flushing
  /\ file' = Truncated
  /\ pc' = [pc EXCEPT ![t] = IF @ = "reserved" THEN "writing" ELSE "rewriting"]
  /\ UNCHANGED <<mem, mint, snap, sentRun, sent, restarts>>

\* Where the task goes when fs::write returns.
Returned(p) == IF p \in Holding THEN "held" ELSE "idle"

\* ... and writes the snapshot.
WriteFile(t) ==
  /\ pc[t] \in Opened
  /\ file' = Overlay(file, snap[t])
  /\ pc' = [pc EXCEPT ![t] = Returned(@)]
  /\ UNCHANGED <<mem, mint, snap, sentRun, sent, restarts>>

\* An error of fs::write is logged and otherwise ignored.
WriteFails(t) ==
  /\ DiskFaults
  /\ pc[t] \in Flushing \cup Opened
  /\ pc' = [pc EXCEPT ![t] = Returned(@)]
  /\ UNCHANGED <<mem, file, mint, snap, sentRun, sent, restarts>>

\* The caller sends the buy it reserved for.
Spend(t) ==
  /\ pc[t] = "held"
  /\ pc' = [pc EXCEPT ![t] = "sent"]
  /\ sentRun' = sentRun \cup {mint[t]}
  /\ sent' = sent \cup {mint[t]}
  /\ UNCHANGED <<mem, file, mint, snap, restarts>>

\* The locked part of release_reservation.
Release(t) ==
  LET left == [total |-> SatSub(mem.total, Lamports(mint[t])),
               mints |-> mem.mints \ {mint[t]}]
  IN  /\ Refundable(t)
      /\ mem' = left
      /\ snap' = [snap EXCEPT ![t] = left]
      /\ pc' = [pc EXCEPT ![t] = "released"]
      /\ UNCHANGED <<file, mint, sentRun, sent, restarts>>

\* The caller returns and keeps the reservation booked: after a sent buy, and
\* on every error between reserving and sending.
Finish(t) ==
  /\ pc[t] \in {"held", "sent"}
  /\ pc' = [pc EXCEPT ![t] = "idle"]
  /\ UNCHANGED <<mem, file, mint, snap, sentRun, sent, restarts>>

\* The process stops and starts again: load_or_default.
Restart ==
  /\ restarts < MaxRestarts
  /\ CrashMidWrite \/ \A t \in Tasks : pc[t] \notin Opened
  /\ mem' = Load(file)
  /\ pc' = [t \in Tasks |-> "idle"]
  /\ mint' = [t \in Tasks |-> NoMint]
  /\ snap' = [t \in Tasks |-> Fresh]
  /\ sentRun' = {}
  /\ restarts' = restarts + 1
  /\ UNCHANGED <<file, sent>>

Step(t) ==
  \/ \E m \in Mints : TryReserve(t, m)
  \/ OpenFile(t)
  \/ WriteFile(t)
  \/ WriteFails(t)
  \/ Spend(t)
  \/ Release(t)
  \/ Finish(t)

Next == Restart \/ \E t \in Tasks : Step(t)

Spec == Init /\ [][Next]_vars

---------------------------------------------------------------------------
(* Properties.                                                             *)

\* Types of the persisted state, the file, and what each task carries.
TypeOK ==
  /\ mem \in Snapshots
  /\ file \in [head : Snapshots, len : Nat]
  /\ pc \in [Tasks -> Holding \cup {"idle", "released", "rewriting"}]
  /\ mint \in [Tasks -> Mints \cup {NoMint}]
  /\ snap \in [Tasks -> Snapshots]
  /\ sentRun \in SUBSET Mints
  /\ sent \in SUBSET Mints
  /\ restarts \in Nat

\* A snapshot whose counter is the price of exactly its mints.
Balanced(s) == s.total = Weight[s.mints]

\* The counter and the mint set never drift apart: not in memory, not in a
\* snapshot on its way to the disk, not in the file, whatever the order of
\* reservations, releases, writes, faults and restarts (a release subtracts
\* what its own reservation added, once).
LedgerBalanced ==
  /\ Balanced(mem)
  /\ \A t \in Tasks : Balanced(snap[t])
  /\ Balanced(file.head)

\* Two tasks never hold a reservation for the same mint, and no other task's
\* release takes a live reservation out of the set (the dedup of try_reserve).
OneHolderPerMint ==
  \A t \in Tasks : Live(t) =>
    /\ mint[t] \in mem.mints
    /\ \A u \in Tasks \ {t} : Live(u) => mint[u] # mint[t]

\* Within one run of the process the buys that went out cost no more than
\* the cap, though reservations were handed back in between.
SpentWithinCap == Weight[sentRun] <= CapLamports

\* Within one run no mint is bought twice: a task about to send never finds
\* its mint among those already sent.
NeverBoughtTwice ==
  [][\A t \in Tasks : pc[t] = "held" /\ pc'[t] = "sent" => mint[t] \notin sentRun]_vars

\* The budget object implements the ledger: as far as a caller can see, every
\* step of the tasks, their file writes and the restarts is a booking, a buy,
\* the return of a booking that was not bought, a new run, or nothing.
Ledger == INSTANCE BuyLedger WITH booked <- mem.mints, bought <- sentRun
ImplementsLedger == Ledger!LedgerSpec

\* pump_sniper_budget.rs:8 and :76: a restart never forgets a buy that was
\* sent, so neither the cap nor the dedup can be bypassed by restarting.
SpendSurvivesRestart == sent \subseteq mem.mints
=============================================================================
