---------------------------- MODULE Executor_proofs ---------------------------
(***************************************************************************)
(* What the gates of the Jupiter executor promise, for any tasks, calls    *)
(* and results, and what becomes of the transactions that pass them,       *)
(* whichever lanes carry them and whichever answers are lost.              *)
(***************************************************************************)
EXTENDS Executor, Delivery, FiniteSetTheorems, NaturalsInduction, TLAPS

\* The tasks suspended at one of the places P; those past the loss gate.
Among(P) == {t \in Tasks : at[t] \in P}
Busy == Places \ {"idle"}
PastLossGate == {"quote", "lock", "build", "send"}

\* Counting the tasks at P, when task t goes from where it stands to p.
LEMMA Moves ==
  ASSUME NEW P, NEW t \in Tasks, NEW p,
         at \in [Tasks -> Places], at' = [at EXCEPT ![t] = p]
  PROVE  /\ Cardinality(Among(P)) \in Nat /\ Cardinality(Tasks) \in Nat
         /\ Cardinality(Among(P)) <= Cardinality(Tasks)
         /\ (p \in P) = (at[t] \in P) => Cardinality(Among(P)') = Cardinality(Among(P))
         /\ p \in P /\ at[t] \notin P
              => Cardinality(Among(P)') = Cardinality(Among(P)) + 1
         /\ p \notin P /\ at[t] \in P
              => Cardinality(Among(P)') = Cardinality(Among(P)) - 1
         /\ p \notin P => Cardinality(Among(P)') <= Cardinality(Tasks) - 1
<1>1. IsFiniteSet(Tasks) /\ Cardinality(Tasks) \in Nat
  BY FS_CardinalityType, ExecutorAssumption
<1>2. Among(P) \in SUBSET Tasks /\ Among(P)' \in SUBSET Tasks
  BY DEF Among
<1>3. /\ IsFiniteSet(Among(P)) /\ Cardinality(Among(P)) \in Nat
      /\ Cardinality(Among(P)) <= Cardinality(Tasks)
  BY <1>1, <1>2, FS_Subset, FS_CardinalityType
<1>4. ASSUME (p \in P) = (at[t] \in P)
      PROVE  Cardinality(Among(P)') = Cardinality(Among(P))
  <2>1. Among(P)' = Among(P)
    BY <1>4 DEF Among
  <2> QED  BY <2>1
<1>5. ASSUME p \in P, at[t] \notin P
      PROVE  Cardinality(Among(P)') = Cardinality(Among(P)) + 1
  <2>1. Among(P)' = Among(P) \cup {t} /\ t \notin Among(P)
    BY <1>5 DEF Among
  <2> QED  BY <2>1, <1>3, FS_AddElement
<1>6. ASSUME p \notin P, at[t] \in P
      PROVE  Cardinality(Among(P)') = Cardinality(Among(P)) - 1
  <2>1. Among(P)' = Among(P) \ {t} /\ t \in Among(P)
    BY <1>6 DEF Among
  <2> QED  BY <2>1, <1>3, FS_RemoveElement
<1>7. ASSUME p \notin P
      PROVE  Cardinality(Among(P)') <= Cardinality(Tasks) - 1
  <2>1. Among(P)' \in SUBSET (Tasks \ {t})
    BY <1>7 DEF Among
  <2>2. IsFiniteSet(Tasks \ {t}) /\ Cardinality(Tasks \ {t}) = Cardinality(Tasks) - 1
    BY <1>1, FS_RemoveElement
  <2>3. Cardinality(Among(P)') <= Cardinality(Tasks \ {t})
    BY <2>1, <2>2, FS_Subset
  <2> QED  BY <2>2, <2>3
<1> QED  BY <1>1, <1>3, <1>4, <1>5, <1>6, <1>7

---------------------------------------------------------------------------
\* The two overshoot bounds need their inductive forms: while a gate is shut,
\* the requests sent since then and the calls still past it are together no
\* more than the tasks (one less for a back-off: the call it was answered to
\* is over); while it is open nothing counts as late.
BackOffInv ==
  /\ backOff > 0 => lateBackOff + Cardinality(Among(Busy)) <= Cardinality(Tasks) - 1
  /\ backOff = 0 => lateBackOff = 0

\* The same for the loss cap.
LossInv ==
  /\ BelowCap => lateLoss + Cardinality(Among(PastLossGate)) <= Cardinality(Tasks)
  /\ ~BelowCap => lateLoss = 0

\* The inductive invariant.
IInv == ExecTypeOK /\ SendersSerialised /\ BackOffInv /\ LossInv

USE DEF Goto, Skip, Consider, BackedOff, CapReached, LockFree, Cooled, counters, money, lates

\* Before the first call everybody is idle.
LEMMA NoneAmong ==
  ASSUME ExecInit, NEW P, "idle" \notin P
  PROVE  Cardinality(Among(P)) = 0
<1>1. Among(P) = {}
  BY DEF ExecInit, Among
<1> QED  BY <1>1, FS_EmptySet

\* It holds before the first call, and so does the ledger.
LEMMA ExecInitInv == ExecInit => IInv /\ CallLedger
<1> SUFFICES ASSUME ExecInit PROVE IInv /\ CallLedger
  OBVIOUS
<1>1. ExecTypeOK
  BY ExecutorAssumption DEF ExecInit, ExecTypeOK, Places
<1>2. SendersSerialised
  BY ExecutorAssumption DEF ExecInit, SendersSerialised
<1>3. Cardinality(Among(Busy)) = 0 /\ Cardinality(Among(PastLossGate)) = 0
  BY NoneAmong DEF Busy, PastLossGate
<1>4. BackOffInv /\ LossInv
  BY <1>3, FS_CardinalityType, ExecutorAssumption
     DEF ExecInit, BackOffInv, LossInv, BelowCap
<1>5. Active = Among(Busy)
  BY <1>1 DEF Active, Among, Busy, ExecTypeOK
<1>6. CallLedger
  BY <1>3, <1>5 DEF ExecInit, CallLedger, Skips, Reasons
<1> QED  BY <1>1, <1>2, <1>4, <1>6 DEF IInv

\* What a pending bundle promises is a number.
LEMMA PendingNets == ExecTypeOK => \A b \in pending : b.net \in Int
<1> SUFFICES ASSUME ExecTypeOK, NEW b \in pending PROVE b.net \in Int
  OBVIOUS
<1>1. b \in [id : Nat, net : Nets \cup {0}]
  BY DEF ExecTypeOK
<1>2. b.net \in Nets \cup {0}
  BY <1>1
<1>3. \A n \in Nets : n \in Int
  BY ExecutorAssumption
<1>4. CASE b.net = 0
  BY <1>4
<1>5. CASE b.net \in Nets
  BY <1>3, <1>5
<1> QED  BY <1>2, <1>4, <1>5

\* Every step keeps the types.
LEMMA TypeStep == ExecTypeOK /\ [ExecNext]_execVars => ExecTypeOK'
<1> SUFFICES ASSUME ExecTypeOK, [ExecNext]_execVars PROVE ExecTypeOK'
  OBVIOUS
<1> USE ExecutorAssumption DEF ExecTypeOK, Places, Reasons
<1>1. ASSUME NEW t \in Tasks, UNCHANGED config, EnterRoundTrip(t) \/ EnterOneWay(t)
      PROVE  ExecTypeOK'
  BY <1>1 DEF EnterRoundTrip, EnterOneWay
<1>2. ASSUME NEW t \in Tasks, UNCHANGED config, Throttle(t) \/ LossGate(t) \/ QuoteError(t)
      PROVE  ExecTypeOK'
  BY <1>2 DEF Throttle, LossGate, QuoteError
<1>3. ASSUME NEW t \in Tasks, UNCHANGED config, NEW q \in Nets, Quoted(t, q)
      PROVE  ExecTypeOK'
  BY <1>3 DEF Quoted
<1>4. ASSUME NEW t \in Tasks, UNCHANGED config, TakeLock(t) \/ Built(t) \/ BuildError(t)
      PROVE  ExecTypeOK'
  BY <1>4 DEF TakeLock, Built, BuildError
<1>5. ASSUME NEW t \in Tasks, UNCHANGED config, SendOk(t) \/ SendError(t)
      PROVE  ExecTypeOK'
  <2>1. {considered, sent, early, failed, lateBackOff', lateLoss'} \subseteq Nat
    BY <1>5 DEF SendOk, SendError, CountLate
  <2>2. {considered, sent, early, failed, lateBackOff, lateLoss}' \subseteq Nat
    BY <1>5, <2>1 DEF SendOk, SendError
  <2>3. pending' \subseteq [id : Nat, net : Nets \cup {0}]
    BY <1>5 DEF SendOk, SendError
  <2>4. runningNet' \in Int
    BY <1>5 DEF SendOk, SendError
  <2> QED  BY <1>5, <2>2, <2>3, <2>4 DEF SendOk, SendError
<1>6. ASSUME NEW t \in Tasks, UNCHANGED config, NEW r \in Retries, RateLimited(t, r)
      PROVE  ExecTypeOK'
  <2>1. {considered, sent, early, failed, lateBackOff', lateLoss} \subseteq Nat
    BY <1>6 DEF RateLimited, CountLate
  <2>2. {considered, sent, early, failed, lateBackOff, lateLoss}' \subseteq Nat
    BY <1>6, <2>1 DEF RateLimited
  <2> QED  BY <1>6, <2>2 DEF RateLimited
<1>7. ASSUME NEW b \in pending, UNCHANGED config, Land(b) \/ Drop(b)
      PROVE  ExecTypeOK'
  <2>1. b.net \in Int
    BY PendingNets
  <2>2. pending' \subseteq pending /\ runningNet' \in Int
    BY <1>7, <2>1 DEF Land, Drop
  <2>3. {considered, sent, early, failed, lateBackOff, lateLoss}' \subseteq Nat
    BY <1>7 DEF Land, Drop
  <2> QED  BY <1>7, <2>2, <2>3 DEF Land, Drop
<1>8. ASSUME UNCHANGED config, Tick
      PROVE  ExecTypeOK'
  BY <1>8 DEF Tick
<1>9. CASE UNCHANGED execVars
  BY <1>9 DEF execVars
<1> QED  BY <1>1, <1>2, <1>3, <1>4, <1>5, <1>6, <1>7, <1>8, <1>9 DEF ExecNext, TaskStep

\* Building and sending come with the mutex: each step that enters or leaves
\* them takes it or gives it back.
LEMMA LockStep ==
  ExecTypeOK /\ SendersSerialised /\ [ExecNext]_execVars => SendersSerialised'
<1> SUFFICES ASSUME ExecTypeOK, SendersSerialised, [ExecNext]_execVars
             PROVE  SendersSerialised'
  OBVIOUS
<1> USE ExecutorAssumption DEF ExecTypeOK, SendersSerialised
<1>1. ASSUME NEW t \in Tasks, EnterRoundTrip(t) \/ EnterOneWay(t)
      PROVE  SendersSerialised'
  BY <1>1 DEF EnterRoundTrip, EnterOneWay
<1>2. ASSUME NEW t \in Tasks, Throttle(t) \/ LossGate(t) \/ QuoteError(t)
      PROVE  SendersSerialised'
  BY <1>2 DEF Throttle, LossGate, QuoteError
<1>3. ASSUME NEW t \in Tasks, NEW q \in Nets, Quoted(t, q)
      PROVE  SendersSerialised'
  BY <1>3 DEF Quoted
<1>4. ASSUME NEW t \in Tasks, TakeLock(t) \/ Built(t) \/ BuildError(t)
      PROVE  SendersSerialised'
  BY <1>4 DEF TakeLock, Built, BuildError
<1>5. ASSUME NEW t \in Tasks, SendOk(t) \/ SendError(t)
      PROVE  SendersSerialised'
  BY <1>5 DEF SendOk, SendError
<1>6. ASSUME NEW t \in Tasks, NEW r \in Retries, RateLimited(t, r)
      PROVE  SendersSerialised'
  BY <1>6 DEF RateLimited
<1>7. ASSUME NEW b \in pending, Land(b) \/ Drop(b)
      PROVE  SendersSerialised'
  BY <1>7 DEF Land, Drop
<1>8. CASE Tick
  BY <1>8 DEF Tick
<1>9. CASE UNCHANGED execVars
  BY <1>9 DEF execVars
<1> QED  BY <1>1, <1>2, <1>3, <1>4, <1>5, <1>6, <1>7, <1>8, <1>9 DEF ExecNext, TaskStep

\* What a step does to the calls past the loss gate.
LEMMA LossStep ==
  ExecTypeOK /\ LossInv /\ [ExecNext]_execVars => LossInv'
<1> SUFFICES ASSUME ExecTypeOK, LossInv, [ExecNext]_execVars
             PROVE  LossInv'
  OBVIOUS
<1> DEFINE P == PastLossGate
           N == Cardinality(Among(P))
<1>1. /\ at \in [Tasks -> Places] /\ runningNet \in Int
      /\ lateLoss \in Nat /\ LossCap \in Nat
      /\ \A b \in pending : b.net \in Int
  BY ExecutorAssumption, PendingNets DEF ExecTypeOK
<1>2. Cardinality(Tasks) \in Nat /\ N \in Nat /\ N <= Cardinality(Tasks)
  <2>1. Among(P) \in SUBSET Tasks
    BY DEF Among
  <2> QED  BY <2>1, FS_Subset, FS_CardinalityType, ExecutorAssumption
\* The money stays as it is.
<1>3. ASSUME UNCHANGED <<at, runningNet, lateLoss>>
      PROVE  LossInv'
  BY <1>3 DEF LossInv, BelowCap, Among
<1>4. ASSUME NEW t \in Tasks, NEW p, at' = [at EXCEPT ![t] = p],
             p \notin P \/ at[t] \in P \/ ~BelowCap,
             UNCHANGED <<runningNet, lateLoss>>
      PROVE  LossInv'
  <2>1. CASE ~BelowCap
    BY <1>4, <2>1 DEF LossInv, BelowCap
  <2>2. CASE p \notin P \/ at[t] \in P
    <3>1. CASE p \notin P /\ at[t] \in P
      <4>1. N' = N - 1
        BY <1>1, <1>4, <3>1, Moves
      <4> QED  BY <1>1, <1>2, <1>4, <4>1 DEF LossInv, BelowCap
    <3>2. CASE (p \in P) = (at[t] \in P)
      <4>1. N' = N
        BY <1>1, <1>4, <3>2, Moves
      <4> QED  BY <1>1, <1>2, <1>4, <4>1 DEF LossInv, BelowCap
    <3> QED  BY <2>2, <3>1, <3>2
  <2> QED  BY <1>4, <2>1, <2>2
\* A bundle is sent: one call fewer past the gate.
<1>5. ASSUME NEW t \in Tasks, SendOk(t)
      PROVE  LossInv'
  <2>1. at' = [at EXCEPT ![t] = "idle"] /\ at[t] \in P /\ "idle" \notin P
    BY <1>5 DEF SendOk, PastLossGate
  <2>2. N' = N - 1
    BY <1>1, <2>1, Moves
  <2> QED  BY <1>1, <1>2, <1>5, <2>2 DEF SendOk, CountLate, LossInv, BelowCap
\* A result is booked: the gate may shut, with nothing sent since.
<1>6. ASSUME NEW b \in pending, Land(b)
      PROVE  LossInv'
  <2>1. N' = N
    BY <1>6 DEF Land, Among
  <2> QED  BY <1>1, <1>2, <1>6, <2>1 DEF Land, LossInv, BelowCap
<1> USE DEF PastLossGate
<1>7. ASSUME NEW t \in Tasks, EnterRoundTrip(t) \/ EnterOneWay(t)
      PROVE  LossInv'
  BY <1>4, <1>7 DEF EnterRoundTrip, EnterOneWay
<1>8. ASSUME NEW t \in Tasks, Throttle(t) \/ LossGate(t) \/ QuoteError(t)
      PROVE  LossInv'
  BY <1>4, <1>8 DEF Throttle, LossGate, QuoteError
<1>9. ASSUME NEW t \in Tasks, NEW q \in Nets, Quoted(t, q)
      PROVE  LossInv'
  BY <1>4, <1>9 DEF Quoted
<1>10. ASSUME NEW t \in Tasks, TakeLock(t) \/ Built(t) \/ BuildError(t)
       PROVE  LossInv'
  BY <1>4, <1>10 DEF TakeLock, Built, BuildError
<1>11. ASSUME NEW t \in Tasks, SendError(t) \/ \E r \in Retries : RateLimited(t, r)
       PROVE  LossInv'
  BY <1>4, <1>11 DEF SendError, RateLimited
<1>12. ASSUME (\E b \in pending : Drop(b)) \/ Tick \/ UNCHANGED execVars
       PROVE  LossInv'
  BY <1>3, <1>12 DEF Drop, Tick, execVars
<1> QED  BY <1>5, <1>6, <1>7, <1>8, <1>9, <1>10, <1>11, <1>12 DEF ExecNext, TaskStep

\* What a step does to the calls past the back-off gate.
LEMMA BackOffStep ==
  ExecTypeOK /\ BackOffInv /\ [ExecNext]_execVars => BackOffInv'
<1> SUFFICES ASSUME ExecTypeOK, BackOffInv, [ExecNext]_execVars
             PROVE  BackOffInv'
  OBVIOUS
<1> DEFINE N == Cardinality(Among(Busy))
<1>1. /\ at \in [Tasks -> Places] /\ backOff \in Nat /\ lateBackOff \in Nat
      /\ \A r \in Retries : r \in Nat /\ r > 0
  <2>1. \A r \in Retries : r \in Nat /\ r > 0
    BY ExecutorAssumption
  <2> QED  BY <2>1 DEF ExecTypeOK
<1>2. Cardinality(Tasks) \in Nat /\ N \in Nat /\ N <= Cardinality(Tasks)
  <2>1. Among(Busy) \in SUBSET Tasks
    BY DEF Among
  <2> QED  BY <2>1, FS_Subset, FS_CardinalityType, ExecutorAssumption
<1>3. ASSUME UNCHANGED <<at, backOff, lateBackOff>>
      PROVE  BackOffInv'
  BY <1>3 DEF BackOffInv, Among
\* A call that is skipped or fails, goes on, or enters with the gate open.
<1>4. ASSUME NEW t \in Tasks, NEW p \in Places, at' = [at EXCEPT ![t] = p],
             p = "idle" \/ at[t] # "idle" \/ backOff = 0,
             UNCHANGED <<backOff, lateBackOff>>
      PROVE  BackOffInv'
  <2>1. CASE backOff = 0
    BY <1>1, <1>4, <2>1 DEF BackOffInv
  <2>2. CASE p = "idle" /\ at[t] # "idle"
    <3>1. N' = N - 1
      BY <1>1, <2>2, <1>4, Moves DEF Busy
    <3> QED  BY <1>1, <1>2, <1>4, <3>1 DEF BackOffInv
  <2>3. CASE (p = "idle") = (at[t] = "idle")
    <3>1. (p \in Busy) = (at[t] \in Busy)
      BY <1>1, <1>4, <2>3 DEF Busy
    <3>2. N' = N
      BY <1>1, <3>1, <1>4, Moves
    <3> QED  BY <1>1, <1>2, <1>4, <3>2 DEF BackOffInv
  <2> QED  BY <1>4, <2>1, <2>2, <2>3
\* A request went out, late or not.
<1>5. ASSUME NEW t \in Tasks, at[t] = "send", at' = [at EXCEPT ![t] = "idle"],
             lateBackOff' = CountLate(lateBackOff, backOff > 0)
      PROVE  /\ N' = N - 1 /\ N' \in Nat /\ N' <= Cardinality(Tasks) - 1
             /\ backOff > 0 => lateBackOff' + N' <= Cardinality(Tasks) - 1
             /\ backOff = 0 => lateBackOff' = 0
  <2>1. N' = N - 1 /\ N' <= Cardinality(Tasks) - 1
    BY <1>1, <1>5, Moves DEF Busy, Places
  <2>2. N' \in Nat
    <3>1. IsFiniteSet(Among(Busy)')
      BY FS_Subset, ExecutorAssumption DEF Among
    <3> QED  BY <3>1, FS_CardinalityType
  <2> QED  BY <1>1, <1>2, <1>5, <2>1, <2>2 DEF CountLate, BackOffInv
<1>6. ASSUME NEW t \in Tasks, SendOk(t) \/ SendError(t)
      PROVE  BackOffInv'
  <2>1. /\ at[t] = "send" /\ at' = [at EXCEPT ![t] = "idle"] /\ backOff' = backOff
        /\ lateBackOff' = CountLate(lateBackOff, backOff > 0)
    BY <1>6 DEF SendOk, SendError
  <2> QED  BY <1>5, <2>1 DEF BackOffInv
<1>7. ASSUME NEW t \in Tasks, NEW r \in Retries, RateLimited(t, r)
      PROVE  BackOffInv'
  <2>1. /\ at[t] = "send" /\ at' = [at EXCEPT ![t] = "idle"] /\ backOff' = r
        /\ lateBackOff' = CountLate(lateBackOff, backOff > 0)
    BY <1>7 DEF RateLimited
  <2>2. /\ N' \in Nat /\ N' <= Cardinality(Tasks) - 1
        /\ backOff > 0 => lateBackOff' + N' <= Cardinality(Tasks) - 1
        /\ backOff = 0 => lateBackOff' = 0
    BY <1>5, <2>1
  <2> QED  BY <1>1, <1>2, <2>1, <2>2 DEF BackOffInv
\* The back-off runs out: nothing is late any more.
<1>8. CASE Tick
  <2>1. N' = N
    BY <1>8 DEF Tick, Among
  <2> QED  BY <1>1, <1>2, <1>8, <2>1 DEF Tick, BackOffInv
<1>9. ASSUME NEW t \in Tasks, EnterRoundTrip(t) \/ EnterOneWay(t)
      PROVE  BackOffInv'
  BY <1>1, <1>4, <1>9 DEF EnterRoundTrip, EnterOneWay, Places
<1>10. ASSUME NEW t \in Tasks, Throttle(t) \/ LossGate(t) \/ QuoteError(t)
       PROVE  BackOffInv'
  BY <1>4, <1>10 DEF Throttle, LossGate, QuoteError, Places
<1>11. ASSUME NEW t \in Tasks, NEW q \in Nets, Quoted(t, q)
       PROVE  BackOffInv'
  BY <1>4, <1>11 DEF Quoted, Places
<1>12. ASSUME NEW t \in Tasks, TakeLock(t) \/ Built(t) \/ BuildError(t)
       PROVE  BackOffInv'
  BY <1>4, <1>12 DEF TakeLock, Built, BuildError, Places
<1>13. ASSUME (\E b \in pending : Land(b) \/ Drop(b)) \/ UNCHANGED execVars
       PROVE  BackOffInv'
  BY <1>3, <1>13 DEF Land, Drop, execVars
<1> QED  BY <1>6, <1>7, <1>8, <1>9, <1>10, <1>11, <1>12, <1>13 DEF ExecNext, TaskStep

---------------------------------------------------------------------------
\* One more skipped call, whatever the reason.
LEMMA SkipCounts ==
  ASSUME skipped \in [Reasons -> Nat], NEW r \in Reasons,
         skipped' = [skipped EXCEPT ![r] = @ + 1]
  PROVE  Skips \in Nat /\ Skips' = Skips + 1
  BY DEF Skips, Reasons

\* Every step counts what it ends, once.
LEMMA LedgerStep ==
  ExecTypeOK /\ CallLedger /\ [ExecNext]_execVars => CallLedger'
<1> SUFFICES ASSUME ExecTypeOK, CallLedger, [ExecNext]_execVars
             PROVE  CallLedger'
  OBVIOUS
<1> DEFINE N == Cardinality(Active)
<1>1. /\ at \in [Tasks -> Places] /\ skipped \in [Reasons -> Nat]
      /\ considered \in Nat /\ early \in Nat /\ sent \in Nat /\ failed \in Nat
  BY DEF ExecTypeOK
<1>2. N \in Nat /\ Skips \in Nat
  <2>1. Active \in SUBSET Tasks
    BY DEF Active
  <2>2. Skips \in Nat
    BY <1>1 DEF Skips, Reasons
  <2> QED  BY <2>1, <2>2, FS_Subset, FS_CardinalityType, ExecutorAssumption
\* How many calls run, as one task moves.
<1>3. ASSUME NEW t \in Tasks, NEW p \in Places, at' = [at EXCEPT ![t] = p]
      PROVE  /\ at[t] # "idle" /\ p = "idle" => N' = N - 1
             /\ at[t] = "idle" /\ p # "idle" => N' = N + 1
             /\ (at[t] = "idle") = (p = "idle") => N' = N
  <2>1. /\ Active = Among(Busy) /\ Active' = Among(Busy)'
        /\ (p \in Busy) = (p # "idle") /\ (at[t] \in Busy) = (at[t] # "idle")
    BY <1>1, <1>3 DEF Active, Among, Busy
  <2> QED  BY <1>1, <1>3, <2>1, Moves
<1>4. ASSUME UNCHANGED <<at, considered, early, skipped, sent, failed>>
      PROVE  CallLedger'
  BY <1>4 DEF CallLedger, Skips, Active
\* A call enters, or is dropped at the door.
<1>5. ASSUME NEW t \in Tasks, EnterRoundTrip(t) \/ EnterOneWay(t)
      PROVE  CallLedger'
  <2>1. /\ at[t] = "idle" /\ UNCHANGED <<sent, failed>>
        /\ considered' + early' = considered + early + 1
        /\ \/ at' = [at EXCEPT ![t] = "throttle"] /\ UNCHANGED skipped
           \/ /\ at' = [at EXCEPT ![t] = "idle"]
              /\ \E r \in Reasons : skipped' = [skipped EXCEPT ![r] = @ + 1]
    BY <1>1, <1>5 DEF EnterRoundTrip, EnterOneWay, Reasons
  <2>2. CASE at' = [at EXCEPT ![t] = "throttle"] /\ UNCHANGED skipped
    <3>1. N' = N + 1 /\ Skips' = Skips
      BY <1>3, <2>1, <2>2 DEF Places, Skips
    <3> QED  BY <1>1, <1>2, <2>1, <3>1 DEF CallLedger
  <2>3. CASE /\ at' = [at EXCEPT ![t] = "idle"]
             /\ \E r \in Reasons : skipped' = [skipped EXCEPT ![r] = @ + 1]
    <3>1. N' = N /\ Skips' = Skips + 1
      BY <1>1, <1>3, <2>1, <2>3, SkipCounts DEF Places
    <3> QED  BY <1>1, <1>2, <2>1, <3>1 DEF CallLedger
  <2> QED  BY <2>1, <2>2, <2>3
\* A running call goes on, or is skipped at a gate.
<1>6. ASSUME NEW t \in Tasks, at[t] # "idle", UNCHANGED <<considered, early, sent, failed>>,
             \/ \E p \in Busy : at' = [at EXCEPT ![t] = p] /\ UNCHANGED skipped
             \/ /\ at' = [at EXCEPT ![t] = "idle"]
                /\ \E r \in Reasons : skipped' = [skipped EXCEPT ![r] = @ + 1]
      PROVE  CallLedger'
  <2>1. CASE \E p \in Busy : at' = [at EXCEPT ![t] = p] /\ UNCHANGED skipped
    <3>1. N' = N /\ Skips' = Skips
      BY <1>3, <1>6, <2>1 DEF Busy, Skips
    <3> QED  BY <1>1, <1>2, <1>6, <3>1 DEF CallLedger
  <2>2. CASE /\ at' = [at EXCEPT ![t] = "idle"]
             /\ \E r \in Reasons : skipped' = [skipped EXCEPT ![r] = @ + 1]
    <3>1. N' = N - 1 /\ Skips' = Skips + 1
      BY <1>1, <1>3, <1>6, <2>2, SkipCounts DEF Places
    <3> QED  BY <1>1, <1>2, <1>6, <3>1 DEF CallLedger
  <2> QED  BY <1>6, <2>1, <2>2
\* A running call ends as sent, or as failed.
<1>7. ASSUME NEW t \in Tasks, at[t] # "idle", at' = [at EXCEPT ![t] = "idle"],
             UNCHANGED <<considered, early, skipped>>,
             \/ sent' = sent + 1 /\ UNCHANGED failed
             \/ failed' = failed + 1 /\ UNCHANGED sent
      PROVE  CallLedger'
  <2>1. N' = N - 1 /\ Skips' = Skips
    BY <1>3, <1>7 DEF Places, Skips
  <2> QED  BY <1>1, <1>2, <1>7, <2>1 DEF CallLedger
<1> USE DEF Busy, Places, Reasons
<1>8. ASSUME NEW t \in Tasks, Throttle(t) \/ LossGate(t) \/ QuoteError(t)
      PROVE  CallLedger'
  BY <1>6, <1>8 DEF Throttle, LossGate, QuoteError
<1>9. ASSUME NEW t \in Tasks, NEW q \in Nets, Quoted(t, q)
      PROVE  CallLedger'
  BY <1>6, <1>9 DEF Quoted
<1>10. ASSUME NEW t \in Tasks, TakeLock(t) \/ Built(t)
       PROVE  CallLedger'
  BY <1>6, <1>10 DEF TakeLock, Built
<1>11. ASSUME NEW t \in Tasks,
              BuildError(t) \/ SendOk(t) \/ SendError(t)
                \/ \E r \in Retries : RateLimited(t, r)
       PROVE  CallLedger'
  BY <1>1, <1>7, <1>11 DEF BuildError, SendOk, SendError, RateLimited
<1>12. ASSUME (\E b \in pending : Land(b) \/ Drop(b)) \/ Tick
                \/ UNCHANGED execVars
       PROVE  CallLedger'
  BY <1>4, <1>12 DEF Land, Drop, Tick, execVars
<1> QED  BY <1>5, <1>8, <1>9, <1>10, <1>11, <1>12 DEF ExecNext, TaskStep

\* The gates of maybe_execute_inner, for any number of tasks: types, one sender at a
\* time, and what may pass a gate that has shut.
THEOREM InductiveInvariant == ExecSpec => []IInv
<1>1. ExecInit => IInv
  BY ExecInitInv
<1>2. IInv /\ [ExecNext]_execVars => IInv'
  BY TypeStep, LockStep, BackOffStep, LossStep DEF IInv
<1> QED  BY <1>1, <1>2, PTL DEF ExecSpec

---------------------------------------------------------------------------
\* ExecTypeOK is an invariant of the executor.
THEOREM ExecTypeCorrect == ExecSpec => []ExecTypeOK
<1>1. IInv => ExecTypeOK
  BY DEF IInv
<1> QED  BY <1>1, InductiveInvariant, PTL

\* Building and sending are serialised, and the mutex is always given back.
THEOREM SendersAreSerialised == ExecSpec => []SendersSerialised
<1>1. IInv => SendersSerialised
  BY DEF IInv
<1> QED  BY <1>1, InductiveInvariant, PTL

\* A back-off is overshot by fewer requests than there are tasks.
THEOREM BackOffOvershootBound == ExecSpec => []BackOffOvershoot
<1>1. IInv => BackOffOvershoot
  <2> SUFFICES ASSUME IInv PROVE BackOffOvershoot
    OBVIOUS
  <2>1. /\ Cardinality(Tasks) \in Nat /\ Cardinality(Tasks) > 0
        /\ Cardinality(Among(Busy)) \in Nat
    <3>1. Among(Busy) \in SUBSET Tasks
      BY DEF Among
    <3> QED  BY <3>1, FS_Subset, FS_CardinalityType, FS_EmptySet, ExecutorAssumption
  <2> QED  BY <2>1 DEF IInv, BackOffInv, BackOffOvershoot, ExecTypeOK
<1> QED  BY <1>1, InductiveInvariant, PTL

\* The loss cap is overshot by one bundle for each task at most.
THEOREM LossOvershootBound == ExecSpec => []LossOvershoot
<1>1. IInv => LossOvershoot
  <2> SUFFICES ASSUME IInv PROVE LossOvershoot
    OBVIOUS
  <2>1. Cardinality(Tasks) \in Nat /\ Cardinality(Among(PastLossGate)) \in Nat
    <3>1. Among(PastLossGate) \in SUBSET Tasks
      BY DEF Among
    <3> QED  BY <3>1, FS_Subset, FS_CardinalityType, ExecutorAssumption
  <2> QED  BY <2>1 DEF IInv, LossInv, LossOvershoot, ExecTypeOK
<1> QED  BY <1>1, InductiveInvariant, PTL

\* The metrics account for every call.
THEOREM LedgerHolds == ExecSpec => []CallLedger
<1>1. ExecInit => ExecTypeOK /\ CallLedger
  BY ExecInitInv DEF IInv
<1>2. ExecTypeOK /\ CallLedger /\ [ExecNext]_execVars => (ExecTypeOK /\ CallLedger)'
  BY TypeStep, LedgerStep
<1> QED  BY <1>1, <1>2, PTL DEF ExecSpec

---------------------------------------------------------------------------
\* The attempts that were accepted and are booked if they land.
Accounted == {s \in Sends : step[s] = "done" /\ IsBooked(mode[s])}

\* Where a call may be.
Steps == {"ready", "bundle", "sender", "rpc", "join", "done", "error"}

\* Types of the attempts and the counters.
DelTypes ==
  /\ mode \in [Sends -> Modes] /\ step \in [Sends -> Steps] /\ copy = [s \in Sends |-> 1]
  /\ poller \in [Sends -> Nat] /\ sentCount \in Int /\ landedCount \in Int
  /\ books \subseteq Sends

\* The chain runs an attempt once, whatever the lanes carry: all signatures are alike.
RunOnce ==
  /\ \A d \in delivered : d.copy = 1
  /\ \A r \in ran : r.copy = 1
  /\ \A q, r \in ran : q.send = r.send => q = r

\* Where an attempt stands, by the step of its call.
DelStage ==
  /\ \A s \in Sends : step[s] = "join" => mode[s] = "liquidation_bundle"
  /\ \A s \in Sends : poller[s] > 0 => step[s] = "done" /\ s \notin books
  /\ \A s \in books : s \in Accounted /\ \E r \in ran : r.send = s /\ r.ok
  /\ \A s \in Accounted : s \in books \/ poller[s] > 0 \/ s \in gaveUp
                          \/ \E r \in ran : r.send = s /\ ~r.ok

\* The inductive invariant.
DelInv ==
  /\ DelTypes /\ RunOnce /\ DelStage
  /\ landedCount = Cardinality(books) /\ Cardinality(Accounted) <= sentCount

\* Attempts can be counted.
LEMMA DelFinite ==
  ASSUME NEW S \in SUBSET Sends
  PROVE  IsFiniteSet(S) /\ Cardinality(S) \in Nat
  BY DelAssumption, FS_Subset, FS_CardinalityType

\* It holds before anything is sent.
LEMMA DelInitInv == DelInit => DelInv
<1> SUFFICES ASSUME DelInit PROVE DelInv
  OBVIOUS
<1>1. Accounted = {} /\ books = {}
  BY DEF DelInit, Accounted
<1>2. DelTypes /\ RunOnce
  BY DEF DelInit, DelTypes, RunOnce, Steps
<1>3. DelStage
  BY <1>1 DEF DelInit, DelStage
<1> QED  BY <1>1, <1>2, <1>3, FS_EmptySet DEF DelInv, DelInit

\* The chain tells attempts apart by their signature, of which each has one.
LEMMA RunOnceStep == DelInv /\ DelNext => RunOnce'
<1> SUFFICES ASSUME DelInv, DelNext PROVE RunOnce'
  OBVIOUS
<1>1. copy = [s \in Sends |-> 1] /\ RunOnce
  BY DEF DelInv, DelTypes
<1>2. ASSUME NEW s \in Sends, NEW lane, NEW ok \in BOOLEAN, Passed(s, lane, ok), UNCHANGED ran
      PROVE  RunOnce'
  BY <1>1, <1>2 DEF Passed, RunOnce
<1>3. ASSUME NEW d \in delivered, NEW ok \in BOOLEAN, Executes(d, ok) PROVE RunOnce'
  <2>1. /\ d.copy = 1 /\ delivered' = delivered /\ \A r \in ran : r.send # d.send
        /\ ran' = ran \cup {[send |-> d.send, copy |-> d.copy, lane |-> d.lane, ok |-> ok]}
    BY <1>1, <1>3 DEF Executes, RunOnce
  <2> QED  BY <1>1, <2>1 DEF RunOnce
<1>4. CASE UNCHANGED <<delivered, ran>>
  BY <1>1, <1>4 DEF RunOnce
<1> QED
  <2>1. ASSUME NEW s \in Sends, SimulationFails(s) \/ SendStarts(s) \/ Accepted(s) \/ Refused(s)
                                \/ Joins(s) \/ PollSees(s) \/ PollBlank(s)
        PROVE  RunOnce'
    BY <1>2, <1>4, <2>1 DEF SimulationFails, SendStarts, Accepted, Refused, Joins, PollSees, PollBlank
  <2>2. ASSUME NEW s \in Sends, NEW ok \in BOOLEAN, SideEnds(s, ok) PROVE RunOnce'
    BY <1>2, <2>2 DEF SideEnds
  <2> QED  BY <1>3, <2>1, <2>2 DEF DelNext

\* What one step of the call of attempt s does to the rest of the books: it takes
\* s to a step, counts what it sent, and may start the poller.
CallMoves(s, how, n, q) ==
  /\ step[s] # "done"
  /\ step' = [step EXCEPT ![s] = how] /\ sentCount' = sentCount + n
  /\ poller' = [poller EXCEPT ![s] = q]
  /\ UNCHANGED <<copy, mode, ran, landedCount, books, gaveUp>>
  /\ how = "join" => mode[s] = "liquidation_bundle"
  /\ q > 0 => how = "done"
  /\ how = "done" /\ IsBooked(mode[s]) => q > 0 /\ n >= 1

\* Such a step keeps the invariant.
LEMMA CallStep ==
  ASSUME DelInv, RunOnce', NEW s \in Sends, NEW how \in Steps, NEW n \in Nat, NEW q \in Nat,
         CallMoves(s, how, n, q)
  PROVE  DelInv'
<1>1. DelTypes'
  BY DEF DelInv, DelTypes, CallMoves
<1>2. /\ \A r \in Sends \ {s} : step'[r] = step[r] /\ poller'[r] = poller[r]
      /\ step'[s] = how /\ poller'[s] = q /\ s \notin books
  BY DEF DelInv, DelTypes, DelStage, Accounted, CallMoves
<1>3. Accounted' = IF how = "done" /\ IsBooked(mode[s]) THEN Accounted \cup {s} ELSE Accounted
  BY <1>2 DEF Accounted, IsBooked, CallMoves
<1>4. DelStage'
  BY <1>2, <1>3 DEF DelInv, DelStage, Accounted, CallMoves
<1>5. Cardinality(Accounted') <= sentCount'
  <2>1. Accounted \in SUBSET Sends /\ Cardinality(Accounted) <= sentCount /\ sentCount \in Int
    BY DEF Accounted, DelInv, DelTypes
  <2>2. IsFiniteSet(Accounted) /\ Cardinality(Accounted) \in Nat
    BY <2>1, DelFinite
  <2>3. Cardinality(Accounted \cup {s}) <= Cardinality(Accounted) + 1
    <3>1. Cardinality(Accounted \cup {s})
            = IF s \in Accounted THEN Cardinality(Accounted) ELSE Cardinality(Accounted) + 1
      BY <2>2, FS_AddElement
    <3> QED  BY <2>2, <3>1
  <2>4. Cardinality(Accounted \cup {s}) \in Nat
    BY <2>1, DelFinite
  <2>5. CASE how = "done" /\ IsBooked(mode[s])
    BY <1>3, <2>1, <2>2, <2>3, <2>4, <2>5 DEF CallMoves
  <2>6. CASE ~(how = "done" /\ IsBooked(mode[s]))
    BY <1>3, <2>1, <2>2, <2>6 DEF CallMoves
  <2> QED  BY <2>5, <2>6
<1> QED  BY <1>1, <1>4, <1>5 DEF DelInv, CallMoves

\* Every action of the call is such a step.
LEMMA CallActions ==
  ASSUME DelInv, RunOnce', NEW s \in Sends,
         SimulationFails(s) \/ SendStarts(s) \/ Accepted(s) \/ Refused(s) \/ Joins(s)
  PROVE  DelInv'
<1>1. /\ mode \in [Sends -> Modes] /\ step \in [Sends -> Steps] /\ poller \in [Sends -> Nat]
      /\ copy = [r \in Sends |-> 1] /\ sentCount \in Int /\ PollTries \in Nat /\ PollTries > 0
      /\ poller[s] \in Nat
      /\ mode[s] \in {"pair", "atomic", "atomic_rpc", "flash_sender", "flash_bundle",
                      "liquidation", "liquidation_bundle", "swap"}
  <2>1. mode[s] \in Modes
    BY DEF DelInv, DelTypes
  <2>2. mode[s] \in {"pair", "atomic", "atomic_rpc", "flash_sender", "flash_bundle",
                     "liquidation", "liquidation_bundle", "swap"}
    BY <2>1, DelAssumption
  <2>3. PollTries \in Nat /\ PollTries > 0
    BY DelAssumption
  <2> QED  BY <2>2, <2>3 DEF DelInv, DelTypes
<1>2. Awaited(mode[s]) \in {"bundle", "sender", "rpc"}
  BY <1>1 DEF Awaited
<1>3. step[s] # "done" => poller[s] = 0
  BY <1>1 DEF DelInv, DelStage
<1>4. poller' = poller => poller' = [poller EXCEPT ![s] = poller[s]]
  BY <1>1
<1>5. CASE SimulationFails(s)
  <2>1. /\ step[s] = "ready" /\ step' = [step EXCEPT ![s] = "done"] /\ ~IsBooked(mode[s])
        /\ poller' = [poller EXCEPT ![s] = 0] /\ sentCount' = sentCount + 0
        /\ UNCHANGED <<copy, mode, ran, landedCount, books, gaveUp>>
    BY <1>1, <1>3, <1>4, <1>5 DEF SimulationFails, IsBooked
  <2>2. CallMoves(s, "done", 0, 0)
    BY <2>1 DEF CallMoves
  <2> QED  BY <2>2, CallStep DEF Steps
<1>6. CASE SendStarts(s)
  <2>1. /\ step[s] = "ready" /\ step' = [step EXCEPT ![s] = Awaited(mode[s])]
        /\ poller' = [poller EXCEPT ![s] = 0] /\ sentCount' = sentCount + 0
        /\ UNCHANGED <<copy, mode, ran, landedCount, books, gaveUp>>
    BY <1>1, <1>3, <1>4, <1>6 DEF SendStarts
  <2>2. CallMoves(s, Awaited(mode[s]), 0, 0)
    BY <1>2, <2>1 DEF CallMoves
  <2> QED  BY <1>2, <2>2, CallStep DEF Steps
<1>7. CASE Accepted(s)
  <2> DEFINE n == IF Counts(mode[s], step[s]) THEN 1 ELSE 0
  <2>1. /\ step[s] \in {"bundle", "sender", "rpc"} /\ poller[s] = 0
        /\ sentCount' = sentCount + n /\ n \in Nat
        /\ UNCHANGED <<copy, mode, ran, landedCount, books, gaveUp>>
    BY <1>2, <1>3, <1>7 DEF Accepted
  <2>2. IsBooked(mode[s]) => n = 1
    BY <1>1 DEF IsBooked, Counts
  <2> HIDE DEF n
  <2>3. CASE mode[s] = "liquidation_bundle"
    <3>1. step' = [step EXCEPT ![s] = "join"] /\ poller' = [poller EXCEPT ![s] = 0]
      BY <1>4, <1>7, <2>1, <2>3 DEF Accepted, AwaitsTask
    <3>4. CallMoves(s, "join", n, 0)
      BY <2>1, <2>3, <3>1 DEF CallMoves
    <3>5. n \in Nat /\ "join" \in Steps
      BY <2>1 DEF Steps
    <3> QED  BY <3>4, <3>5, CallStep
  <2>4. CASE mode[s] # "liquidation_bundle"
    <3> DEFINE q == IF Polls(mode[s]) THEN PollTries ELSE 0
    <3>1. step' = [step EXCEPT ![s] = "done"] /\ poller' = [poller EXCEPT ![s] = q] /\ q \in Nat
      BY <1>1, <1>4, <1>7, <2>1, <2>4 DEF Accepted, Returns
    <3>2. IsBooked(mode[s]) => q > 0
      BY <1>1 DEF IsBooked, Polls
    <3> HIDE DEF q
    <3>3. IsBooked(mode[s]) => q > 0 /\ n >= 1
      BY <2>2, <3>2
    <3>4. CallMoves(s, "done", n, q)
      BY <2>1, <3>1, <3>3 DEF CallMoves
    <3> QED  BY <3>4, <2>1, <3>1, CallStep DEF Steps
  <2> QED  BY <2>3, <2>4
<1>8. CASE Refused(s)
  <2>1. /\ step[s] \in {"bundle", "sender", "rpc"} /\ poller[s] = 0
        /\ sentCount' = sentCount + 0 /\ UNCHANGED <<mode, ran, landedCount, books, gaveUp>>
    BY <1>1, <1>2, <1>3, <1>8 DEF Refused
  <2>2. CASE mode[s] = "atomic" /\ step[s] = "sender"
    <3>1. step' = [step EXCEPT ![s] = "rpc"] /\ poller' = [poller EXCEPT ![s] = 0] /\ copy' = copy
      BY <1>4, <1>8, <2>1, <2>2 DEF Refused, FallsBack
    <3>4. CallMoves(s, "rpc", 0, 0)
      BY <2>1, <3>1 DEF CallMoves
    <3> QED  BY <3>4,  CallStep DEF Steps
  <2>3. CASE mode[s] = "liquidation_bundle"
    <3>1. step' = [step EXCEPT ![s] = "join"] /\ poller' = [poller EXCEPT ![s] = 0] /\ copy' = copy
      BY <1>4, <1>8, <2>1, <2>3 DEF Refused, AwaitsTask
    <3>4. CallMoves(s, "join", 0, 0)
      BY <2>1, <2>3, <3>1 DEF CallMoves
    <3> QED  BY <3>4,  CallStep DEF Steps
  <2>4. CASE ~(mode[s] = "atomic" /\ step[s] = "sender") /\ mode[s] # "liquidation_bundle"
    <3>1. step' = [step EXCEPT ![s] = "error"] /\ poller' = [poller EXCEPT ![s] = 0] /\ copy' = copy
      BY <1>4, <1>8, <2>1, <2>4 DEF Refused, Returns
    <3>4. CallMoves(s, "error", 0, 0)
      BY <2>1, <3>1 DEF CallMoves
    <3> QED  BY <3>4,  CallStep DEF Steps
  <2> QED  BY <2>2, <2>3, <2>4
<1>9. CASE Joins(s)
  <2>1. /\ step[s] = "join" /\ mode[s] = "liquidation_bundle" /\ ~IsBooked(mode[s]) /\ poller[s] = 0
        /\ sentCount' = sentCount + 0 /\ UNCHANGED <<copy, mode, ran, landedCount, books, gaveUp>>
    BY <1>1, <1>3, <1>9 DEF Joins, DelInv, DelStage, IsBooked
  <2>2. PICK how \in {"done", "error"} : Returns(s, how)
    BY <1>9 DEF Joins
  <2>3. CASE how = "done"
    <3>1. step' = [step EXCEPT ![s] = "done"] /\ poller' = [poller EXCEPT ![s] = PollTries]
      BY <2>1, <2>2, <2>3 DEF Returns, Polls
    <3>4. CallMoves(s, "done", 0, PollTries)
      BY <1>1, <2>1, <3>1 DEF CallMoves
    <3> QED  BY <3>4, <1>1, CallStep DEF Steps
  <2>4. CASE how = "error"
    <3>1. step' = [step EXCEPT ![s] = "error"] /\ poller' = [poller EXCEPT ![s] = 0]
      BY <1>4, <2>1, <2>2, <2>4 DEF Returns
    <3>4. CallMoves(s, "error", 0, 0)
      BY <2>1, <3>1 DEF CallMoves
    <3> QED  BY <3>4,  CallStep DEF Steps
  <2> QED  BY <2>2, <2>3, <2>4
<1> QED  BY <1>5, <1>6, <1>7, <1>8, <1>9

\* The spawned task counts what it sent and touches nothing else.
LEMMA SideStep ==
  ASSUME DelInv, RunOnce', NEW s \in Sends, NEW ok \in BOOLEAN, SideEnds(s, ok)
  PROVE  DelInv'
<1>1. /\ UNCHANGED <<mode, step, copy, ran, poller, landedCount, books, gaveUp>>
      /\ sentCount' = sentCount + 1 \/ sentCount' = sentCount + 0
  BY DEF SideEnds
<1>2. DelTypes' /\ DelStage' /\ Accounted' = Accounted
  BY <1>1 DEF DelInv, DelTypes, DelStage, Accounted, IsBooked
<1>3. Cardinality(Accounted) \in Nat /\ Cardinality(Accounted) <= sentCount /\ sentCount \in Int
  BY DelFinite DEF Accounted, DelInv, DelTypes
<1> QED  BY <1>1, <1>2, <1>3 DEF DelInv

\* A block that includes a transaction takes nothing away from what was run.
LEMMA ExecutesStep ==
  ASSUME DelInv, RunOnce', NEW d \in delivered, NEW ok \in BOOLEAN, Executes(d, ok)
  PROVE  DelInv'
<1>1. /\ UNCHANGED <<mode, step, copy, poller, sentCount, landedCount, books, gaveUp>>
      /\ ran \subseteq ran'
  BY DEF Executes
<1>2. DelTypes' /\ DelStage' /\ Accounted' = Accounted
  BY <1>1 DEF DelInv, DelTypes, DelStage, Accounted, IsBooked
<1> QED  BY <1>1, <1>2 DEF DelInv

\* A poll ends the polling, books, or counts down to giving up.
LEMMA PollStep ==
  ASSUME DelInv, RunOnce', NEW s \in Sends, PollSees(s) \/ PollBlank(s)
  PROVE  DelInv'
<1>1. /\ poller \in [Sends -> Nat] /\ poller[s] > 0 /\ step[s] = "done" /\ s \notin books
      /\ UNCHANGED <<mode, step, copy, ran, sentCount>>
  BY DEF DelInv, DelTypes, DelStage, PollSees, PollBlank
<1>2. Accounted' = Accounted
  BY <1>1 DEF Accounted, IsBooked
<1>3. CASE PollBlank(s)
  <2>1. /\ poller' = [poller EXCEPT ![s] = @ - 1] /\ UNCHANGED <<landedCount, books>>
        /\ gaveUp' = IF poller[s] = 1 THEN gaveUp \cup {s} ELSE gaveUp
    BY <1>3 DEF PollBlank
  <2>2. /\ poller' \in [Sends -> Nat] /\ poller'[s] = poller[s] - 1
        /\ \A r \in Sends \ {s} : poller'[r] = poller[r]
    BY <1>1, <2>1
  <2>3. DelTypes'
    BY <1>1, <2>1, <2>2 DEF DelInv, DelTypes
  <2>4. poller'[s] > 0 \/ s \in gaveUp'
    BY <1>1, <2>1, <2>2
  <2>5. DelStage'
    BY <1>1, <1>2, <2>1, <2>2, <2>4 DEF DelInv, DelStage
  <2> QED  BY <1>1, <1>2, <2>1, <2>3, <2>5 DEF DelInv
<1>4. CASE PollSees(s)
  <2>1. PICK r \in Seen(s) :
          /\ poller' = [poller EXCEPT ![s] = 0]
          /\ IF r.ok /\ IsBooked(mode[s])
             THEN /\ landedCount' = landedCount + 1 /\ books' = books \cup {s}
             ELSE UNCHANGED <<landedCount, books>>
    BY <1>4 DEF PollSees
  <2>2. gaveUp' = gaveUp
    BY <1>4 DEF PollSees
  <2>3. r \in ran /\ r.send = s
    BY DEF Seen
  <2>4. /\ poller' \in [Sends -> Nat] /\ poller'[s] = 0
        /\ \A t \in Sends \ {s} : poller'[t] = poller[t]
    BY <1>1, <2>1
  <2>5. CASE r.ok /\ IsBooked(mode[s])
    <3>1. landedCount' = landedCount + 1 /\ books' = books \cup {s}
      BY <2>1, <2>5
    <3>2. s \in Accounted
      BY <1>1, <2>5 DEF Accounted
    <3>3. DelTypes'
      BY <1>1, <2>4, <3>1 DEF DelInv, DelTypes
    <3>4. DelStage'
      <4>1. \A t \in Sends : step'[t] = "join" => mode'[t] = "liquidation_bundle"
        BY <1>1 DEF DelInv, DelStage
      <4>2. \A t \in Sends : poller'[t] > 0 => step'[t] = "done" /\ t \notin books'
        BY <1>1, <2>4, <3>1, <3>2 DEF DelInv, DelStage
      <4>3. \A t \in books' : t \in Accounted' /\ \E x \in ran' : x.send = t /\ x.ok
        BY <1>1, <1>2, <2>3, <2>5, <3>1, <3>2 DEF DelInv, DelStage
      <4>4. ASSUME NEW t \in Accounted'
            PROVE  t \in books' \/ poller'[t] > 0 \/ t \in gaveUp' \/ \E x \in ran' : x.send = t /\ ~x.ok
        <5>1. CASE t = s
          BY <1>1, <1>2, <2>3, <4>4, <5>1, <3>1, <3>2
        <5>2. CASE t # s
          BY <1>1, <1>2, <2>2, <2>4, <4>4, <5>2, <3>1, <3>2 DEF DelInv, DelStage, Accounted
        <5> QED  BY <5>1, <5>2
      <4> QED  BY <4>1, <4>2, <4>3, <4>4 DEF DelStage
    <3>5. landedCount' = Cardinality(books')
      BY <1>1, <3>1, DelFinite, FS_AddElement DEF DelInv, DelTypes
    <3> QED  BY <1>1, <1>2, <3>3, <3>4, <3>5 DEF DelInv
  <2>6. CASE ~(r.ok /\ IsBooked(mode[s]))
    <3>1. UNCHANGED <<landedCount, books>>
      BY <2>1, <2>6
    <3>2. DelTypes'
      BY <1>1, <2>4, <3>1 DEF DelInv, DelTypes
    <3>3. s \in Accounted => ~r.ok
      BY <2>6 DEF Accounted
    <3>4. DelStage'
      <4>1. \A t \in Sends : step'[t] = "join" => mode'[t] = "liquidation_bundle"
        BY <1>1 DEF DelInv, DelStage
      <4>2. \A t \in Sends : poller'[t] > 0 => step'[t] = "done" /\ t \notin books'
        BY <1>1, <2>4, <3>1, <3>3 DEF DelInv, DelStage
      <4>3. \A t \in books' : t \in Accounted' /\ \E x \in ran' : x.send = t /\ x.ok
        BY <1>1, <1>2, <2>3, <3>1, <3>3 DEF DelInv, DelStage
      <4>4. ASSUME NEW t \in Accounted'
            PROVE  t \in books' \/ poller'[t] > 0 \/ t \in gaveUp' \/ \E x \in ran' : x.send = t /\ ~x.ok
        <5>1. CASE t = s
          BY <1>1, <1>2, <2>3, <4>4, <5>1, <3>1, <3>3
        <5>2. CASE t # s
          BY <1>1, <1>2, <2>2, <2>4, <4>4, <5>2, <3>1, <3>3 DEF DelInv, DelStage, Accounted
        <5> QED  BY <5>1, <5>2
      <4> QED  BY <4>1, <4>2, <4>3, <4>4 DEF DelStage
    <3> QED  BY <1>1, <1>2, <3>1, <3>2, <3>4 DEF DelInv
  <2> QED  BY <2>5, <2>6
<1> QED  BY <1>3, <1>4

\* Every step keeps the invariant.
LEMMA DelNextInv == DelInv /\ [DelNext]_delVars => DelInv'
<1> SUFFICES ASSUME DelInv, [DelNext]_delVars PROVE DelInv'
  OBVIOUS
<1>1. CASE DelNext
  BY <1>1, RunOnceStep, CallActions, SideStep, ExecutesStep, PollStep DEF DelNext
<1>2. CASE UNCHANGED delVars
  BY <1>2 DEF delVars, DelInv, DelTypes, RunOnce, DelStage, Accounted, IsBooked
<1> QED  BY <1>1, <1>2

\* A set whose members are all the same has at most one.
LEMMA AtMostOne ==
  ASSUME NEW S, \A x, y \in S : x = y
  PROVE  Cardinality(S) <= 1
<1>1. CASE S = {}
  BY <1>1, FS_EmptySet
<1>2. CASE S # {}
  <2>1. PICK x \in S : S = {x}
    BY <1>2
  <2> QED  BY <2>1, FS_Singleton
<1> QED  BY <1>1, <1>2

\* What the invariant says of an attempt is what is promised of it.
LEMMA DelInvSound == DelInv => DeliverySound
<1> SUFFICES ASSUME DelInv PROVE DeliverySound
  OBVIOUS
<1>1. ASSUME NEW s \in Sends PROVE Cardinality(Succeeded(s)) <= 1
  <2>1. \A q, r \in Succeeded(s) : q = r
    BY DEF Succeeded, DelInv, RunOnce
  <2> QED  BY <2>1, AtMostOne
<1>2. \A s \in books : Succeeded(s) # {}
  BY DEF DelInv, DelStage, Succeeded
<1>3. landedCount <= sentCount
  <2>1. books \subseteq Accounted /\ Accounted \in SUBSET Sends
    BY DEF DelInv, DelStage, Accounted
  <2>2. IsFiniteSet(Accounted) /\ Cardinality(Accounted) \in Nat
    BY <2>1, DelFinite
  <2>3. Cardinality(books) <= Cardinality(Accounted)
    BY <2>1, <2>2, FS_Subset
  <2>4. Cardinality(books) \in Nat
    BY <2>1, DelFinite
  <2> QED  BY <2>2, <2>3, <2>4 DEF DelInv, DelTypes
<1>4. ASSUME NEW s \in Sends, Succeeded(s) # {}, s \notin books,
             step[s] = "done", ~Unseen(s)
      PROVE  poller[s] > 0
  <2>1. PICK r \in ran : r.send = s /\ r.ok
    BY <1>4 DEF Succeeded
  <2>2. s \in Accounted /\ s \notin gaveUp
    BY <1>4 DEF Unseen, Accounted
  <2> QED  BY <1>4, <2>1, <2>2 DEF DelInv, DelStage, RunOnce
<1> QED  BY <1>1, <1>2, <1>3, <1>4 DEF DeliverySound, DelInv, Unseen

\* executor.rs, maybe_execute_inner, execute_flash_jupiter and the liquidations: for
\* any attempts, ways to send and losses of answers, an attempt succeeds on chain at
\* most once, what is booked did and is booked once, and what succeeded unbooked is
\* still polled for, on its way through the call, or unseen for a known reason.
THEOREM SentOnce == DelSpec => []DeliverySound
  BY DelInitInv, DelNextInv, DelInvSound, PTL DEF DelSpec

---------------------------------------------------------------------------
\* The running net is a sum over the attempts booked, in whatever order their
\* pollers ended. The sum is a recursive function on sets, so what is known of it
\* comes by induction on how many elements a set has.

\* A set of numbers that holds 0 and the successor of each member is Nat.
LEMMA NatInSet ==
  ASSUME NEW T \in SUBSET Nat, 0 \in T, \A n \in T : n + 1 \in T
  PROVE  T = Nat
<1> SUFFICES ASSUME T # Nat PROVE FALSE
  OBVIOUS
<1>1. Nat \ T \subseteq Nat /\ Nat \ T # {}
  OBVIOUS
<1>2. PICK n \in Nat \ T : \A m \in Nat \ T : <<m, n>> \notin OpToRel(<, Nat)
  BY <1>1, NatLessThanWellFounded, WFMin
<1>3. \A m \in Nat : m < n => m \in T
  BY <1>2 DEF OpToRel
<1>4. n \in Nat /\ n # 0
  OBVIOUS
<1>5. n - 1 \in Nat /\ n - 1 < n /\ (n - 1) + 1 = n
  BY <1>4
<1>6. n - 1 \in T
  BY <1>3, <1>5
<1> QED  BY <1>5, <1>6

\* The element it takes next.
Any(S) == CHOOSE x \in S : TRUE
\* g sums f over each of the sets Q, an element at a time.
Sums(g, f, Q) ==
  g = [T \in Q |-> IF T = {} THEN 0 ELSE f[Any(T)] + g[T \ {Any(T)}]]
\* The subsets of S with at most n elements.
UpTo(S, n) == {T \in SUBSET S : Cardinality(T) <= n}

\* The library's sum is the one such a function gives.
LEMMA SumIsChosen ==
  ASSUME NEW f, NEW S
  PROVE  SumOf(f, S) = (CHOOSE g : Sums(g, f, SUBSET S))[S]
BY Zenon DEF SumOf, MapThenSumSet, MapThenFoldSet, Any, Sums

\* Taking an element out of a set.
LEMMA Smaller ==
  ASSUME NEW S, IsFiniteSet(S)
  PROVE  \A T \in SUBSET S :
           /\ IsFiniteSet(T) /\ Cardinality(T) \in Nat
           /\ \A y \in T : Cardinality(T \ {y}) = Cardinality(T) - 1
           /\ T # {} => Any(T) \in T /\ Cardinality(T) > 0
<1> SUFFICES ASSUME NEW T \in SUBSET S
             PROVE  /\ IsFiniteSet(T) /\ Cardinality(T) \in Nat
                    /\ \A y \in T : Cardinality(T \ {y}) = Cardinality(T) - 1
                    /\ T # {} => Any(T) \in T /\ Cardinality(T) > 0
  OBVIOUS
<1>1. IsFiniteSet(T) /\ Cardinality(T) \in Nat
  BY FS_Subset, FS_CardinalityType
<1>2. T # {} => Any(T) \in T
  BY DEF Any
<1>3. T # {} => Cardinality(T) # 0
  BY <1>1, FS_EmptySet
<1>4. \A y \in T : Cardinality(T \ {y}) = Cardinality(T) - 1
  BY <1>1, FS_RemoveElement
<1> QED  BY <1>1, <1>2, <1>3, <1>4

\* An element out of a set of at most n + 1 leaves at most n.
LEMMA AtMost ==
  ASSUME NEW S, IsFiniteSet(S)
  PROVE  /\ UpTo(S, 0) = {{}}
         /\ \A n \in Nat : UpTo(S, n) \subseteq UpTo(S, n + 1)
         /\ \A n \in Nat : \A T \in UpTo(S, n + 1) : \A y \in T : T \ {y} \in UpTo(S, n)
         /\ UpTo(S, Cardinality(S)) = SUBSET S
<1>1. UpTo(S, 0) = {{}}
  <2>1. \A T \in UpTo(S, 0) : T = {}
    <3> SUFFICES ASSUME NEW T \in SUBSET S, Cardinality(T) <= 0 PROVE T = {}
      BY DEF UpTo
    <3> QED  BY Smaller
  <2>2. {} \in UpTo(S, 0)
    BY FS_EmptySet DEF UpTo
  <2> QED  BY <2>1, <2>2
<1>2. ASSUME NEW n \in Nat PROVE UpTo(S, n) \subseteq UpTo(S, n + 1)
  <2> SUFFICES ASSUME NEW T \in SUBSET S, Cardinality(T) <= n PROVE Cardinality(T) <= n + 1
    BY DEF UpTo
  <2>1. Cardinality(T) \in Nat
    BY Smaller
  <2> QED  BY <2>1
<1>3. ASSUME NEW n \in Nat, NEW T \in UpTo(S, n + 1), NEW y \in T
      PROVE  T \ {y} \in UpTo(S, n)
  <2>1. T \in SUBSET S /\ Cardinality(T) <= n + 1
    BY DEF UpTo
  <2>2. Cardinality(T) \in Nat /\ Cardinality(T \ {y}) = Cardinality(T) - 1
    BY <2>1, Smaller
  <2>3. T \ {y} \in SUBSET S
    BY <2>1
  <2>4. Cardinality(T \ {y}) <= n
    BY <2>1, <2>2
  <2> QED  BY <2>3, <2>4 DEF UpTo
<1>4. UpTo(S, Cardinality(S)) = SUBSET S
  BY FS_Subset DEF UpTo
<1> QED  BY <1>1, <1>2, <1>3, <1>4

\* Such a function exists, with integer values.
LEMMA SumsExist ==
  ASSUME NEW S, IsFiniteSet(S), NEW f, \A x \in S : f[x] \in Int
  PROVE  \E g \in [SUBSET S -> Int] : Sums(g, f, SUBSET S)
<1> DEFINE N == {n \in Nat : \E g \in [UpTo(S, n) -> Int] : Sums(g, f, UpTo(S, n))}
<1>1. 0 \in N
  <2> DEFINE g0 == [T \in UpTo(S, 0) |-> 0]
  <2>1. \A T \in UpTo(S, 0) : T = {}
    BY AtMost
  <2>2. g0 \in [UpTo(S, 0) -> Int]
    OBVIOUS
  <2>3. Sums(g0, f, UpTo(S, 0))
    BY <2>1 DEF Sums
  <2> QED  BY <2>2, <2>3
<1>2. ASSUME NEW n \in N PROVE n + 1 \in N
  <2>1. n \in Nat
    OBVIOUS
  <2>2. PICK g \in [UpTo(S, n) -> Int] : Sums(g, f, UpTo(S, n))
    OBVIOUS
  <2> DEFINE h == [T \in UpTo(S, n + 1) |-> IF T = {} THEN 0 ELSE f[Any(T)] + g[T \ {Any(T)}]]
  <2>3. ASSUME NEW T \in UpTo(S, n + 1), T # {}
        PROVE  Any(T) \in S /\ T \ {Any(T)} \in UpTo(S, n)
    <3>1. T \in SUBSET S /\ Cardinality(T) <= n + 1
      BY DEF UpTo
    <3>2. Any(T) \in T
      BY <3>1, <2>3, Smaller
    <3> QED  BY <2>1, <3>1, <3>2, AtMost
  <2>4. h \in [UpTo(S, n + 1) -> Int]
    BY <2>3
  <2>5. ASSUME NEW T \in UpTo(S, n) PROVE T \in UpTo(S, n + 1) /\ h[T] = g[T]
    <3>1. T \in UpTo(S, n + 1)
      BY <2>1, AtMost
    <3>2. g[T] = IF T = {} THEN 0 ELSE f[Any(T)] + g[T \ {Any(T)}]
      BY <2>2 DEF Sums
    <3> QED  BY <3>1, <3>2
  <2>6. Sums(h, f, UpTo(S, n + 1))
    <3>1. h = [T \in UpTo(S, n + 1) |-> IF T = {} THEN 0 ELSE f[Any(T)] + h[T \ {Any(T)}]]
      BY <2>3, <2>5
    <3> HIDE DEF h
    <3> QED  BY <3>1 DEF Sums
  <2> HIDE DEF h
  <2> QED  BY <2>1, <2>4, <2>6
<1>3. N = Nat
  <2> HIDE DEF N
  <2>1. N \in SUBSET Nat
    BY DEF N
  <2> QED  BY <1>1, <1>2, <2>1, NatInSet
<1>4. Cardinality(S) \in Nat /\ UpTo(S, Cardinality(S)) = SUBSET S
  BY FS_CardinalityType, AtMost
<1>5. Cardinality(S) \in N
  BY <1>3, <1>4
<1> QED  BY <1>4, <1>5

\* Two of them agree where both are defined.
LEMMA SumsAgree ==
  ASSUME NEW S, IsFiniteSet(S), NEW R \in SUBSET S, NEW f, NEW g, NEW h,
         Sums(g, f, SUBSET S), Sums(h, f, SUBSET R)
  PROVE  \A T \in SUBSET R : g[T] = h[T]
<1> DEFINE N == {n \in Nat : \A T \in UpTo(R, n) : g[T] = h[T]}
<1>0. IsFiniteSet(R)
  BY FS_Subset
<1>1. ASSUME NEW T \in SUBSET R
      PROVE  /\ g[T] = IF T = {} THEN 0 ELSE f[Any(T)] + g[T \ {Any(T)}]
             /\ h[T] = IF T = {} THEN 0 ELSE f[Any(T)] + h[T \ {Any(T)}]
  BY DEF Sums
<1>2. 0 \in N
  <2>1. \A T \in UpTo(R, 0) : T = {} /\ T \in SUBSET R
    BY <1>0, AtMost
  <2> QED  BY <2>1, <1>1
<1>3. ASSUME NEW n \in N PROVE n + 1 \in N
  <2>1. ASSUME NEW T \in UpTo(R, n + 1) PROVE g[T] = h[T]
    <3>1. T \in SUBSET R /\ Cardinality(T) <= n + 1
      BY DEF UpTo
    <3>2. CASE T = {}
      BY <3>1, <3>2, <1>1
    <3>3. CASE T # {}
      <4>1. T \ {Any(T)} \in UpTo(R, n)
        <5>1. Any(T) \in T
          BY <1>0, <3>1, <3>3, Smaller
        <5> QED  BY <1>0, <5>1, AtMost
      <4>2. g[T \ {Any(T)}] = h[T \ {Any(T)}]
        BY <4>1
      <4> QED  BY <3>1, <3>3, <4>2, <1>1
    <3> QED  BY <3>2, <3>3
  <2> QED  BY <2>1
<1>4. N = Nat
  <2> HIDE DEF N
  <2>1. N \in SUBSET Nat
    BY DEF N
  <2> QED  BY <1>2, <1>3, <2>1, NatInSet
<1>5. Cardinality(R) \in N /\ UpTo(R, Cardinality(R)) = SUBSET R
  BY <1>0, <1>4, FS_CardinalityType, AtMost
<1> QED  BY <1>5

\* The sum over a finite set: nothing over the empty one, and one element more adds
\* that element's number, whichever order the elements are taken in.
LEMMA SumOver ==
  ASSUME NEW S, IsFiniteSet(S), NEW f, \A x \in S : f[x] \in Int
  PROVE  /\ SumOf(f, {}) = 0
         /\ \A T \in SUBSET S : SumOf(f, T) \in Int
         /\ \A T \in SUBSET S : \A x \in S \ T : SumOf(f, T \cup {x}) = SumOf(f, T) + f[x]
<1>1. PICK g \in [SUBSET S -> Int] : Sums(g, f, SUBSET S)
  BY SumsExist
<1>2. ASSUME NEW T \in SUBSET S PROVE SumOf(f, T) = g[T]
  <2> DEFINE h == CHOOSE h : Sums(h, f, SUBSET T)
  <2>1. IsFiniteSet(T)
    BY FS_Subset
  <2>2. \E k : Sums(k, f, SUBSET T)
    BY <2>1, SumsExist
  <2>3. Sums(h, f, SUBSET T)
    BY <2>2
  <2> HIDE DEF h
  <2>5. Sums(g, f, SUBSET S)
    BY <1>1
  <2>4. \A U \in SUBSET T : g[U] = h[U]
    BY <2>5, <2>3, SumsAgree
  <2> QED  BY <2>4, SumIsChosen DEF h
<1>3. ASSUME NEW T \in SUBSET S
      PROVE  g[T] = IF T = {} THEN 0 ELSE f[Any(T)] + g[T \ {Any(T)}]
  BY <1>1 DEF Sums
<1> DEFINE Adds(T) == \A x \in S \ T : g[T \cup {x}] = g[T] + f[x]
           N == {n \in Nat : \A T \in UpTo(S, n) : Adds(T)}
<1>4. ASSUME NEW T \in SUBSET S, \A U \in SUBSET S : Cardinality(U) < Cardinality(T) => Adds(U)
      PROVE  Adds(T)
  <2> SUFFICES ASSUME NEW x \in S \ T PROVE g[T \cup {x}] = g[T] + f[x]
    OBVIOUS
  <2> DEFINE V == T \cup {x}
             y == Any(V)
             U == T \ {y}
  <2>1. V \in SUBSET S /\ V # {} /\ y \in V
    BY DEF Any
  <2>2. g[V] = f[y] + g[V \ {y}]
    BY <2>1, <1>3
  <2>3. CASE y = x
    <3>1. V \ {y} = T
      BY <2>3
    <3>2. g[T] \in Int /\ f[x] \in Int
      BY <1>1
    <3>3. g[V] = f[x] + g[T]
      <4> HIDE DEF y, V
      <4> QED  BY <2>2, <2>3, <3>1
    <3> QED  BY <3>2, <3>3
  <2>4. CASE y # x
    <3>1. y \in T /\ V \ {y} = U \cup {x} /\ U \cup {y} = T
      BY <2>1, <2>4
    <3>2. U \in SUBSET S /\ x \in S \ U /\ y \in S \ U
      BY <3>1
    <3>3. Cardinality(U) < Cardinality(T)
      <4>1. IsFiniteSet(T) /\ Cardinality(T) \in Nat
        BY Smaller
      <4> HIDE DEF y
      <4>2. Cardinality(U) = Cardinality(T) - 1
        BY <3>1, <4>1, Smaller
      <4> QED  BY <4>1, <4>2
    <3> HIDE DEF y
    <3>4. g[U \cup {x}] = g[U] + f[x] /\ g[U \cup {y}] = g[U] + f[y]
      BY <1>4, <3>2, <3>3
    <3>5. g[U] \in Int /\ f[x] \in Int /\ f[y] \in Int
      BY <1>1, <3>2
    <3>6. g[V] = f[y] + g[U \cup {x}] /\ g[T] = g[U \cup {y}]
      BY <2>2, <3>1
    <3> QED  BY <3>4, <3>5, <3>6
  <2> QED  BY <2>3, <2>4
<1>5. 0 \in N
  <2> HIDE DEF Adds
  <2>1. ASSUME NEW T \in UpTo(S, 0) PROVE Adds(T)
    <3>1. T \in SUBSET S /\ Cardinality(T) <= 0
      BY DEF UpTo
    <3>2. ASSUME NEW U \in SUBSET S PROVE ~(Cardinality(U) < Cardinality(T))
      <4>1. Cardinality(U) \in Nat /\ Cardinality(T) \in Nat
        BY <3>1, Smaller
      <4> QED  BY <3>1, <4>1
    <3> QED  BY <1>4, <3>1, <3>2
  <2> QED  BY <2>1
<1>6. ASSUME NEW n \in N PROVE n + 1 \in N
  <2> HIDE DEF Adds
  <2>1. ASSUME NEW T \in UpTo(S, n + 1) PROVE Adds(T)
    <3>1. T \in SUBSET S /\ Cardinality(T) <= n + 1
      BY DEF UpTo
    <3>2. ASSUME NEW U \in SUBSET S, Cardinality(U) < Cardinality(T) PROVE Adds(U)
      <4>1. Cardinality(U) \in Nat /\ Cardinality(T) \in Nat
        BY <3>1, Smaller
      <4>2. Cardinality(U) <= n
        BY <3>1, <3>2, <4>1
      <4>3. U \in UpTo(S, n)
        BY <4>2 DEF UpTo
      <4> QED  BY <4>3
    <3> QED  BY <1>4, <3>1, <3>2
  <2> QED  BY <2>1
<1>7. N = Nat
  <2> HIDE DEF N
  <2>1. N \in SUBSET Nat
    BY DEF N
  <2> QED  BY <1>5, <1>6, <2>1, NatInSet
<1>8. \A T \in SUBSET S : Adds(T)
  <2>1. Cardinality(S) \in N /\ UpTo(S, Cardinality(S)) = SUBSET S
    BY <1>7, FS_CardinalityType, AtMost
  <2> QED  BY <2>1
<1>9. SumOf(f, {}) = 0
  BY <1>2, <1>3
<1> QED  BY <1>1, <1>2, <1>8, <1>9

---------------------------------------------------------------------------
\* The attempts have results that can be added up.
LEMMA NetsAdd == DelInit => (\A s \in Sends : expects[s] \in Int) /\ BookedNetAddsUp
<1> SUFFICES ASSUME DelInit PROVE (\A s \in Sends : expects[s] \in Int) /\ BookedNetAddsUp
  OBVIOUS
<1>1. \A s \in Sends : expects[s] \in Int
  BY DelAssumption DEF DelInit
<1>2. SumOf(expects, {}) = 0
  BY <1>1, DelAssumption, SumOver
<1> QED  BY <1>1, <1>2 DEF DelInit, BookedNetAddsUp

\* A poller books its attempt's result, and no attempt twice.
LEMMA NetStep ==
  ASSUME DelInv, BookedNetAddsUp, \A s \in Sends : expects[s] \in Int, [DelNext]_delVars
  PROVE  BookedNetAddsUp' /\ (\A s \in Sends : expects[s] \in Int)'
<1>1. bookedNet = SumOf(expects, books)
  BY DEF BookedNetAddsUp
<1>2. expects' = expects
  BY DEF DelNext, SimulationFails, SendStarts, Accepted, Refused, Joins, PollSees, PollBlank,
         SideEnds, Executes, delVars
<1>3. \/ bookedNet' = bookedNet /\ books' = books
      \/ \E s \in Sends : poller[s] > 0 /\ bookedNet' = bookedNet + expects[s] /\ books' = books \cup {s}
  BY DEF DelNext, SimulationFails, SendStarts, Accepted, Refused, Joins, PollSees, PollBlank,
         SideEnds, Executes, delVars, Result
<1>4. bookedNet' = SumOf(expects, books')
  <2>1. CASE bookedNet' = bookedNet /\ books' = books
    BY <1>1, <2>1
  <2>2. ASSUME NEW s \in Sends, poller[s] > 0, bookedNet' = bookedNet + expects[s],
               books' = books \cup {s}
        PROVE  bookedNet' = SumOf(expects, books')
    <3>1. s \notin books /\ books \in SUBSET Sends
      BY <2>2 DEF DelInv, DelStage, DelTypes
    <3>2. SumOf(expects, books \cup {s}) = SumOf(expects, books) + expects[s]
      BY <3>1, DelAssumption, SumOver
    <3> QED  BY <1>1, <2>2, <3>2
  <2> QED  BY <1>3, <2>1, <2>2
<1>5. BookedNetAddsUp'
  BY <1>2, <1>4 DEF BookedNetAddsUp
<1> QED  BY <1>2, <1>5

\* executor.rs:2445, the pollers of maybe_execute_inner and execute_flash_jupiter: for
\* any attempts and results, the running net the loss cap is compared with is the
\* sum of the results of the attempts booked, losses too, whatever the order.
THEOREM NetAddsUp == DelSpec => []BookedNetAddsUp
<1> DEFINE Booked == DelInv /\ BookedNetAddsUp /\ \A s \in Sends : expects[s] \in Int
<1>1. DelInit => Booked
  BY DelInitInv, NetsAdd
<1>2. Booked /\ [DelNext]_delVars => Booked'
  BY DelNextInv, NetStep
<1>3. Booked => BookedNetAddsUp
  OBVIOUS
<1> HIDE DEF Booked
<1> QED  BY <1>1, <1>2, <1>3, PTL DEF DelSpec
=============================================================================
