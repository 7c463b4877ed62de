----------------------------- MODULE BuyLedger -----------------------------
(***************************************************************************)
(* What the pump.fun buy budget promises, without tasks, mutex and file:   *)
(* a set of booked mints that never asks for more than the cap, and the    *)
(* mints bought among them.  A booking is bought at most once, or handed   *)
(* back while it is not bought.  A restart forgets what was bought before, *)
(* and may forget bookings; it never adds up to more than the cap.         *)
(***************************************************************************)
EXTENDS Integers

CONSTANTS Mints, Weight, CapLamports   \* as in SnipeBudget

VARIABLES
  booked,   \* the mints with a reservation
  bought    \* the mints bought in this run of the process

ledgerVars == <<booked, bought>>

Affordable(S) == Weight[S] <= CapLamports

LedgerInit == booked = {} /\ bought = {}

Book(m) ==
  /\ m \notin booked
  /\ Affordable(booked \cup {m})
  /\ booked' = booked \cup {m}
  /\ UNCHANGED bought

Buy(m) ==
  /\ m \in booked \ bought
  /\ bought' = bought \cup {m}
  /\ UNCHANGED booked

HandBack(m) ==
  /\ m \in booked \ bought
  /\ booked' = booked \ {m}
  /\ UNCHANGED bought

Rerun ==
  /\ booked' \in {S \in SUBSET Mints : Affordable(S)}
  /\ bought' = {}

LedgerNext == Rerun \/ \E m \in Mints : Book(m) \/ Buy(m) \/ HandBack(m)

LedgerSpec == LedgerInit /\ [][LedgerNext]_ledgerVars
=============================================================================
