----------------------------- MODULE SolendScan -----------------------------
(***************************************************************************)
(* The scan loop of the Solend liquidator (run_solend_liquidator in        *)
(* src/crates/arb-scout/src/scout.rs): it waits for its poll timer or for  *)
(* a notification of an oracle update, fetches all obligations, computes   *)
(* which are under water, attempts those that were not under water at the  *)
(* scan before, and rolls the set forward. An obligation's value changes   *)
(* at any time; an update of its oracle reaches the process as a ping on a *)
(* tokio Notify, which holds one permit.                                   *)
(***************************************************************************)
EXTENDS Integers, FiniteSets

CONSTANTS
  Obligations,
  FreshOnly,        \* SOLEND_LIQUIDATOR_FRESH_ONLY
  MaxScans, MaxMoves   \* bounds

VARIABLES
  sunk,             \* obligations under water on chain
  ping,             \* permit of solend_scan_notify
  scan,             \* where the loop is
  snapshot,         \* obligations under water in what this scan fetched
  prevUnderwater,   \* prev_underwater
  scans,            \* scans_completed
  moves,            \* bound
  attempted,        \* history: tried, and under water at every scan since
  again,            \* history: was one of those tried again?
  unread,           \* history: an oracle update since the last fetch
  failed            \* history: did the last fetch fail?

scanHistory == <<attempted, again>>
scanVars == <<sunk, ping, scan, snapshot, prevUnderwater, scans, moves, scanHistory,
              unread, failed>>

ScanInit ==
  /\ sunk = {}
  /\ ping = FALSE /\ scan = "wait" /\ snapshot = {}
  /\ prevUnderwater = {} /\ scans = 0 /\ moves = 0
  /\ attempted = {} /\ again = FALSE /\ unread = FALSE /\ failed = FALSE

\* notify_one stores a permit whether or not the loop is waiting.
PermitStored == TRUE

\* A price moves and its oracle account is updated: the stream handler and the
\* shred bridge call notify_one.
PriceMoves(o) ==
  /\ moves < MaxMoves
  /\ moves' = moves + 1
  /\ sunk' = IF o \in sunk THEN sunk \ {o} ELSE sunk \cup {o}
  /\ ping' = PermitStored
  /\ unread' = TRUE
  /\ UNCHANGED <<scan, snapshot, prevUnderwater, scans, scanHistory, failed>>

\* select! over the timer and notified(). A wake by the timer leaves the
\* permit; notified() takes it.
WakeUp(byPing) ==
  /\ scan = "wait" /\ scans < MaxScans
  /\ byPing => ping
  /\ ping' = (ping /\ ~byPing)
  /\ scan' = "fetch"
  /\ UNCHANGED <<sunk, snapshot, prevUnderwater, scans, moves, scanHistory, unread, failed>>

\* fetch_all_obligations_multi and the live prices of the close ones. A failed
\* fetch goes back to waiting, the permit of the ping being spent.
Fetch ==
  /\ scan = "fetch"
  /\ snapshot' = sunk
  /\ scan' = "attempt"
  /\ unread' = FALSE /\ failed' = FALSE
  /\ UNCHANGED <<sunk, ping, prevUnderwater, scans, moves, scanHistory>>

FetchFails ==
  /\ scan = "fetch"
  /\ scan' = "wait"
  /\ failed' = TRUE
  /\ UNCHANGED <<sunk, ping, snapshot, prevUnderwater, scans, moves, scanHistory, unread>>

\* Candidates: under water and, with FreshOnly, not so at the scan before; the
\* first scan only sets the baseline.
Fresh(o) == FreshOnly => scans > 0 /\ o \notin prevUnderwater

MutRollsOnlyTried(tried) == tried

RolledForward(tried) == snapshot

\* The bonus, the size band and the take limit let the passing ones through.
Attempt(passing) ==
  LET tried == {o \in passing : Fresh(o)} IN
  /\ scan = "attempt"
  /\ passing \subseteq snapshot
  /\ prevUnderwater' = RolledForward(tried)
  /\ attempted' = (attempted \cap snapshot) \cup tried
  /\ again' = (again \/ tried \cap attempted \cap snapshot # {})
  /\ scans' = scans + 1
  /\ scan' = "wait"
  /\ UNCHANGED <<sunk, ping, snapshot, moves, unread, failed>>

ScanNext ==
  \/ \E o \in Obligations : PriceMoves(o)
  \/ \E byPing \in BOOLEAN : WakeUp(byPing)
  \/ Fetch
  \/ FetchFails
  \/ \E passing \in SUBSET Obligations : Attempt(passing)

ScanSpec == ScanInit /\ [][ScanNext]_scanVars

---------------------------------------------------------------------------
\* No oracle update is lost between two scans: until a fetch has read it, its
\* permit is there or the scan that reads it has begun. A fetch that fails
\* spends the permit, and then only the poll timer is left.
UpdateIsPending == unread => ping \/ scan = "fetch" \/ failed

\* With FreshOnly an obligation is attempted once for each time it crosses:
\* again only if some scan in between saw it above water.
OncePerCrossing == FreshOnly => ~again

\* What the loop owes to updates and to obligations: both of the above.
ScanSound == UpdateIsPending /\ OncePerCrossing
=============================================================================
