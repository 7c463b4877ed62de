----------------------------- MODULE CommandPoll -----------------------------
(***************************************************************************)
(* The Telegram command listener                                           *)
(* (src/crates/arb-scout/src/telegram_commands.rs): it asks for updates    *)
(* from an offset, handles them in order and moves the offset past each.   *)
(* The server keeps an update until a request with a higher offset has     *)
(* come. Updates are numbered in order; the bot may be restarted.          *)
(***************************************************************************)
EXTENDS Integers, FiniteSets

CONSTANTS
  MaxUpdates, MaxRestarts,  \* bounds
  FromOperator,             \* numbers of the updates written in the operator's chat
  NoOffset                  \* offset None

ASSUME PollAssumption == NoOffset \notin Int /\ MaxUpdates \in Nat

VARIABLES
  arrived,     \* updates the server has received: 1..arrived
  confirmed,   \* updates up to here are dropped by the server
  offset,      \* next update to ask for
  batch,       \* updates of the last answer still to be handled
  handledRun,  \* updates handled by this run of the process, in sets
  repeated,    \* history: was one handled twice in one run?
  answered,    \* replies sent, as the numbers of the commands
  restarts

cmdVars == <<arrived, confirmed, offset, batch, handledRun, repeated, answered, restarts>>

CmdInit ==
  /\ arrived = 0 /\ confirmed = 0 /\ offset = NoOffset
  /\ batch = {} /\ handledRun = {} /\ repeated = FALSE
  /\ answered = {} /\ restarts = 0

Arrive ==
  /\ arrived < MaxUpdates
  /\ arrived' = arrived + 1
  /\ UNCHANGED <<confirmed, offset, batch, handledRun, repeated, answered, restarts>>

Dropped == IF offset = NoOffset THEN confirmed ELSE
           IF offset - 1 > confirmed THEN offset - 1 ELSE confirmed

\* getUpdates: the server drops what is below the offset and answers a prefix
\* of the rest. If the answer is lost, the offset has still been seen.
PollUpdates(upTo, answer) ==
  /\ batch = {}
  /\ confirmed' = Dropped
  /\ upTo \in Dropped..arrived
  /\ batch' = IF answer THEN Dropped + 1..upTo ELSE {}
  /\ UNCHANGED <<arrived, offset, handledRun, repeated, answered, restarts>>

Earliest(S) == CHOOSE n \in S : \A k \in S : n <= k

MutOffsetSkips(n) == n + 2

NextOffset(n) == n + 1

\* The offset moves before the update is handled; a reply may fail to be sent.
\* Another chat is ignored.
HandleUpdate(replied) ==
  LET n == Earliest(batch) IN
  /\ batch # {}
  /\ batch' = batch \ {n}
  /\ offset' = NextOffset(n)
  /\ repeated' = (repeated \/ n \in handledRun)
  /\ handledRun' = handledRun \cup {n}
  /\ answered' = IF replied /\ n \in FromOperator THEN answered \cup {n} ELSE answered
  /\ UNCHANGED <<arrived, confirmed, restarts>>

CmdRestart ==
  /\ restarts < MaxRestarts
  /\ restarts' = restarts + 1
  /\ offset' = NoOffset /\ batch' = {} /\ handledRun' = {}
  /\ UNCHANGED <<arrived, confirmed, repeated, answered>>

CmdNext ==
  \/ Arrive
  \/ \E upTo \in 0..MaxUpdates, answer \in BOOLEAN : PollUpdates(upTo, answer)
  \/ \E replied \in BOOLEAN : HandleUpdate(replied)
  \/ CmdRestart

CmdSpec == CmdInit /\ [][CmdNext]_cmdVars

---------------------------------------------------------------------------
\* No command is executed twice by one run of the process, lost answers
\* included.
NotTwiceInARun == ~repeated

\* The offset never passes an update that was not handled, by this run or an
\* earlier one: the server drops nothing that was not looked at.
NothingDropped ==
  [][confirmed' > confirmed => confirmed + 1 .. confirmed' \subseteq handledRun]_cmdVars

\* What the operator writes is looked at, and once: both of the above.
CommandsOnce == []NotTwiceInARun /\ NothingDropped
=============================================================================
