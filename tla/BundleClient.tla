---------------------------- MODULE BundleClient ----------------------------
(***************************************************************************)
(* One bundle on its way through JitoBundleClient                          *)
(* (src/crates/arb-jito/src/bundle_client.rs): send_bundle walks the list  *)
(* of block engines until one answers, bundle_status asks them in the same *)
(* order. The remote side may take a bundle and lose the reply.            *)
(***************************************************************************)
EXTENDS Integers, FiniteSets

CONSTANT NumEngines   \* block_engine_urls, tried in order

ASSUME EnginesAssumption == NumEngines \in Nat \ {0}

VARIABLES
  bundleAt,   \* "sending", "sent", "refused", "asking", "known", "unknown"
  engine,     \* the one being asked
  takenBy,    \* engines that took the bundle
  bundleLanded, \* did it land?
  lastReply,  \* history: how the last request of send_bundle ended
  lostReplies \* history: engines whose reply was lost or unreadable

bundleVars == <<bundleAt, engine, takenBy, bundleLanded, lastReply, lostReplies>>

Engines == 1..NumEngines

BundleInit ==
  /\ bundleAt = "sending" /\ engine = 1
  /\ takenBy = {} /\ bundleLanded = FALSE
  /\ lastReply = "none" /\ lostReplies = {}

MutGarbledToo == {"limited", "lost", "garbled"}

FailsOver == {"limited", "lost"}

NextEngine(done) ==
  IF engine < NumEngines THEN engine' = engine + 1 /\ UNCHANGED bundleAt
                         ELSE bundleAt' = done /\ UNCHANGED engine

\* A rate limit and a request or reply that got lost go to the next engine; any
\* other error answer, and an answer without a result, end the call.
PostBundle(reply, taken) ==
  /\ bundleAt = "sending"
  /\ (reply = "ok" => taken) /\ (taken => reply \in {"ok", "lost", "garbled"})
  /\ takenBy' = IF taken THEN takenBy \cup {engine} ELSE takenBy
  /\ lastReply' = reply
  /\ lostReplies' = IF reply = "lost" THEN lostReplies \cup {engine} ELSE lostReplies
  /\ IF reply \in FailsOver THEN NextEngine("refused")
     ELSE bundleAt' = (IF reply = "ok" THEN "sent" ELSE "refused") /\ UNCHANGED engine
  /\ UNCHANGED bundleLanded

BundleLands ==
  /\ takenBy # {} /\ ~bundleLanded
  /\ bundleLanded' = TRUE
  /\ UNCHANGED <<bundleAt, engine, takenBy, lastReply, lostReplies>>

\* The caller's poller, after its delay.
AskStatus ==
  /\ bundleAt = "sent"
  /\ bundleAt' = "asking" /\ engine' = 1
  /\ UNCHANGED <<takenBy, bundleLanded, lastReply, lostReplies>>

Confirmed(sees) == sees /\ bundleLanded

\* The first engine that answers decides; it may not have seen the slot yet.
\* All engines lost: an error.
StatusReply(reply, sees) ==
  /\ bundleAt = "asking"
  /\ IF reply = "lost" THEN NextEngine("unknown")
     ELSE bundleAt' = (IF Confirmed(sees) THEN "known" ELSE "unknown") /\ UNCHANGED engine
  /\ UNCHANGED <<takenBy, bundleLanded, lastReply, lostReplies>>

BundleNext ==
  \/ \E reply \in {"ok", "limited", "lost", "error", "garbled"}, taken \in BOOLEAN :
       PostBundle(reply, taken)
  \/ BundleLands
  \/ AskStatus
  \/ \E reply \in {"ok", "lost"}, sees \in BOOLEAN : StatusReply(reply, sees)

BundleSpec == BundleInit /\ [][BundleNext]_bundleVars

---------------------------------------------------------------------------
\* The bundle reaches more engines than the one that answered only through lost
\* replies: it is in nobody's hands after a clean refusal, and handed out
\* twice only by a reply that got lost.
OneTakerPerReply ==
  /\ Cardinality(takenBy \ lostReplies) <= 1
  /\ bundleAt = "refused" /\ lastReply \in {"limited", "error"} => takenBy \subseteq lostReplies
=============================================================================
