----------------------------- MODULE TxAssembly -----------------------------
(***************************************************************************)
(* From instructions to the bytes of a signed transaction, and back on the *)
(* validator: raw_tx.rs, v0_tx.rs, signing.rs and alt.rs of                *)
(* src/crates/arb-scout, with the lookup tables that bin/alt-deploy.rs     *)
(* fills. The tables are read once and cached, the tool may be filling     *)
(* them meanwhile, and a batch whose confirmation it missed is sent again. *)
(*                                                                         *)
(* A key is a number, so that keys can be sorted; on the wire it is one    *)
(* element, as are a signature and the recent blockhash.                   *)
(***************************************************************************)
EXTENDS Integers, Sequences, FiniteSets, FiniteSetsExt, SequencesExt

CONSTANTS
  Wallet,        \* our key: payer and only signer
  Jobs,          \* what to build: [layout, ixs, tables, pinned]
  AltTables,     \* the configured lookup tables
  Forever,       \* those a OnceCell of an executor keeps; the rest go through ALT_CACHE
  OldEntries,    \* what each of them holds at the start
  Grown, Batches,\* the table the tool fills, and with what, batch by batch
  DeployTries,   \* attempts per batch (4)
  AltTtl, HashTtl, \* ALT_CACHE_TTL and BLOCKHASH_CACHE_TTL, in ticks
  HashLife,      \* how long the chain accepts a blockhash
  MaxAltTime,    \* bound on the clock
  Unread,        \* a cache cell that was never filled
  Unsigned       \* nothing was signed so far

ASSUME AssemblyAssumption ==
  /\ Wallet \in Nat /\ Grown \in AltTables
  /\ {AltTtl, HashTtl, HashLife, MaxAltTime, DeployTries} \subseteq Nat

VARIABLES
  altNow,    \* the clock
  entries,   \* on chain: table -> its keys in order
  extends,   \* the tool's transactions: [batch, hash, done]
  deploy,    \* the tool: phase, batch, attempt, blockhash
  toolHash,  \* its cached blockhash: the time it was fetched, or Unread
  altView,   \* what the process last read: table -> [at, keys], or Unread
  botHash,   \* BLOCKHASH_CACHE of the trading process
  signed     \* the last transaction built: [job, hash, wire]

deployVars == <<extends, deploy, toolHash>>
botVars    == <<altView, botHash, signed>>
asmVars    == <<altNow, entries, deployVars, botVars>>

---------------------------------------------------------------------------
\* Compiling.

Mentioned(ixs) == UNION {{ix.prog} \cup {m.key : m \in Range(ix.metas)} : ix \in Range(ixs)}
Programs(ixs)  == {ix.prog : ix \in Range(ixs)}
Asked(ixs, k, flag) ==
  k = Wallet \/ \E ix \in Range(ixs) : \E m \in Range(ix.metas) : m.key = k /\ m[flag]

\* A transaction is one packet of 1232 bytes: its lists are short and its
\* accounts are numbered with a byte.
PacketSize == 1232
IxRecords ==
  [prog : Nat, metas : Seq([key : Nat, s : BOOLEAN, w : BOOLEAN]), data : Seq(Nat)]
ASSUME JobsAssumption ==
  /\ Jobs \subseteq [layout : {"legacy", "single", "multi", "jupiter"}, ixs : Seq(IxRecords),
                     tables : Seq(AltTables), pinned : SUBSET Nat]
  /\ \A job \in Jobs :
       /\ Len(job.ixs) <= PacketSize /\ Len(job.tables) <= PacketSize
       /\ Cardinality(Mentioned(job.ixs) \cup {Wallet}) <= 256
       /\ \A ix \in Range(job.ixs) : Len(ix.metas) <= PacketSize /\ Len(ix.data) <= PacketSize
  /\ OldEntries \in [AltTables -> Seq(Nat)]
  /\ Batches \in Seq(Seq(Nat)) /\ Batches # <<>>

Slots(s, k) == {i \in DOMAIN s : s[i] = k}

\* A key a table holds twice: collect() keeps the last index of it,
\* entry().or_insert() the first.
IndexIn(layout, s, k) ==
  (IF layout = "single" THEN Max(Slots(s, k)) ELSE Min(Slots(s, k))) - 1

\* A program is never loaded from a table, and never writable in a v0 message.
MayLook(job, k) ==
  /\ job.layout # "legacy"
  /\ ~Asked(job.ixs, k, "s") /\ k \notin Programs(job.ixs) \cup job.pinned
Writable(job, k) ==
  /\ Asked(job.ixs, k, "w")
  /\ job.layout = "legacy" \/ Asked(job.ixs, k, "s") \/ k \notin Programs(job.ixs)

HomeOf(job, view, k) == {i \in DOMAIN job.tables : Slots(view[job.tables[i]], k) # {}}
Looked(job, view) ==
  {k \in Mentioned(job.ixs) \ {Wallet} : MayLook(job, k) /\ HomeOf(job, view, k) # {}}

\* The members of S, those of a lower rank first.
InOrder(S, rank) ==
  [i \in 1..Cardinality(S) |-> CHOOSE k \in S : Cardinality({j \in S : rank[j] < rank[k]}) = i - 1]

StaticKeys(job, view) ==
  LET rest == Mentioned(job.ixs) \ ({Wallet} \cup Looked(job, view))
      Group(s, w) ==
        LET members == {k \in rest : Asked(job.ixs, k, "s") = s /\ Writable(job, k) = w}
        IN InOrder(members, [k \in members |-> k])
      PayerAnd(groups) == [groups |-> groups, keys |-> <<Wallet>> \o groups[1] \o groups[2]
                                                       \o groups[3] \o groups[4]]
  IN PayerAnd(<<Group(TRUE, TRUE), Group(TRUE, FALSE), Group(FALSE, TRUE), Group(FALSE, FALSE)>>)

FromTable(job, view, i, w) ==
  LET loaded == {k \in Looked(job, view) : Min(HomeOf(job, view, k)) = i
                                            /\ Asked(job.ixs, k, "w") = w}
  IN InOrder(loaded, [k \in loaded |-> IndexIn(job.layout, view[job.tables[i]], k)])

MutPerTable(job, view) ==
  FlattenSeq([i \in DOMAIN job.tables |->
    FromTable(job, view, i, TRUE) \o FromTable(job, view, i, FALSE)])
\* The order in which the runtime numbers what is loaded: the writable keys of
\* every table, then the others of every table.
LoadedKeys(job, view) ==
  FlattenSeq([i \in DOMAIN job.tables |-> FromTable(job, view, i, TRUE)])
  \o FlattenSeq([i \in DOMAIN job.tables |-> FromTable(job, view, i, FALSE)])

Lookups(job, view) ==
  LET Indexes(i, w) == [j \in DOMAIN FromTable(job, view, i, w) |->
        IndexIn(job.layout, view[job.tables[i]], FromTable(job, view, i, w)[j])]
      Lookup(i) == [table |-> job.tables[i],
                    writable |-> Indexes(i, TRUE), readonly |-> Indexes(i, FALSE)]
  IN FlattenSeq([i \in DOMAIN job.tables |->
       IF Indexes(i, TRUE) \o Indexes(i, FALSE) = <<>> THEN <<>> ELSE <<Lookup(i)>>])

\* build_legacy_message, build_v0_message and build_v0_message_multi.
Compile(job, view) ==
  LET static == StaticKeys(job, view)
      order  == static.keys \o LoadedKeys(job, view)
      Number(k) == (CHOOSE i \in DOMAIN order : order[i] = k) - 1
  IN [signers |-> 1 + Len(static.groups[1]) + Len(static.groups[2]),
      roSigned |-> Len(static.groups[2]), roUnsigned |-> Len(static.groups[4]),
      keys |-> static.keys,
      ixs |-> [i \in DOMAIN job.ixs |->
                [prog |-> Number(job.ixs[i].prog),
                 accts |-> [j \in DOMAIN job.ixs[i].metas |-> Number(job.ixs[i].metas[j].key)],
                 data |-> job.ixs[i].data]],
      lookups |-> IF job.layout = "legacy" THEN <<>> ELSE Lookups(job, view)]

---------------------------------------------------------------------------
\* The wire.

\* encode_compact_u16 and decode_compact_u16: seven bits a byte, three at most.
U16 == 65536
Encode(n) ==
  CASE n < 128       -> <<n>>
    [] n >= 128 /\ n < 128 * 128 -> <<(n % 128) + 128, n \div 128>>
    [] OTHER         -> <<(n % 128) + 128, ((n \div 128) % 128) + 128, (n \div 128) \div 128>>
Decode(s) ==
  LET ends == {i \in 1..Min({3, Len(s)}) : (\A j \in 1..i - 1 : s[j] >= 128) /\ s[i] < 128}
      Bits(i, unit) == IF i <= Min(ends) THEN (s[i] % 128) * unit ELSE 0
  IN IF ends = {} THEN [ok |-> FALSE, len |-> 0, val |-> 0]
     ELSE [ok |-> TRUE, len |-> Min(ends),
           val |-> (Bits(1, 1) + Bits(2, 128) + Bits(3, 128 * 128)) % U16]

Counted(s) == Encode(Len(s)) \o s
SerializeIx(ix) == <<ix.prog>> \o Counted(ix.accts) \o Counted(ix.data)
SerializeLookup(l) == <<l.table>> \o Counted(l.writable) \o Counted(l.readonly)
Serialize(layout, m, hash) ==
  (IF layout = "legacy" THEN <<>> ELSE <<128>>)
  \o <<m.signers, m.roSigned, m.roUnsigned>> \o Counted(m.keys) \o <<hash>>
  \o Encode(Len(m.ixs)) \o FlattenSeq([i \in DOMAIN m.ixs |-> SerializeIx(m.ixs[i])])
  \o (IF layout = "legacy" THEN <<>>
      ELSE Encode(Len(m.lookups))
           \o FlattenSeq([i \in DOMAIN m.lookups |-> SerializeLookup(m.lookups[i])]))

Signature(key, body) == [by |-> key, over |-> body]

\* sign_legacy_tx_b64 and sign_v0_tx_b64 put the only signature in front;
\* sign_versioned_transaction_bytes fills the slot Jupiter left for it.
SignOwn(body) == Encode(1) \o <<Signature(Wallet, body)>> \o body
SignSlot(raw, signer) ==
  LET count == Decode(raw)
      body  == SubSeq(raw, count.len + count.val + 1, Len(raw))
  IN [raw EXCEPT ![count.len + signer + 1] = Signature(Wallet, body)]

\* What Jupiter answers for a swap: its own message, our signature left blank.
FromJupiter(body) == Encode(1) \o <<Signature(0, <<>>)>> \o body

WireOf(job, m, hash) ==
  LET body == Serialize(job.layout, m, hash)
  IN IF job.layout = "jupiter" THEN SignSlot(FromJupiter(body), 0) ELSE SignOwn(body)

---------------------------------------------------------------------------
\* What the validator reads (external: Solana's transaction format).

\* A vector is read at position p: [val, next].
ReadVec(s, p) ==
  LET n == Decode(SubSeq(s, p, Len(s)))
  IN [val |-> SubSeq(s, p + n.len, p + n.len + n.val - 1), next |-> p + n.len + n.val]
ReadIx(s, p) ==
  LET accts == ReadVec(s, p + 1)
      data  == ReadVec(s, accts.next)
  IN [val |-> [prog |-> s[p], accts |-> accts.val, data |-> data.val], next |-> data.next]
ReadLookup(s, p) ==
  LET w == ReadVec(s, p + 1)
      r == ReadVec(s, w.next)
  IN [val |-> [table |-> s[p], writable |-> w.val, readonly |-> r.val], next |-> r.next]
\* A counted list of things Read reads.
ReadAll(s, p, Read(_, _)) ==
  LET n == Decode(SubSeq(s, p, Len(s)))
      upTo[i \in 0..n.val] ==
        IF i = 0 THEN [val |-> <<>>, next |-> p + n.len]
        ELSE LET x == Read(s, upTo[i - 1].next)
             IN [val |-> Append(upTo[i - 1].val, x.val), next |-> x.next]
  IN upTo[n.val]

Parse(wire) ==
  LET sigs == Decode(wire)
      body == SubSeq(wire, sigs.len + sigs.val + 1, Len(wire))
      v0   == body[1] = 128
      h    == IF v0 THEN 1 ELSE 0
      keys == ReadVec(body, h + 4)
      ixs  == ReadAll(body, keys.next + 1, ReadIx)
      alts == IF v0 THEN ReadAll(body, ixs.next, ReadLookup)
              ELSE [val |-> <<>>, next |-> ixs.next]
  IN [signatures |-> SubSeq(wire, sigs.len + 1, sigs.len + sigs.val), body |-> body,
      signers |-> body[h + 1], roSigned |-> body[h + 2], roUnsigned |-> body[h + 3],
      keys |-> keys.val, hash |-> body[keys.next], ixs |-> ixs.val, lookups |-> alts.val,
      rest |-> Len(body) - alts.next + 1]

\* Every account of the transaction in the runtime's order.
Accounts(p) ==
  LET Load(side(_)) == FlattenSeq([i \in DOMAIN p.lookups |->
        [j \in DOMAIN side(p.lookups[i]) |-> entries[p.lookups[i].table][side(p.lookups[i])[j] + 1]]])
      W(l) == l.writable
      R(l) == l.readonly
      Signs(i) == i <= p.signers
      MayWrite(i) == \/ i <= p.signers - p.roSigned
                     \/ p.signers < i /\ i <= Len(p.keys) - p.roUnsigned
  IN [i \in DOMAIN p.keys |-> [key |-> p.keys[i], s |-> Signs(i), w |-> MayWrite(i)]]
     \o [i \in DOMAIN Load(W) |-> [key |-> Load(W)[i], s |-> FALSE, w |-> TRUE]]
     \o [i \in DOMAIN Load(R) |-> [key |-> Load(R)[i], s |-> FALSE, w |-> FALSE]]

\* The wire says what was asked: nothing is left over, no account appears
\* twice, who must sign did, and each instruction finds its program, its
\* accounts and their rights, and no more rights than somebody asked for.
Faithful(job, p, all) ==
  LET Names(ix) == [prog |-> all[ix.prog + 1].key,
                    accts |-> [j \in DOMAIN ix.accts |-> all[ix.accts[j] + 1].key], data |-> ix.data]
      Meant(ix) == [prog |-> ix.prog,
                    accts |-> [j \in DOMAIN ix.metas |-> ix.metas[j].key], data |-> ix.data]
  IN /\ p.rest = 0
     /\ Len(p.signatures) = p.signers
     /\ \A i \in DOMAIN p.signatures : p.signatures[i] = Signature(all[i].key, p.body)
     /\ all[1].key = Wallet /\ all[1].w
     /\ \A i, j \in DOMAIN all : all[i].key = all[j].key => i = j
     /\ {all[i].key : i \in DOMAIN all} = Mentioned(job.ixs) \cup {Wallet}
     /\ [i \in DOMAIN p.ixs |-> Names(p.ixs[i])] = [i \in DOMAIN job.ixs |-> Meant(job.ixs[i])]
     /\ \A i \in DOMAIN all :
          /\ all[i].s = Asked(job.ixs, all[i].key, "s")
          /\ all[i].w => Asked(job.ixs, all[i].key, "w")
          /\ Asked(job.ixs, all[i].key, "w") => all[i].w \/ all[i].key \in Programs(job.ixs)

---------------------------------------------------------------------------
AsmInit ==
  /\ altNow = 0
  /\ \E done \in 0..Len(Batches) - 1 :   \* ALT_RESUME and ALT_SKIP_BATCHES
       /\ entries = [OldEntries EXCEPT ![Grown] = @ \o FlattenSeq(SubSeq(Batches, 1, done))]
       /\ deploy = [phase |-> "sending", batch |-> done + 1, try |-> 1, hash |-> 0]
  /\ extends = {}
  /\ toolHash = Unread
  /\ altView = [t \in AltTables |-> Unread]
  /\ botHash \in {Unread, 0}
  /\ signed = Unsigned

AltTick ==
  /\ altNow < MaxAltTime
  /\ altNow' = altNow + 1
  /\ UNCHANGED <<entries, deployVars, botVars>>

\* fetch_latest_blockhash: the cached one while it is younger than its TTL. A
\* blockhash is the time it was fetched.
Blockhash(cache) == IF cache # Unread /\ altNow - cache < HashTtl THEN cache ELSE altNow

\* The tool signs an ExtendLookupTable and sends it; an error of the request
\* says nothing about its delivery, so only the transactions that may land are
\* kept. Resent under the same blockhash it is the same transaction.
DeploySend ==
  /\ deploy.phase = "sending"
  /\ toolHash' = Blockhash(toolHash)
  /\ \E delivered \in BOOLEAN, replied \in BOOLEAN :
       /\ extends' = IF delivered /\ ~\E x \in extends : x.batch = deploy.batch /\ x.hash = toolHash'
                     THEN extends \cup {[batch |-> deploy.batch, hash |-> toolHash', done |-> FALSE]}
                     ELSE extends
       /\ deploy' = [deploy EXCEPT !.phase = IF replied THEN "confirming" ELSE "failed_try", !.hash = toolHash']
  /\ UNCHANGED <<altNow, entries, botVars>>

ExtendLands(x) ==
  /\ ~x.done /\ altNow - x.hash <= HashLife
  /\ entries' = [entries EXCEPT ![Grown] = @ \o Batches[x.batch]]
  /\ extends' = (extends \ {x}) \cup {[x EXCEPT !.done = TRUE]}
  /\ UNCHANGED <<altNow, deploy, toolHash, botVars>>

NextBatch ==
  IF deploy.batch = Len(Batches) THEN [deploy EXCEPT !.phase = "deployed"]
  ELSE [deploy EXCEPT !.phase = "sending", !.batch = @ + 1, !.try = 1]
DeployConfirmed ==
  /\ deploy.phase = "confirming"
  /\ \E x \in extends : x.batch = deploy.batch /\ x.hash = deploy.hash /\ x.done
  /\ deploy' = NextBatch
  /\ UNCHANGED <<altNow, entries, extends, toolHash, botVars>>

\* A request for the status fails, or the deadline passes.
DeployUnconfirmed ==
  /\ deploy.phase = "confirming"
  /\ deploy' = [deploy EXCEPT !.phase = "failed_try"]
  /\ UNCHANGED <<altNow, entries, extends, toolHash, botVars>>
DeployRetries ==
  /\ deploy.phase = "failed_try"
  /\ deploy' = IF deploy.try < DeployTries THEN [deploy EXCEPT !.phase = "sending", !.try = @ + 1]
               ELSE [deploy EXCEPT !.phase = "gave_up"]
  /\ UNCHANGED <<altNow, entries, extends, toolHash, botVars>>

\* A OnceCell keeps what it read, or the empty list after a failed request, for
\* good; ALT_CACHE keeps what it read for its TTL and nothing after a failure.
Kept(t) == altView[t] # Unread /\ (t \in Forever \/ altNow - altView[t].at < AltTtl)
ResolveAlt(t) ==
  /\ ~Kept(t)
  /\ \E keys \in {entries[t]} \cup (IF t \in Forever THEN {<<>>} ELSE {}) :
       altView' = [altView EXCEPT ![t] = [at |-> altNow, keys |-> keys]]
  /\ UNCHANGED <<altNow, entries, deployVars, botHash, signed>>

\* A builder resolves the tables of its job before it compiles. A message that
\* needs another signer is refused. One transaction per behaviour.
BuildAndSign(job) ==
  /\ signed = Unsigned
  /\ \A t \in Range(job.tables) : Kept(t)
  /\ botHash' = Blockhash(botHash)
  /\ LET view == [t \in AltTables |-> IF t \in Range(job.tables) THEN altView[t].keys ELSE <<>>]
         m == Compile(job, view)
     IN signed' = IF m.signers # 1 THEN Unsigned
                  ELSE [job |-> job, hash |-> botHash', wire |-> WireOf(job, m, botHash')]
  /\ UNCHANGED <<altNow, entries, deployVars, altView>>

AsmNext ==
  \/ AltTick \/ DeploySend \/ DeployConfirmed \/ DeployUnconfirmed \/ DeployRetries
  \/ \E x \in extends : ExtendLands(x)
  \/ \E t \in AltTables : ResolveAlt(t)
  \/ \E job \in Jobs : BuildAndSign(job)

AsmSpec == AsmInit /\ [][AsmNext]_asmVars

---------------------------------------------------------------------------
CompactSamples == {0, 1, 127, 128, 16383, 16384, 65535}
LengthsSurvive ==
  \A n \in CompactSamples : Decode(Encode(n)) = [ok |-> TRUE, len |-> Len(Encode(n)), val |-> n]

\* However the tables grew between the moment they were read and the moment the
\* validator loads them, with batches appended twice or out of order, a signed
\* transaction is read as the instructions that were meant, with the rights they
\* ask for and under the blockhash it was built with; when the tool reports
\* success the table holds every batch; and lengths survive their encoding.
AssemblySound ==
  /\ signed # Unsigned =>
       LET AsMeant(read) == Faithful(signed.job, read, Accounts(read)) /\ read.hash = signed.hash
       IN  AsMeant(Parse(signed.wire))
  /\ deploy.phase = "deployed" =>
       UNION {Range(Batches[b]) : b \in DOMAIN Batches} \subseteq Range(entries[Grown])
  /\ LengthsSurvive
=============================================================================
