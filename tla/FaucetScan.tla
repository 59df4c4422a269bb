----------------------------- MODULE FaucetScan ----------------------------
(***************************************************************************)
(* EsploraClient.FaucetUTXOs (powcoins/esplora.go) between the TipHeight   *)
(* BuildClaim asks for first and the height filter it applies afterwards   *)
(* (claim.go): paged histories of the faucet addresses are read one after  *)
(* the other, while transactions keep confirming, and the unspent outputs  *)
(* are derived from them.                                                  *)
(*                                                                         *)
(* The chain is the sequence of confirmed transactions that touch a faucet *)
(* script, one per block: a transaction's index is its identifier and its  *)
(* block's height.  A coin is the pair of the transaction that made it and *)
(* the script it pays, of which a transaction pays each at most once.  The *)
(* Esplora server is external: it answers with the newest transactions of  *)
(* an address, or those that come before the last one seen.                *)
(***************************************************************************)
EXTENDS Integers, FiniteSets, Sequences

CONSTANTS
    NumScripts,   \* faucet scripts, 3 in the code
    PageSize,     \* transactions on a full page, 25 in the code
    PageOptions,  \* values of ClaimOptions.MaxPages
    MaxChain,     \* bound on the number of transactions
    MaxInputs     \* bound on the faucet coins a transaction spends

ASSUME NumScriptsAssumption == NumScripts \in Nat \ {0}
ASSUME PageSizeAssumption == PageSize \in Nat \ {0}
ASSUME PageOptionsAssumption == PageOptions \subseteq Nat \ {0}
ASSUME MaxChainAssumption == MaxChain \in Nat
ASSUME MaxInputsAssumption == MaxInputs \in Nat

ScriptIds == 1..NumScripts

TxIds == 1..MaxChain

CoinIds == TxIds \X ScriptIds

\* What the scan reads of a transaction: the faucet coins it spends and the
\* faucet scripts it pays.
Tx == [ins : SUBSET CoinIds, outs : SUBSET ScriptIds]

VARIABLES
    chain,       \* the confirmed transactions
    maxPages,    \* ClaimOptions.MaxPages
    phase,       \* "tip", "scan", then "done" or "failed"
    tip,         \* the height TipHeight returned
    script,      \* the script whose history is being read
    page,        \* pages of it read
    lastSeen,    \* the last transaction of the last page, 0 for none
    funded,      \* outputs that pay a faucet script
    spent,       \* outputs that an input spends
    utxos,       \* what FaucetUTXOs returned
    truncated    \* history: the scripts left at the page limit, not at a short page

progress == <<phase, tip, script, page, lastSeen, funded, spent, utxos, truncated>>
vars == <<chain, maxPages, progress>>

Init ==
    /\ chain = <<>>
    /\ maxPages \in PageOptions
    /\ phase = "tip"
    /\ tip = 0
    /\ script = 1
    /\ page = 0
    /\ lastSeen = 0
    /\ funded = {}
    /\ spent = {}
    /\ utxos = {}
    /\ truncated = {}

(***************************************************************************)
(* The chain                                                               *)
(***************************************************************************)

CoinsMadeBy(i) == {<<i, s>> : s \in chain[i].outs}

Made == UNION {CoinsMadeBy(i) : i \in DOMAIN chain}

Used == UNION {chain[i].ins : i \in DOMAIN chain}

\* A transaction confirms that spends some of the unspent coins, or pays some
\* of the scripts.  What confirms once the scan has ended is nobody's concern.
Confirm(ins, outs) ==
    /\ phase \in {"tip", "scan"}
    /\ Len(chain) < MaxChain
    /\ ins # {} \/ outs # {}
    /\ Cardinality(ins) <= MaxInputs
    /\ chain' = Append(chain, [ins |-> ins, outs |-> outs])
    /\ UNCHANGED <<maxPages, progress>>

(***************************************************************************)
(* The server                                                              *)
(***************************************************************************)

Touches(tx, s) == s \in tx.outs \/ \E c \in tx.ins : c[2] = s

History(s) == {i \in DOMAIN chain : Touches(chain[i], s)}

\* /address/<s>/txs/chain, or with /<last>: everything older than that.
Older(s, last) == {i \in History(s) : last = 0 \/ i < last}

\* The newest transactions of "older", as many as fit on a page.
IsPage(txs, older) ==
    /\ txs \subseteq older
    /\ \A i \in txs, j \in older \ txs : j < i
    /\ IF Cardinality(older) <= PageSize THEN txs = older
       ELSE Cardinality(txs) = PageSize

(***************************************************************************)
(* The client                                                              *)
(***************************************************************************)

ReadTip ==
    /\ phase = "tip"
    /\ tip' = Len(chain)
    /\ phase' = "scan"
    /\ UNCHANGED <<chain, maxPages, script, page, lastSeen, funded, spent, utxos, truncated>>

\* Mutation: only the inputs that spend the script being read are recorded.
RecordOwnInputs(txs) ==
    /\ spent' = spent \cup {c \in UNION {chain[i].ins : i \in txs} : c[2] < script}
    /\ funded' = funded \cup UNION {CoinsMadeBy(i) : i \in txs}

\* Mutation: only the outputs of transactions without faucet inputs.
RecordFirstOutputs(txs) ==
    /\ spent' = spent \cup UNION {chain[i].ins : i \in txs}
    /\ funded' = funded \cup UNION {CoinsMadeBy(i) : i \in {j \in txs : chain[j].ins = {}}}

\* The two loops over the transactions of a page.
Record(txs) ==
    /\ spent' = spent \cup UNION {chain[i].ins : i \in txs}
    /\ funded' = funded \cup UNION {CoinsMadeBy(i) : i \in txs}

\* Mutation: the loop goes on after a short page, and past maxPages.
MorePagesAlways(txs) == txs # {}

\* The history of the script may go on: a full page, and pages left.
MorePages(txs) ==
    /\ Cardinality(txs) = PageSize
    /\ page + 1 < maxPages

\* Mutation: the same page is asked for again, for ever.
NextPageForgotten(txs) ==
    /\ UNCHANGED <<page, lastSeen, script, truncated>>

\* The next request starts behind the last transaction of this page.
NextPage(txs) ==
    /\ page' = page + 1
    /\ \E oldest \in txs :
          /\ \A i \in txs : oldest <= i
          /\ lastSeen' = oldest
    /\ UNCHANGED <<script, truncated>>

NextScript(txs) ==
    /\ script' = script + 1
    /\ page' = 0
    /\ lastSeen' = 0
    /\ truncated' = IF Cardinality(txs) = PageSize THEN truncated \cup {script}
                    ELSE truncated

\* One request and the processing of its answer.
ReadPage ==
    /\ phase = "scan"
    /\ script \in ScriptIds
    /\ \E txs \in SUBSET Older(script, lastSeen) :
          /\ IsPage(txs, Older(script, lastSeen))
          /\ Record(txs)
          /\ IF MorePages(txs)
             THEN NextPage(txs)
             ELSE NextScript(txs)
    /\ UNCHANGED <<chain, maxPages, phase, tip, utxos>>

\* All scripts are read: the spent outputs are taken out of the funded ones.
Derive ==
    /\ phase = "scan"
    /\ script \notin ScriptIds
    /\ utxos' = funded \ spent
    /\ phase' = "done"
    /\ UNCHANGED <<chain, maxPages, tip, script, page, lastSeen, funded, spent, truncated>>

\* A request fails, is answered with an error, or cannot be decoded.
RequestFails ==
    /\ phase \in {"tip", "scan"}
    /\ phase' = "failed"
    /\ UNCHANGED <<chain, maxPages, tip, script, page, lastSeen, funded, spent, utxos, truncated>>

Client == ReadTip \/ ReadPage \/ Derive

Next ==
    \/ \E ins \in SUBSET (Made \ Used), outs \in SUBSET ScriptIds : Confirm(ins, outs)
    \/ Client
    \/ RequestFails

\* The scan does not stand still: every request is answered, fails, or times
\* out after the client's 30 s.  Nothing makes a request fail.
Spec == Init /\ [][Next]_vars /\ WF_vars(Client)

(***************************************************************************)
(* Properties                                                              *)
(***************************************************************************)

\* The values the variables take: what is recorded exists, and the pages read
\* of a history stay below the limit (the locals of esplora.go:86).
TypeOK ==
    /\ chain \in Seq(Tx)
    /\ Len(chain) <= MaxChain
    /\ maxPages \in PageOptions
    /\ phase \in {"tip", "scan", "done", "failed"}
    /\ tip \in 0..Len(chain)
    /\ script \in 1..(NumScripts + 1)
    /\ page \in 0..(maxPages - 1)
    /\ lastSeen \in 0..Len(chain)
    /\ funded \subseteq Made
    /\ spent \subseteq Used
    /\ utxos \subseteq Made
    /\ truncated \subseteq ScriptIds

\* The coins BuildClaim goes on with: those not above the tip (claim.go:139).
Offered == {c \in utxos : c[1] <= tip}

\* The coins spent by the transactions up to a height.
UsedUpTo(h) == UNION {chain[i].ins : i \in {j \in DOMAIN chain : j <= h}}

\* The transaction touches no script but s.
TouchesOnly(tx, s) == \A r \in ScriptIds : Touches(tx, r) => r = s

\* A coin that is offered was unspent when the tip was read, although the
\* histories are read one after the other while transactions confirm: provided
\* that its script was read to the end, or that the transaction that made it
\* is in no other history (esplora.go:99 and the filter at claim.go:139).
OfferedWasUnspent ==
    phase = "done" =>
        \A c \in Offered :
            \/ c[2] \notin truncated
            \/ TouchesOnly(chain[c[1]], c[2])
            => c \notin UsedUpTo(tip)

\* No coin is lost: an output of a script that was read to the end, confirmed
\* when the tip was read and still unspent, is offered (esplora.go:148).
UnspentIsOffered ==
    phase = "done" =>
        \A c \in Made \ Used :
            c[1] <= tip /\ c[2] \notin truncated => c \in Offered

\* The scan ends, however fast the histories grow (esplora.go:101).
Terminates == <>(phase \in {"done", "failed"})

(***************************************************************************)
(* The inductive strengthening                                             *)
(***************************************************************************)

\* The scan has taken in transaction i.
Recorded(i) == chain[i].ins \subseteq spent /\ CoinsMadeBy(i) \subseteq funded

\* Coins are spent after they are made.
SpentLater ==
    \A i \in DOMAIN chain : \A c \in chain[i].ins :
        c[1] \in 1..(i - 1) /\ c[2] \in chain[c[1]].outs

NothingReadYet ==
    phase = "tip" => script = 1 /\ lastSeen = 0 /\ funded = {} /\ spent = {}

Derived == phase = "done" => script \notin ScriptIds /\ utxos = funded \ spent

\* What was confirmed when the tip was read is recorded: the histories that
\* were read to the end, and the present one down to the last one seen.
ScriptsRead ==
    \A s \in ScriptIds \ truncated : s < script =>
        \A i \in History(s) : i <= tip => Recorded(i)

PagesRead ==
    lastSeen # 0 =>
        \A i \in History(script) : lastSeen <= i /\ i <= tip => Recorded(i)

\* Whatever is newer than a recorded output in its only history is recorded.
NewerRead ==
    \A c \in funded : TouchesOnly(chain[c[1]], c[2]) =>
        \A i \in History(c[2]) : c[1] < i /\ i <= tip => Recorded(i)

IInv ==
    /\ TypeOK
    /\ SpentLater
    /\ NothingReadYet
    /\ Derived
    /\ ScriptsRead
    /\ PagesRead
    /\ NewerRead

(***************************************************************************)
(* What the repository says and the code does not do                       *)
(***************************************************************************)

\* "the CLI scans paged address history and derives unspent outputs locally"
\* (README.md:64): an output the scan reports is not one that was spent before
\* the scan began.
DerivesUnspentOutputs == phase = "done" => Offered \cap UsedUpTo(tip) = {}
=============================================================================
