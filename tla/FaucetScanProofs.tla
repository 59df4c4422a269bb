-------------------------- MODULE FaucetScanProofs -------------------------
(***************************************************************************)
(* Proofs about FaucetScan, for every number of scripts, page size and     *)
(* page limit: a coin that is offered was unspent at the tip, and no coin  *)
(* of a history that was read to the end is lost.                          *)
(***************************************************************************)
EXTENDS FaucetScan, FiniteSetTheorems, TLAPS

\* The invariant holds before the tip is read.
LEMMA InvariantInitially == Init => IInv
<1> SUFFICES ASSUME Init PROVE IInv
  OBVIOUS
<1>1. chain \in Seq(Tx) /\ Len(chain) = 0 /\ DOMAIN chain = {}
  BY DEF Init
<1>2. 1 \in 1..(NumScripts + 1) /\ maxPages \in Nat \ {0}
  BY NumScriptsAssumption, PageOptionsAssumption DEF Init
<1>3. TypeOK
  BY <1>1, <1>2, MaxChainAssumption DEF Init, TypeOK
<1>4. SpentLater /\ NothingReadYet /\ Derived
  BY <1>1 DEF Init, SpentLater, NothingReadYet, Derived
<1>5. ScriptsRead /\ PagesRead /\ NewerRead
  BY <1>1 DEF Init, ScriptsRead, PagesRead, NewerRead, History
<1> QED
  BY <1>3, <1>4, <1>5 DEF IInv

\* What a confirmed transaction leaves as it was.
LEMMA ChainGrows ==
  ASSUME IInv, NEW ins \in SUBSET (Made \ Used), NEW outs \in SUBSET ScriptIds,
         Confirm(ins, outs)
  PROVE  /\ chain' \in Seq(Tx)
         /\ Len(chain') = Len(chain) + 1
         /\ DOMAIN chain' = 1..(Len(chain) + 1)
         /\ DOMAIN chain = 1..Len(chain)
         /\ \A i \in DOMAIN chain : chain'[i] = chain[i]
         /\ chain'[Len(chain) + 1] = [ins |-> ins, outs |-> outs]
         /\ \A c \in ins : c[1] \in DOMAIN chain /\ c[2] \in chain[c[1]].outs
<1>1. chain \in Seq(Tx) /\ Len(chain) < MaxChain
  BY DEF IInv, TypeOK, Confirm
<1>2. \A c \in ins : c[1] \in DOMAIN chain /\ c[2] \in chain[c[1]].outs /\ c = <<c[1], c[2]>>
  BY DEF Made, CoinsMadeBy
<1>3. ins \in SUBSET CoinIds
  <2> SUFFICES ASSUME NEW c \in ins PROVE c \in CoinIds
    OBVIOUS
  <2>1. c[1] \in 1..Len(chain) /\ chain[c[1]] \in Tx
    BY <1>1, <1>2
  <2>2. c[1] \in TxIds /\ c[2] \in ScriptIds
    BY <2>1, <1>1, <1>2, MaxChainAssumption DEF TxIds, Tx
  <2> QED
    BY <2>2, <1>2 DEF CoinIds
<1>4. [ins |-> ins, outs |-> outs] \in Tx
  BY <1>3 DEF Tx
<1> QED
  BY <1>1, <1>2, <1>4 DEF Confirm

\* A transaction that confirms while the scan runs disturbs nothing: it is
\* newer than the tip that was read.
LEMMA ConfirmKeeps ==
  ASSUME IInv, NEW ins \in SUBSET (Made \ Used), NEW outs \in SUBSET ScriptIds,
         Confirm(ins, outs)
  PROVE  IInv'
<1> DEFINE top == Len(chain) + 1
<1>1. UNCHANGED <<maxPages, phase, tip, script, page, lastSeen, funded, spent, utxos, truncated>>
      /\ Len(chain) < MaxChain
  BY DEF Confirm, progress
<1>2. /\ chain' \in Seq(Tx) /\ Len(chain') = top
      /\ DOMAIN chain' = 1..top /\ DOMAIN chain = 1..Len(chain)
      /\ \A i \in DOMAIN chain : chain'[i] = chain[i]
      /\ chain'[top] = [ins |-> ins, outs |-> outs]
      /\ \A c \in ins : c[1] \in DOMAIN chain /\ c[2] \in chain[c[1]].outs
  BY ChainGrows
<1>3. Len(chain) \in Nat /\ tip \in 0..Len(chain) /\ lastSeen \in 0..Len(chain)
  BY DEF IInv, TypeOK
<1>4. \A i \in DOMAIN chain : CoinsMadeBy(i)' = CoinsMadeBy(i)
  BY <1>2 DEF CoinsMadeBy
<1>5. Made \subseteq Made' /\ Used \subseteq Used'
  <2>1. DOMAIN chain \subseteq DOMAIN chain'
    BY <1>2, <1>3
  <2> QED
    BY <2>1, <1>2, <1>4 DEF Made, Used
<1>6. TypeOK'
  <2>1. chain' \in Seq(Tx) /\ Len(chain') <= MaxChain
    BY <1>1, <1>2, <1>3, MaxChainAssumption
  <2>2. tip' \in 0..Len(chain') /\ lastSeen' \in 0..Len(chain')
    BY <1>1, <1>2, <1>3
  <2>3. funded' \subseteq Made' /\ spent' \subseteq Used' /\ utxos' \subseteq Made'
    BY <1>1, <1>5 DEF IInv, TypeOK
  <2> QED
    BY <1>1, <2>1, <2>2, <2>3 DEF IInv, TypeOK
<1>7. SpentLater'
  <2> SUFFICES ASSUME NEW i \in DOMAIN chain', NEW c \in chain'[i].ins
               PROVE  c[1] \in 1..(i - 1) /\ c[2] \in chain'[c[1]].outs
    BY DEF SpentLater
  <2>1. CASE i = top
    <3>1. c \in ins
      BY <2>1, <1>2
    <3>2. c[1] \in 1..Len(chain) /\ c[2] \in chain[c[1]].outs
      BY <3>1, <1>2
    <3> QED
      BY <2>1, <3>2, <1>2, <1>3
  <2>2. CASE i \in DOMAIN chain
    <3>1. c[1] \in 1..(i - 1) /\ c[2] \in chain[c[1]].outs
      BY <2>2, <1>2 DEF IInv, SpentLater
    <3>2. c[1] \in DOMAIN chain
      BY <3>1, <2>2, <1>2, <1>3
    <3> QED
      BY <3>1, <3>2, <1>2
  <2> QED
    BY <2>1, <2>2, <1>2, <1>3
<1>8. NothingReadYet' /\ Derived'
  BY <1>1 DEF IInv, NothingReadYet, Derived
<1>9. \A i \in DOMAIN chain' : i <= tip =>
          i \in DOMAIN chain /\ chain'[i] = chain[i] /\ (Recorded(i) => Recorded(i)')
  <2> SUFFICES ASSUME NEW i \in DOMAIN chain', i <= tip
               PROVE  i \in DOMAIN chain /\ chain'[i] = chain[i] /\ (Recorded(i) => Recorded(i)')
    OBVIOUS
  <2>1. i \in DOMAIN chain
    BY <1>2, <1>3
  <2> QED
    BY <2>1, <1>1, <1>2, <1>4 DEF Recorded
<1>10. ScriptsRead'
  <2> SUFFICES ASSUME NEW s \in ScriptIds \ truncated, s < script,
                      NEW i \in DOMAIN chain', Touches(chain'[i], s), i <= tip
               PROVE  Recorded(i)'
    BY <1>1 DEF ScriptsRead, History
  <2> QED
    BY <1>9 DEF IInv, ScriptsRead, History
<1>11. PagesRead'
  <2> SUFFICES ASSUME lastSeen # 0, NEW i \in DOMAIN chain', Touches(chain'[i], script),
                      lastSeen <= i, i <= tip
               PROVE  Recorded(i)'
    BY <1>1 DEF PagesRead, History
  <2> QED
    BY <1>9 DEF IInv, PagesRead, History
<1>12. NewerRead'
  <2> SUFFICES ASSUME NEW c \in funded, TouchesOnly(chain'[c[1]], c[2]),
                      NEW i \in DOMAIN chain', Touches(chain'[i], c[2]), c[1] < i, i <= tip
               PROVE  Recorded(i)'
    BY <1>1 DEF NewerRead, History
  <2>1. c[1] \in DOMAIN chain
    BY DEF IInv, TypeOK, Made, CoinsMadeBy
  <2>2. TouchesOnly(chain[c[1]], c[2])
    BY <2>1, <1>2
  <2> QED
    BY <2>2, <1>9 DEF IInv, NewerRead, History
<1> QED
  BY <1>6, <1>7, <1>8, <1>10, <1>11, <1>12 DEF IInv

\* What a page holds: the newest of the older transactions, and all of them
\* unless the page is full.
LEMMA PageParts ==
  ASSUME IInv, script \in ScriptIds, NEW txs \in SUBSET Older(script, lastSeen),
         IsPage(txs, Older(script, lastSeen))
  PROVE  /\ txs \subseteq History(script)
         /\ \A i \in History(script) : i \in txs \/ (lastSeen # 0 /\ lastSeen <= i)
                                           \/ (\A k \in txs : i < k)
         /\ Cardinality(txs) # PageSize => Older(script, lastSeen) = txs
<1>1. lastSeen \in Nat /\ DOMAIN chain \subseteq Nat
  BY DEF IInv, TypeOK
<1>2. \A i \in History(script) : i \in Nat
  BY <1>1 DEF History
<1> QED
  BY <1>1, <1>2 DEF Older, IsPage

\* After a page, whatever of this history is as new as one of its transactions
\* is recorded.
LEMMA PageRecorded ==
  ASSUME IInv, script \in ScriptIds, NEW txs \in SUBSET Older(script, lastSeen),
         IsPage(txs, Older(script, lastSeen)), Record(txs), UNCHANGED <<chain, tip>>
  PROVE  /\ \A i \in DOMAIN chain : Recorded(i) => Recorded(i)'
         /\ \A i \in txs : Recorded(i)'
         /\ \A k \in txs : \A i \in History(script) :
                k <= i /\ i <= tip => Recorded(i)'
<1>1. \A i : CoinsMadeBy(i)' = CoinsMadeBy(i)
  BY DEF CoinsMadeBy
<1>2. \A i \in DOMAIN chain : Recorded(i) => Recorded(i)'
  BY <1>1 DEF Recorded, Record
<1>3. \A i \in txs : Recorded(i)'
  BY <1>1 DEF Recorded, Record
<1>4. ASSUME NEW k \in txs, NEW i \in History(script), k <= i, i <= tip
      PROVE  Recorded(i)'
  <2>1. i \in DOMAIN chain /\ i \in Nat /\ k \in Nat
    BY DEF IInv, TypeOK, History, Older
  <2>2. CASE i \in txs
    BY <2>2, <1>3
  <2>3. CASE lastSeen # 0 /\ lastSeen <= i
    BY <2>1, <2>3, <1>2, <1>4 DEF IInv, PagesRead
  <2>4. CASE \A j \in txs : i < j
    BY <2>1, <2>4, <1>4
  <2> QED
    BY <2>2, <2>3, <2>4, PageParts
<1> QED
  BY <1>2, <1>3, <1>4

\* A page keeps the invariant: the next page starts where this one ended, and
\* a history left at a short page is recorded down to its first transaction.
LEMMA ReadPageKeeps == IInv /\ ReadPage => IInv'
<1> SUFFICES ASSUME IInv, phase = "scan", script \in ScriptIds,
                    NEW txs \in SUBSET Older(script, lastSeen),
                    IsPage(txs, Older(script, lastSeen)), Record(txs),
                    IF MorePages(txs) THEN NextPage(txs) ELSE NextScript(txs),
                    UNCHANGED <<chain, maxPages, phase, tip, utxos>>
             PROVE  IInv'
  BY DEF ReadPage
<1>1. /\ chain \in Seq(Tx) /\ Len(chain) \in Nat /\ DOMAIN chain = 1..Len(chain)
      /\ tip \in Nat /\ lastSeen \in Nat /\ script \in Nat /\ NumScripts \in Nat \ {0}
      /\ maxPages \in Nat \ {0} /\ page \in Nat
  BY NumScriptsAssumption, PageOptionsAssumption DEF IInv, TypeOK
<1>2. /\ \A i \in DOMAIN chain : Recorded(i) => Recorded(i)'
      /\ \A i \in txs : Recorded(i)'
      /\ \A k \in txs : \A i \in History(script) : k <= i /\ i <= tip => Recorded(i)'
  BY PageRecorded
<1>3. txs \subseteq DOMAIN chain /\ History(script) \subseteq DOMAIN chain
  BY DEF Older, History
<1>4. Made' = Made /\ Used' = Used
  BY DEF Made, Used, CoinsMadeBy
<1>5. funded' \subseteq Made /\ spent' \subseteq Used
  BY <1>3 DEF Record, IInv, TypeOK, Made, Used
<1>6. SpentLater' /\ NothingReadYet' /\ Derived'
  BY DEF IInv, SpentLater, NothingReadYet, Derived
<1>7. NewerRead'
  <2> SUFFICES ASSUME NEW c \in funded', TouchesOnly(chain[c[1]], c[2]),
                      NEW i \in History(c[2]), c[1] < i, i <= tip
               PROVE  Recorded(i)'
    BY DEF NewerRead, History
  <2>1. i \in DOMAIN chain
    BY DEF History
  <2>2. CASE c \in funded
    BY <2>1, <2>2, <1>2 DEF IInv, NewerRead
  <2>3. CASE c \notin funded
    <3>1. PICK k \in txs : c \in CoinsMadeBy(k)
      BY <2>3 DEF Record
    <3>2. c[1] = k /\ k \in History(script)
      BY <3>1, PageParts DEF CoinsMadeBy
    <3>3. c[2] = script
      BY <3>2 DEF History, TouchesOnly
    <3>4. k <= i
      BY <3>2, <2>1, <1>1, <1>3
    <3> QED
      BY <3>3, <3>4, <1>2
  <2> QED
    BY <2>2, <2>3
<1>8. CASE MorePages(txs)
  <2>1. PICK oldest \in txs : lastSeen' = oldest
    BY <1>8 DEF NextPage
  <2>2. UNCHANGED <<script, truncated>> /\ page' = page + 1 /\ page + 1 < maxPages
    BY <1>8 DEF NextPage, MorePages
  <2>3. TypeOK'
    BY <1>1, <1>3, <1>4, <1>5, <2>1, <2>2 DEF IInv, TypeOK
  <2>4. ScriptsRead'
    <3> SUFFICES ASSUME NEW s \in ScriptIds \ truncated, s < script,
                        NEW i \in History(s), i <= tip
                 PROVE  Recorded(i)'
      BY <2>2 DEF ScriptsRead, History
    <3> QED
      BY <1>2 DEF IInv, ScriptsRead, History
  <2>5. PagesRead'
    <3> SUFFICES ASSUME NEW i \in History(script), oldest <= i, i <= tip
                 PROVE  Recorded(i)'
      BY <2>1, <2>2 DEF PagesRead, History
    <3> QED
      BY <1>2
  <2> QED
    BY <2>3, <2>4, <2>5, <1>6, <1>7 DEF IInv
<1>9. CASE ~MorePages(txs)
  <2>1. /\ script' = script + 1 /\ page' = 0 /\ lastSeen' = 0
        /\ truncated' = IF Cardinality(txs) = PageSize THEN truncated \cup {script}
                        ELSE truncated
    BY <1>9 DEF NextScript
  <2>2. TypeOK'
    <3>1. script' \in 1..(NumScripts + 1) /\ page' \in 0..(maxPages - 1)
      BY <2>1, <1>1 DEF ScriptIds
    <3>2. truncated' \subseteq ScriptIds
      BY <2>1 DEF IInv, TypeOK
    <3> QED
      BY <3>1, <3>2, <2>1, <1>1, <1>4, <1>5 DEF IInv, TypeOK
  <2>3. ScriptsRead'
    <3> SUFFICES ASSUME NEW s \in ScriptIds, s \notin truncated', s < script + 1,
                        NEW i \in History(s), i <= tip
                 PROVE  Recorded(i)'
      BY <2>1 DEF ScriptsRead, History
    <3>1. i \in DOMAIN chain /\ s \in Nat
      BY <1>1 DEF History, ScriptIds
    <3>2. CASE s < script
      BY <3>1, <3>2, <2>1, <1>2 DEF IInv, ScriptsRead
    <3>3. CASE s = script
      <4>1. Older(script, lastSeen) = txs
        BY <3>3, <2>1, PageParts
      <4>2. CASE i \in txs
        BY <4>2, <1>2
      <4>3. CASE i \notin txs
        <5>1. lastSeen # 0 /\ lastSeen <= i
          BY <4>1, <4>3, <3>1, <3>3, <1>1 DEF Older
        <5> QED
          BY <5>1, <3>1, <3>3, <1>2 DEF IInv, PagesRead
      <4> QED
        BY <4>2, <4>3
    <3> QED
      BY <3>1, <3>2, <3>3, <1>1
  <2>4. PagesRead'
    BY <2>1 DEF PagesRead
  <2> QED
    BY <2>2, <2>3, <2>4, <1>6, <1>7 DEF IInv
<1> QED
  BY <1>8, <1>9

\* The other steps of the client leave the record alone.
LEMMA OtherStepsKeep == IInv /\ (ReadTip \/ Derive \/ RequestFails \/ UNCHANGED vars) => IInv'
<1> SUFFICES ASSUME IInv, ReadTip \/ Derive \/ RequestFails \/ UNCHANGED vars
             PROVE  IInv'
  OBVIOUS
<1>1. UNCHANGED <<chain, maxPages, script, page, lastSeen, funded, spent, truncated>>
  BY DEF ReadTip, Derive, RequestFails, vars, progress
<1>2. Made' = Made /\ Used' = Used /\ Len(chain) \in Nat
  BY <1>1 DEF Made, Used, CoinsMadeBy, IInv, TypeOK
<1>3. TypeOK'
  BY <1>1, <1>2 DEF IInv, TypeOK, ReadTip, Derive, RequestFails, vars, progress
<1>4. SpentLater' /\ NothingReadYet' /\ Derived'
  BY <1>1 DEF IInv, SpentLater, NothingReadYet, Derived, ReadTip, Derive, RequestFails, vars, progress
<1>5. CASE phase = "tip" /\ funded = {}
  <2>1. script' = 1 /\ lastSeen' = 0 /\ funded' = {}
    BY <1>1, <1>5 DEF IInv, NothingReadYet
  <2>2. \A s \in ScriptIds : ~(s < 1)
    BY NumScriptsAssumption DEF ScriptIds
  <2> QED
    BY <1>3, <1>4, <2>1, <2>2 DEF IInv, ScriptsRead, PagesRead, NewerRead
<1>6. CASE phase # "tip"
  <2>1. tip' = tip
    BY <1>6 DEF ReadTip, Derive, RequestFails, vars, progress
  <2>2. ScriptsRead' /\ PagesRead' /\ NewerRead'
    BY <1>1, <2>1 DEF IInv, ScriptsRead, PagesRead, NewerRead, History, Recorded, CoinsMadeBy
  <2> QED
    BY <1>3, <1>4, <2>2 DEF IInv
<1> QED
  BY <1>5, <1>6 DEF IInv, NothingReadYet

\* The loops keep their invariant, whatever confirms while the scan runs.
THEOREM ScanInvariant == Spec => []IInv
<1>1. IInv /\ [Next]_vars => IInv'
  BY ConfirmKeeps, ReadPageKeeps, OtherStepsKeep DEF Next, Client
<1> QED
  BY <1>1, InvariantInitially, PTL DEF Spec

\* Type correctness (esplora.go:86).
THEOREM TypeCorrect == Spec => []TypeOK
<1>1. IInv => TypeOK
  BY DEF IInv
<1> QED
  BY <1>1, ScanInvariant, PTL

\* A coin that is offered was unspent when the tip was read, unless its script's
\* history was cut short and another history gave it away (esplora.go:99).
THEOREM OfferedIsUnspent == Spec => []OfferedWasUnspent
<1>1. IInv => OfferedWasUnspent
  <2> SUFFICES ASSUME IInv, phase = "done", NEW c \in Offered,
                      c[2] \notin truncated \/ TouchesOnly(chain[c[1]], c[2]),
                      NEW i \in DOMAIN chain, i <= tip, c \in chain[i].ins
               PROVE  FALSE
    BY DEF OfferedWasUnspent, UsedUpTo
  <2>1. c \in funded /\ c \notin spent
    BY DEF Offered, IInv, Derived
  <2>2. c[1] \in 1..(i - 1) /\ c[2] \in chain[c[1]].outs
    BY DEF IInv, SpentLater
  <2>3. i \in Nat /\ chain \in Seq(Tx) /\ script \in 1..(NumScripts + 1)
    BY DEF IInv, TypeOK
  <2>4. c[2] \in ScriptIds /\ i \in History(c[2])
    <3>1. c[1] \in DOMAIN chain
      BY <2>2, <2>3
    <3>2. chain[c[1]] \in Tx
      BY <3>1, <2>3
    <3> QED
      BY <3>2, <2>2 DEF Tx, History, Touches
  <2>5. CASE c[2] \notin truncated
    <3>1. c[2] < script
      BY <2>3, <2>4, NumScriptsAssumption DEF IInv, Derived, ScriptIds
    <3>2. Recorded(i)
      BY <3>1, <2>4, <2>5 DEF IInv, ScriptsRead
    <3> QED
      BY <3>2, <2>1 DEF Recorded
  <2>6. CASE TouchesOnly(chain[c[1]], c[2])
    <3>1. Recorded(i)
      BY <2>1, <2>2, <2>3, <2>4, <2>6 DEF IInv, NewerRead
    <3> QED
      BY <3>1, <2>1 DEF Recorded
  <2> QED
    BY <2>5, <2>6
<1> QED
  BY <1>1, ScanInvariant, PTL

\* No coin of a history that was read to the end is lost (esplora.go:148).
THEOREM NothingIsLost == Spec => []UnspentIsOffered
<1>1. IInv => UnspentIsOffered
  <2> SUFFICES ASSUME IInv, phase = "done", NEW c \in Made \ Used,
                      c[1] <= tip, c[2] \notin truncated
               PROVE  c \in Offered
    BY DEF UnspentIsOffered
  <2>1. PICK i \in DOMAIN chain : c \in CoinsMadeBy(i)
    BY DEF Made
  <2>2. c[1] = i /\ c[2] \in chain[i].outs /\ chain[i] \in Tx
    BY <2>1 DEF CoinsMadeBy, IInv, TypeOK
  <2>3. c[2] \in ScriptIds /\ i \in History(c[2])
    BY <2>2 DEF Tx, History, Touches
  <2>4. c[2] < script
    BY <2>3, NumScriptsAssumption DEF IInv, TypeOK, Derived, ScriptIds
  <2>5. Recorded(i)
    BY <2>2, <2>3, <2>4 DEF IInv, ScriptsRead
  <2>6. c \in funded /\ c \notin spent
    BY <2>1, <2>5 DEF Recorded, IInv, TypeOK
  <2> QED
    BY <2>6 DEF Offered, IInv, Derived
<1> QED
  BY <1>1, ScanInvariant, PTL

(***************************************************************************)
(* The page limit                                                          *)
(***************************************************************************)

\* The part of the history being read that the pages so far have covered.
Covered == {i \in History(script) : lastSeen <= i}

\* The pages so far were full ones, and so were all maxPages of a history that
\* was left at the limit.
LongHistories ==
    /\ page = 0 <=> lastSeen = 0
    /\ page > 0 => Cardinality(Covered) >= page * PageSize
    /\ \A s \in truncated : Cardinality(History(s)) >= maxPages * PageSize

\* A chain and its histories are finite.
LEMMA HistoriesAreFinite ==
  ASSUME TypeOK, NEW s
  PROVE  IsFiniteSet(History(s)) /\ \A T \in SUBSET History(s) : IsFiniteSet(T)
<1>1. DOMAIN chain = 1..Len(chain) /\ Len(chain) \in Nat
  BY DEF TypeOK
<1>2. IsFiniteSet(DOMAIN chain)
  BY <1>1, FS_Interval
<1> QED
  BY <1>2, FS_Subset DEF History

\* With a full page more, the covered part has grown by a page.
LEMMA FullPageCovered ==
  ASSUME IInv, LongHistories, script \in ScriptIds,
         NEW txs \in SUBSET Older(script, lastSeen), Cardinality(txs) = PageSize,
         NEW T \in SUBSET History(script), txs \subseteq T, Covered \subseteq T \/ page = 0
  PROVE  Cardinality(T) >= (page + 1) * PageSize
<1>1. page \in Nat /\ PageSize \in Nat \ {0} /\ lastSeen \in Nat
  BY PageSizeAssumption, PageOptionsAssumption DEF IInv, TypeOK
<1>2. txs \subseteq History(script) /\ Covered \subseteq History(script)
  BY DEF Older, Covered
<1>3. IsFiniteSet(T) /\ IsFiniteSet(txs) /\ IsFiniteSet(Covered)
  BY <1>2, HistoriesAreFinite DEF IInv
<1>4. CASE page = 0
  <2>1. Cardinality(txs) <= Cardinality(T) /\ Cardinality(T) \in Nat
    BY <1>3, FS_Subset, FS_CardinalityType
  <2>2. (page + 1) * PageSize = PageSize
    BY <1>1, <1>4
  <2> QED
    BY <2>1, <2>2, <1>1
<1>5. CASE page # 0
  <2>1. lastSeen # 0 /\ Cardinality(Covered) >= page * PageSize
    BY <1>1, <1>5 DEF LongHistories
  <2>2. txs \cap Covered = {}
    <3> SUFFICES ASSUME NEW i \in txs, i \in Covered PROVE FALSE
      OBVIOUS
    <3>1. i < lastSeen /\ lastSeen <= i /\ i \in Nat
      BY <2>1 DEF Older, Covered, History, IInv, TypeOK
    <3> QED
      BY <3>1, <1>1
  <2>3. Cardinality(txs \cup Covered) = Cardinality(txs) + Cardinality(Covered)
    <3>1. Cardinality(txs \cup Covered)
            = Cardinality(txs) + Cardinality(Covered) - Cardinality(txs \cap Covered)
      BY <1>3, FS_Union
    <3>2. Cardinality(txs) \in Nat /\ Cardinality(Covered) \in Nat
      BY <1>3, FS_CardinalityType
    <3>3. Cardinality(txs \cap Covered) = 0
      BY <2>2, FS_EmptySet
    <3> QED
      BY <3>1, <3>2, <3>3
  <2>4. Cardinality(txs \cup Covered) <= Cardinality(T)
    BY <1>3, <1>5, FS_Subset
  <2>5. (page + 1) * PageSize = page * PageSize + PageSize /\ page * PageSize \in Nat
    BY <1>1
  <2>6. Cardinality(Covered) \in Nat /\ Cardinality(T) \in Nat
    BY <1>3, FS_CardinalityType
  <2> QED
    BY <1>1, <2>1, <2>3, <2>4, <2>5, <2>6
<1> QED
  BY <1>4, <1>5

\* A page keeps the count of the full ones.
LEMMA ReadPageCounts == IInv /\ LongHistories /\ ReadPage => LongHistories'
<1> SUFFICES ASSUME IInv, LongHistories, script \in ScriptIds,
                    NEW txs \in SUBSET Older(script, lastSeen),
                    IF MorePages(txs) THEN NextPage(txs) ELSE NextScript(txs),
                    UNCHANGED <<chain, maxPages>>
             PROVE  LongHistories'
  BY DEF ReadPage
<1>1. page \in 0..(maxPages - 1) /\ maxPages \in Nat \ {0} /\ lastSeen \in Nat
  BY PageOptionsAssumption DEF IInv, TypeOK
<1>2. \A s : History(s)' = History(s)
  BY DEF History
<1>3. CASE MorePages(txs)
  <2>1. /\ page' = page + 1 /\ script' = script /\ truncated' = truncated
        /\ Cardinality(txs) = PageSize
    BY <1>3 DEF NextPage, MorePages
  <2>2. PICK oldest \in txs : (\A i \in txs : oldest <= i) /\ lastSeen' = oldest
    BY <1>3 DEF NextPage
  <2>3. oldest \in Nat /\ oldest # 0 /\ oldest \in History(script)
        /\ (lastSeen # 0 => oldest < lastSeen) /\ \A i \in History(script) : i \in Nat
    BY DEF Older, History, IInv, TypeOK
  <2>4. Covered' = {i \in History(script) : oldest <= i}
    BY <1>2, <2>1, <2>2 DEF Covered
  <2>5. Covered' \in SUBSET History(script) /\ txs \subseteq Covered'
    BY <2>2, <2>4 DEF Older
  <2>6. Covered \subseteq Covered' \/ page = 0
    <3> SUFFICES ASSUME page # 0, NEW i \in Covered PROVE i \in Covered'
      OBVIOUS
    <3>1. lastSeen # 0 /\ i \in History(script) /\ lastSeen <= i
      BY DEF LongHistories, Covered
    <3>2. i \in Nat /\ oldest \in Nat /\ oldest < lastSeen
      BY <3>1, <2>3
    <3> QED
      BY <3>1, <3>2, <2>4, <1>1
  <2>7. Cardinality(Covered') >= (page + 1) * PageSize
    <3> DEFINE T == Covered'
    <3>1. T \in SUBSET History(script) /\ txs \subseteq T /\ (Covered \subseteq T \/ page = 0)
      BY <2>5, <2>6
    <3> HIDE DEF T
    <3>2. Cardinality(T) >= (page + 1) * PageSize
      BY <2>1, <3>1, FullPageCovered
    <3> QED
      BY <3>2 DEF T
  <2> QED
    BY <1>1, <1>2, <2>1, <2>2, <2>3, <2>7 DEF LongHistories
<1>4. CASE ~MorePages(txs)
  <2>1. page' = 0 /\ lastSeen' = 0
        /\ truncated' = IF Cardinality(txs) = PageSize THEN truncated \cup {script} ELSE truncated
    BY <1>4 DEF NextScript
  <2>2. ASSUME Cardinality(txs) = PageSize
        PROVE  Cardinality(History(script)) >= maxPages * PageSize
    <3>1. page + 1 = maxPages
      BY <1>1, <1>4, <2>2 DEF MorePages
    <3>2. txs \subseteq History(script) /\ Covered \subseteq History(script)
      BY DEF Older, Covered
    <3>3. Cardinality(History(script)) >= (page + 1) * PageSize
      BY <2>2, <3>2, FullPageCovered
    <3> QED
      BY <3>1, <3>3
  <2> QED
    BY <1>2, <2>1, <2>2 DEF LongHistories
<1> QED
  BY <1>3, <1>4

\* So does a transaction that confirms: histories only get longer.
LEMMA ConfirmCounts ==
  ASSUME IInv, TypeOK', LongHistories,
         NEW ins \in SUBSET (Made \ Used), NEW outs \in SUBSET ScriptIds, Confirm(ins, outs)
  PROVE  LongHistories'
<1> DEFINE top == Len(chain) + 1
<1>0. /\ DOMAIN chain' = 1..top /\ DOMAIN chain = 1..Len(chain) /\ Len(chain) \in Nat
      /\ \A i \in DOMAIN chain : chain'[i] = chain[i]
  <2>1. DOMAIN chain' = 1..top /\ DOMAIN chain = 1..Len(chain)
        /\ \A i \in DOMAIN chain : chain'[i] = chain[i]
    BY ChainGrows
  <2>2. Len(chain) \in Nat
    BY DEF IInv, TypeOK
  <2> QED
    BY <2>1, <2>2
<1>1. UNCHANGED <<maxPages, page, lastSeen, script, truncated>>
  BY DEF Confirm, progress
<1>2. \A s : History(s) \subseteq History(s)'
  <2> SUFFICES ASSUME NEW s, NEW i \in History(s) PROVE i \in History(s)'
    OBVIOUS
  <2>1. i \in DOMAIN chain /\ Touches(chain[i], s)
    BY DEF History
  <2>2. i \in DOMAIN chain' /\ chain'[i] = chain[i]
    BY <2>1, <1>0
  <2> QED
    BY <2>1, <2>2 DEF History
<1>3. \A s : IsFiniteSet(History(s)') /\ IsFiniteSet(History(s))
  <2>1. IsFiniteSet(DOMAIN chain') /\ IsFiniteSet(DOMAIN chain)
    BY <1>0, FS_Interval
  <2> QED
    BY <2>1, FS_Subset DEF History
<1>4. \A s : /\ Cardinality(History(s)) <= Cardinality(History(s)')
             /\ Cardinality(History(s)) \in Nat /\ Cardinality(History(s)') \in Nat
  BY <1>2, <1>3, FS_Subset, FS_CardinalityType
<1>5. /\ Cardinality(Covered) <= Cardinality(Covered')
      /\ Cardinality(Covered) \in Nat /\ Cardinality(Covered') \in Nat
  <2>1. Covered \subseteq Covered' /\ Covered' \subseteq History(script)'
    BY <1>1, <1>2 DEF Covered
  <2>2. IsFiniteSet(Covered')
    BY <1>3, <2>1, FS_Subset
  <2> QED
    BY <2>1, <2>2, FS_Subset, FS_CardinalityType
<1>6. maxPages * PageSize \in Nat /\ page * PageSize \in Nat
  BY PageSizeAssumption, PageOptionsAssumption DEF IInv, TypeOK
<1> QED
  BY <1>1, <1>4, <1>5, <1>6 DEF LongHistories

\* A history is cut short only if it has filled every page the limit allows
\* (esplora.go:119).
THEOREM OnlyLongHistoriesAreCut == Spec => []LongHistories
<1>1. Init => LongHistories
  BY DEF Init, LongHistories
<1>2. IInv /\ IInv' /\ LongHistories /\ [Next]_vars => LongHistories'
  <2> SUFFICES ASSUME IInv, IInv', LongHistories, [Next]_vars PROVE LongHistories'
    OBVIOUS
  <2>1. CASE ReadPage
    BY <2>1, ReadPageCounts
  <2>2. CASE \E ins \in SUBSET (Made \ Used), outs \in SUBSET ScriptIds : Confirm(ins, outs)
    BY <2>2, ConfirmCounts DEF IInv
  <2>3. CASE ReadTip \/ Derive \/ RequestFails \/ UNCHANGED vars
    <3>1. UNCHANGED <<chain, maxPages, script, page, lastSeen, truncated>>
      BY <2>3 DEF ReadTip, Derive, RequestFails, vars, progress
    <3> QED
      BY <3>1 DEF LongHistories, Covered, History
  <2> QED
    BY <2>1, <2>2, <2>3 DEF Next, Client
<1> QED
  BY <1>1, <1>2, ScanInvariant, PTL DEF Spec

\* As long as no history has maxPages full pages the scan is right: what it
\* offers includes every coin that is unspent and nothing that was spent when
\* the tip was read, so README.md:64, refuted by longer histories, holds.
THEOREM ShortHistoriesAreScannedInFull ==
  Spec => []((\A s \in ScriptIds : Cardinality(History(s)) < maxPages * PageSize)
               => /\ DerivesUnspentOutputs
                  /\ phase = "done" => {c \in Made \ Used : c[1] <= tip} \subseteq Offered)
<1>1. IInv /\ LongHistories /\ OfferedWasUnspent /\ UnspentIsOffered =>
        ((\A s \in ScriptIds : Cardinality(History(s)) < maxPages * PageSize)
           => /\ DerivesUnspentOutputs
              /\ phase = "done" => {c \in Made \ Used : c[1] <= tip} \subseteq Offered)
  <2> SUFFICES ASSUME IInv, LongHistories, OfferedWasUnspent, UnspentIsOffered,
                      \A s \in ScriptIds : Cardinality(History(s)) < maxPages * PageSize
               PROVE  /\ DerivesUnspentOutputs
                      /\ phase = "done" => {c \in Made \ Used : c[1] <= tip} \subseteq Offered
    OBVIOUS
  <2>1. truncated = {}
    <3> SUFFICES ASSUME NEW s \in truncated PROVE FALSE
      OBVIOUS
    <3>1. s \in ScriptIds
      BY DEF IInv, TypeOK
    <3>2. Cardinality(History(s)) \in Nat /\ maxPages * PageSize \in Nat
      BY HistoriesAreFinite, FS_CardinalityType, PageSizeAssumption, PageOptionsAssumption
         DEF IInv, TypeOK
    <3> QED
      BY <3>1, <3>2 DEF LongHistories
  <2> QED
    BY <2>1 DEF DerivesUnspentOutputs, OfferedWasUnspent, UnspentIsOffered
<1> QED
  BY <1>1, ScanInvariant, OnlyLongHistoriesAreCut, OfferedIsUnspent, NothingIsLost, PTL

(***************************************************************************)
(* Progress                                                                *)
(***************************************************************************)

\* The requests that are left at most, and the steps around them.
StepsLeft ==
    IF phase \in {"done", "failed"} THEN 0
    ELSE (NumScripts + 1 - script) * maxPages - page + (IF phase = "tip" THEN 2 ELSE 1)

\* The scan cannot go on for ever, however fast the histories grow: what is
\* left of it is at most maxPages requests per script, the tip and the end, and
\* every step of the client lowers it (esplora.go:101).
THEOREM EveryStepComesCloser ==
  Spec => /\ [](StepsLeft \in 0..(NumScripts * maxPages + 2))
          /\ [][StepsLeft' < StepsLeft \/ UNCHANGED <<maxPages, progress>>]_vars
<1> DEFINE left == (NumScripts + 1 - script) * maxPages - page
<1>1. TypeOK => /\ script \in 1..(NumScripts + 1) /\ NumScripts \in Nat \ {0}
                /\ maxPages \in Nat \ {0} /\ page \in 0..(maxPages - 1)
  BY NumScriptsAssumption, PageOptionsAssumption DEF TypeOK
<1>2. TypeOK /\ (script = NumScripts + 1 => page = 0)
        => left \in 0..(NumScripts * maxPages)
  <2> SUFFICES ASSUME TypeOK, script = NumScripts + 1 => page = 0
               PROVE  left \in 0..(NumScripts * maxPages)
    OBVIOUS
  <2>1. CASE script = NumScripts + 1
    <3>1. (NumScripts + 1 - script) * maxPages = 0 /\ NumScripts * maxPages \in Nat
      BY <1>1, <2>1
    <3> QED
      BY <2>1, <3>1
  <2>2. CASE script # NumScripts + 1
    <3> DEFINE k == NumScripts - script
    <3>1. k \in 0..(NumScripts - 1) /\ NumScripts + 1 - script = k + 1
      BY <1>1, <2>2
    <3> HIDE DEF k
    <3>2. (k + 1) * maxPages = k * maxPages + maxPages /\ k * maxPages \in Nat
      BY <1>1, <3>1
    <3>3. (k + 1) * maxPages <= NumScripts * maxPages
      BY <1>1, <3>1
    <3> QED
      BY <1>1, <3>1, <3>2, <3>3
  <2> QED
    BY <2>1, <2>2
<1>3. Spec => [](script = NumScripts + 1 => page = 0)
  <2>1. Init => (script = NumScripts + 1 => page = 0)
    BY DEF Init
  <2>2. TypeOK /\ (script = NumScripts + 1 => page = 0) /\ [Next]_vars
          => (script = NumScripts + 1 => page = 0)'
    <3> SUFFICES ASSUME script = NumScripts + 1 => page = 0, [Next]_vars
                 PROVE  (script = NumScripts + 1 => page = 0)'
      OBVIOUS
    <3>1. CASE ReadPage
      <4>1. PICK txs : IF MorePages(txs) THEN NextPage(txs) ELSE NextScript(txs)
        BY <3>1 DEF ReadPage
      <4>2. script # NumScripts + 1
        BY <3>1, NumScriptsAssumption DEF ReadPage, ScriptIds
      <4> QED
        BY <4>1, <4>2 DEF NextPage, NextScript
    <3>2. CASE UNCHANGED <<script, page>>
      BY <3>2
    <3> QED
      BY <3>1, <3>2 DEF Next, Client, Confirm, ReadTip, Derive, RequestFails, vars, progress
  <2> QED
    BY <2>1, <2>2, TypeCorrect, PTL DEF Spec
<1>4. TypeOK /\ left \in 0..(NumScripts * maxPages) => StepsLeft \in 0..(NumScripts * maxPages + 2)
  <2> HIDE DEF left
  <2>1. left = (NumScripts + 1 - script) * maxPages - page
    BY DEF left
  <2>2. TypeOK => NumScripts * maxPages \in Nat
    BY <1>1
  <2> QED
    BY <2>1, <2>2 DEF StepsLeft
<1>5. TypeOK /\ left \in 0..(NumScripts * maxPages) /\ TypeOK' /\ Next
        => StepsLeft' < StepsLeft \/ UNCHANGED <<maxPages, progress>>
  <2> SUFFICES ASSUME TypeOK, TypeOK', left \in 0..(NumScripts * maxPages), Next
               PROVE  StepsLeft' < StepsLeft \/ UNCHANGED <<maxPages, progress>>
    OBVIOUS
  <2>1. CASE \E ins \in SUBSET (Made \ Used), outs \in SUBSET ScriptIds : Confirm(ins, outs)
    BY <2>1 DEF Confirm
  <2>2. CASE ReadPage
    <3>1. PICK txs : IF MorePages(txs) THEN NextPage(txs) ELSE NextScript(txs)
      BY <2>2 DEF ReadPage
    <3>2. phase = "scan" /\ phase' = "scan" /\ maxPages' = maxPages /\ script \in 1..NumScripts
      BY <2>2 DEF ReadPage, ScriptIds
    <3>3. CASE script' = script /\ page' = page + 1
      BY <1>1, <3>2, <3>3 DEF StepsLeft
    <3>4. CASE script' = script + 1 /\ page' = 0
      <4> DEFINE k == NumScripts - script
      <4>1. k \in Nat /\ NumScripts + 1 - script = k + 1 /\ NumScripts + 1 - script' = k
        BY <1>1, <3>2, <3>4
      <4> HIDE DEF k
      <4>2. (k + 1) * maxPages = k * maxPages + maxPages /\ k * maxPages \in Nat
        BY <1>1, <4>1
      <4>3. StepsLeft = (k + 1) * maxPages - page + 1 /\ StepsLeft' = k * maxPages - 0 + 1
        BY <3>2, <3>4, <4>1 DEF StepsLeft
      <4> QED
        BY <1>1, <4>2, <4>3
    <3> QED
      BY <3>1, <3>3, <3>4 DEF NextPage, NextScript
  <2>3. CASE ReadTip \/ Derive \/ RequestFails
    <3>1. UNCHANGED <<maxPages, script, page>>
      BY <2>3 DEF ReadTip, Derive, RequestFails
    <3> HIDE DEF left
    <3>2. left \in Int /\ left >= 0 /\ left' = left
      <4>1. NumScripts * maxPages \in Nat
        BY <1>1
      <4> QED
        BY <3>1, <4>1 DEF left
    <3>3. /\ StepsLeft = IF phase \in {"done", "failed"} THEN 0
                         ELSE left + (IF phase = "tip" THEN 2 ELSE 1)
          /\ StepsLeft' = IF phase' \in {"done", "failed"} THEN 0
                          ELSE left' + (IF phase' = "tip" THEN 2 ELSE 1)
      BY DEF StepsLeft, left
    <3> QED
      BY <2>3, <3>2, <3>3 DEF ReadTip, Derive, RequestFails
  <2> QED
    BY <2>1, <2>2, <2>3 DEF Next, Client
<1> HIDE DEF left
<1> QED
  BY <1>2, <1>3, <1>4, <1>5, TypeCorrect, PTL DEF Spec
=============================================================================
