------------------------- MODULE HeaderRelay_proofs -------------------------
(***************************************************************************)
(* Proofs about the header relay (HeaderRelay) for every block tree and    *)
(* every batch size: its type invariant, and that common_ancestor returns  *)
(* a block both tips descend from (StartIsCommonAncestor) however the     *)
(* node's best chain moves between the RPC calls.                          *)
(***************************************************************************)
EXTENDS HeaderRelay, TLAPS, WellFoundedInduction

(* Facts about the tree read off its assumptions.                          *)
LEMMA HeightFacts ==
    /\ \A x \in Blocks : Height[x] \in Nat
    /\ \A x \in Blocks \ {Genesis} : Parent[x] \in Blocks
                                      /\ Height[x] = Height[Parent[x]] + 1
    /\ \A x \in Blocks : Height[x] = 0 => x = Genesis
BY TreeAssumption

(* Every block is among its own ancestors.                                 *)
LEMMA SelfAncestor == \A x \in Blocks : x \in Ancestors[x]
BY AncestryAssumption

(* Induction on the height: a property of every block follows from its    *)
(* holding at the genesis block and passing from a block's parent to it.   *)
(* Stated for the two properties it is used for, since a lemma cannot take *)
(* the property as a parameter the provers instantiate.                    *)
LEMMA HeightBelow ==
    \A y \in Blocks : \A x \in Ancestors[y] : Height[x] <= Height[y]
<1> DEFINE Bad == {n \in Nat : \E y \in Blocks : Height[y] = n /\
                     \E x \in Ancestors[y] : ~(Height[x] <= Height[y])}
<1>1. Bad = {}
  <2> SUFFICES ASSUME Bad /= {} PROVE FALSE
    OBVIOUS
  <2>1. PICK n \in Bad : \A m \in Bad : ~(<<m, n>> \in OpToRel(<, Nat))
    BY NatLessThanWellFounded, WFMin
  <2>2. PICK y \in Blocks : Height[y] = n /\
                 \E x \in Ancestors[y] : ~(Height[x] <= Height[y])
    BY <2>1
  <2>3. CASE y = Genesis
    BY <2>2, <2>3, AncestryAssumption
  <2>4. CASE y /= Genesis
    <3>1. Height[Parent[y]] \in Nat /\ Height[Parent[y]] < n
          /\ Parent[y] \in Blocks
      BY <2>2, <2>4, HeightFacts
    <3>2. Height[Parent[y]] \notin Bad
      BY <2>1, <3>1 DEF OpToRel
    <3>3. \A x \in Ancestors[Parent[y]] : Height[x] <= Height[Parent[y]]
      BY <3>1, <3>2
    <3>4. PICK x \in Ancestors[y] : ~(Height[x] <= Height[y])
      BY <2>2
    <3>5. x = y \/ x \in Ancestors[Parent[y]]
      BY <2>4, <3>4, AncestryAssumption
    <3>6. Height[y] = Height[Parent[y]] + 1 /\ Height[x] \in Nat
      BY <2>4, <3>5, HeightFacts, AncestryAssumption
    <3>. QED BY <3>3, <3>4, <3>5, <3>6, <3>1
  <2>. QED BY <2>3, <2>4
<1>. QED BY <1>1, HeightFacts

(* The ancestors of a block are closed under previous_block_hash.          *)
LEMMA ParentBelow ==
    \A y \in Blocks : \A x \in Ancestors[y] \ {Genesis} :
        Parent[x] \in Ancestors[y]
<1> DEFINE Bad == {n \in Nat : \E y \in Blocks : Height[y] = n /\
                     \E x \in Ancestors[y] \ {Genesis} :
                        Parent[x] \notin Ancestors[y]}
<1>1. Bad = {}
  <2> SUFFICES ASSUME Bad /= {} PROVE FALSE
    OBVIOUS
  <2>1. PICK n \in Bad : \A m \in Bad : ~(<<m, n>> \in OpToRel(<, Nat))
    BY NatLessThanWellFounded, WFMin
  <2>2. PICK y \in Blocks : Height[y] = n /\
                 \E x \in Ancestors[y] \ {Genesis} :
                    Parent[x] \notin Ancestors[y]
    BY <2>1
  <2>3. PICK x \in Ancestors[y] \ {Genesis} : Parent[x] \notin Ancestors[y]
    BY <2>2
  <2>4. CASE y = Genesis
    BY <2>3, <2>4, AncestryAssumption
  <2>5. CASE y /= Genesis
    <3>1. Height[Parent[y]] \in Nat /\ Height[Parent[y]] < n
          /\ Parent[y] \in Blocks
      BY <2>2, <2>5, HeightFacts
    <3>2. Height[Parent[y]] \notin Bad
      BY <2>1, <3>1 DEF OpToRel
    <3>3. \A z \in Ancestors[Parent[y]] \ {Genesis} :
             Parent[z] \in Ancestors[Parent[y]]
      BY <3>1, <3>2
    <3>4. Ancestors[y] = {y} \cup Ancestors[Parent[y]]
      BY <2>5, AncestryAssumption
    <3>5. CASE x = y
      BY <3>1, <3>4, <3>5, <2>3, SelfAncestor
    <3>6. CASE x \in Ancestors[Parent[y]]
      BY <3>3, <3>4, <3>6, <2>3
    <3>. QED BY <2>3, <3>4, <3>5, <3>6
  <2>. QED BY <2>4, <2>5
<1>. QED BY <1>1, HeightFacts

-----------------------------------------------------------------------------
(* HeaderTypeOK is inductive.                                              *)

(* A header-info RPC returns a snapshot.                                   *)
LEMMA InfoType ==
    ASSUME tip \in Blocks, NEW x \in Blocks
    PROVE  Info(x) \in Snapshot
<1>1. Conf(x) \in Int
  BY HeightFacts DEF Conf
<1>2. NextOnBest(x) \in Blocks \cup {None}
  BY DEF NextOnBest
<1>. QED BY <1>1, <1>2 DEF Info, Snapshot

LEMMA NoInfoType == NoInfo \in Snapshot
BY TreeAssumption DEF NoInfo, Snapshot

LEMMA InitTypeOK == Init => HeaderTypeOK
BY NoInfoType, TreeAssumption, BatchSizeAssumption, HeaderFlagsAssumption
   DEF Init, HeaderTypeOK, PCs

(* The locals reset by Restart have their types.                           *)
LEMMA RestartType ==
    ASSUME Restart
    PROVE  /\ pc' \in PCs /\ fnHash' \in Blocks /\ scHash' \in Blocks
           /\ a' \in Snapshot /\ b' \in Snapshot /\ start' \in Blocks
           /\ cursor' \in Snapshot /\ batch' \in Seq(Blocks)
           /\ Len(batch') <= BatchSize
BY NoInfoType, TreeAssumption, BatchSizeAssumption DEF Restart, PCs

LEMMA NextTypeOK == HeaderTypeOK /\ [Next]_vars => HeaderTypeOK'
<1> SUFFICES ASSUME HeaderTypeOK, [Next]_vars PROVE HeaderTypeOK'
  OBVIOUS
<1> USE DEF HeaderTypeOK
<1>1. CASE ReadBest
  BY <1>1 DEF ReadBest, PCs
<1>2. CASE ReadSidechain
  BY <1>2 DEF ReadSidechain, PCs
<1>3. CASE WaitForNewBlock
  BY <1>3, RestartType DEF WaitForNewBlock
<1>4. CASE CompareHeights
  BY <1>4, RestartType DEF CompareHeights, PCs, relayVars
<1>5. CASE FetchA
  BY <1>5, InfoType DEF FetchA, PCs
<1>6. CASE FetchB
  BY <1>6, InfoType DEF FetchB, PCs
<1>7. CASE CAStep
  <2>1. a.blk \in Blocks /\ b.blk \in Blocks /\ tip \in Blocks
    BY DEF Snapshot
  <2>2. UNCHANGED <<rpcErrors, tip, scTip, fnHash, scHash, cursor, batch>>
    BY <1>7 DEF CAStep
  <2>3. /\ pc' \in PCs /\ start' \in Blocks
        /\ a' \in Snapshot /\ b' \in Snapshot
    <3>1. CASE \E x \in {a, b} : CAReturn(x)
      BY <2>1, <3>1, NoInfoType DEF CAReturn, PCs
    <3>2. CASE Height[a.blk] > Height[b.blk] /\ WalkA
      <4>1. CASE a.blk = Genesis
        BY <3>2, <4>1 DEF WalkA, PCs
      <4>2. CASE a.blk /= Genesis
        BY <2>1, <3>2, <4>2, TreeAssumption, InfoType DEF WalkA
      <4>. QED BY <4>1, <4>2
    <3>3. CASE ~(Height[a.blk] > Height[b.blk]) /\ WalkB
      <4>1. CASE b.blk = Genesis
        BY <3>3, <4>1 DEF WalkB, PCs
      <4>2. CASE b.blk /= Genesis
        BY <2>1, <3>3, <4>2, TreeAssumption, InfoType DEF WalkB
      <4>. QED BY <4>1, <4>2
    <3>. QED BY <1>7, <3>1, <3>2, <3>3 DEF CAStep
  <2>. QED BY <2>2, <2>3
<1>8. CASE BatchStart
  BY <1>8, InfoType, BatchSizeAssumption DEF BatchStart, PCs
<1>9. CASE BatchNext
  <2>1. cursor.next \in Blocks
    BY <1>9 DEF BatchNext, Snapshot
  <2>2. Append(batch, cursor.next) \in Seq(Blocks)
    BY <2>1
  <2>3. Len(Append(batch, cursor.next)) <= BatchSize
    BY <1>9, <2>1, BatchSizeAssumption DEF BatchNext
  <2>. QED BY <1>9, <2>1, <2>2, <2>3, InfoType DEF BatchNext
<1>10. CASE BatchEnd
  BY <1>10, NoInfoType DEF BatchEnd, PCs
<1>11. CASE EmptyBatchPanic
  BY <1>11 DEF EmptyBatchPanic, PCs, relayVars
<1>12. CASE Submit
  <2>1. batch[Len(batch)] \in Blocks
    BY <1>12 DEF Submit
  <2>. QED BY <1>12, <2>1, RestartType DEF Submit
<1>13. CASE RelayRpcError
  BY <1>13, RestartType, HeaderFlagsAssumption DEF RelayRpcError
<1>14. CASE \E t \in Blocks : NodeNewTip(t)
  BY <1>14 DEF NodeNewTip, relayVars
<1>15. CASE \E t \in Blocks : OtherRelayerAdds(t)
  BY <1>15 DEF OtherRelayerAdds, relayVars
<1>16. CASE UNCHANGED vars
  BY <1>16 DEF vars
<1>. QED BY <1>1, <1>2, <1>3, <1>4, <1>5, <1>6, <1>7, <1>8, <1>9, <1>10,
            <1>11, <1>12, <1>13, <1>14, <1>15, <1>16 DEF Next, RelayStep

(* The header relay's variables always have their types.                   *)
THEOREM HeaderTypeCorrect == Spec => []HeaderTypeOK
BY InitTypeOK, NextTypeOK, PTL DEF Spec

-----------------------------------------------------------------------------
(* StartIsCommonAncestor, through its inductive form CAInv.                *)

(* T may have been the node's best tip since fullnode_hash was read: the  *)
(* tip's height only grows, so T is at least as high, and as high only if  *)
(* it is fullnode_hash itself.                                             *)
PastTip(T) ==
    /\ Height[T] >= Height[fnHash]
    /\ Height[T] = Height[fnHash] => T = fnHash

(* A snapshot with confirmations was taken on the best chain of such a    *)
(* tip, whose height its confirmations give.                               *)
SnapFromTip(s) ==
    s.conf /= -1 =>
        \E T \in Blocks : /\ s.blk \in Ancestors[T]
                          /\ Height[T] = Height[s.blk] + s.conf - 1
                          /\ PastTip(T)

CAInv ==
    /\ HeaderTypeOK
    /\ PastTip(tip)
    /\ pc \in {"caA", "caB", "ca"} => Height[fnHash] >= Height[scHash]
    /\ pc = "caB" => a.blk = fnHash
    /\ pc \in {"caB", "ca"} => a.blk \in Ancestors[fnHash] /\ SnapFromTip(a)
    /\ pc = "ca" => /\ b.blk \in Ancestors[scHash] /\ SnapFromTip(b)
                    /\ Height[a.blk] >= Height[b.blk]
    /\ StartIsCommonAncestor

(* A snapshot taken now is a snapshot of a past tip's best chain.          *)
LEMMA InfoFromTip ==
    ASSUME tip \in Blocks, PastTip(tip), NEW x \in Blocks
    PROVE  SnapFromTip(Info(x))
<1>1. CASE OnBest(x)
  <2>1. Info(x).blk = x /\ Info(x).conf = Height[tip] - Height[x] + 1
    BY <1>1 DEF Info, Conf
  <2>2. x \in Ancestors[tip]
    BY <1>1 DEF OnBest, AncestorOf
  <2>3. Height[tip] = Height[x] + Info(x).conf - 1
    BY <2>1, HeightFacts
  <2>. QED BY <2>1, <2>2, <2>3 DEF SnapFromTip
<1>2. CASE ~OnBest(x)
  BY <1>2 DEF Info, Conf, SnapFromTip
<1>. QED BY <1>1, <1>2

(* common_ancestor's first shortcut is sound: when b's confirmations say  *)
(* it lies as far below the tip as below a, b is an ancestor of the node's *)
(* hash.  The tip of b's snapshot is as high as a, a is no higher than    *)
(* fullnode_hash, and a past tip that high is fullnode_hash itself.        *)
LEMMA ShortcutSound ==
    ASSUME CAInv, pc = "ca", AncestorByConf(b, a)
    PROVE  b.blk \in Ancestors[fnHash]
<1>1. /\ a.blk \in Blocks /\ b.blk \in Blocks /\ b.conf \in Int
      /\ fnHash \in Blocks
      /\ a.blk \in Ancestors[fnHash] /\ SnapFromTip(b)
  BY DEF CAInv, HeaderTypeOK, Snapshot
<1>2. b.conf /= -1
  BY <1>1, HeightFacts DEF AncestorByConf
<1>3. PICK T \in Blocks : /\ b.blk \in Ancestors[T]
                          /\ Height[T] = Height[b.blk] + b.conf - 1
                          /\ PastTip(T)
  BY <1>1, <1>2 DEF SnapFromTip
<1>4. Height[T] = Height[a.blk]
  BY <1>1, <1>3, HeightFacts DEF AncestorByConf
<1>5. Height[a.blk] <= Height[fnHash]
  BY <1>1, HeightBelow
<1>6. T = fnHash
  BY <1>1, <1>3, <1>4, <1>5, HeightFacts DEF PastTip
<1>. QED BY <1>3, <1>6

LEMMA InitCAInv == Init => CAInv
<1> SUFFICES ASSUME Init PROVE CAInv
  OBVIOUS
<1>1. PastTip(tip)
  BY TreeAssumption, HeightFacts DEF Init, PastTip
<1>. QED BY <1>1, InitTypeOK DEF Init, CAInv, StartIsCommonAncestor

(* Back at the top of the loop, only the past-tip conjunct has content.    *)
LEMMA RestartCAInv ==
    ASSUME HeaderTypeOK, Restart, tip' = tip, HeaderTypeOK'
    PROVE  CAInv'
<1>1. PastTip(tip)'
  BY HeightFacts, TreeAssumption DEF Restart, PastTip, HeaderTypeOK
<1>. QED BY <1>1 DEF Restart, CAInv, StartIsCommonAncestor

LEMMA NextCAInv == CAInv /\ [Next]_vars => CAInv'
<1> SUFFICES ASSUME CAInv, [Next]_vars PROVE CAInv'
  OBVIOUS
<1>0. HeaderTypeOK /\ HeaderTypeOK'
  BY NextTypeOK DEF CAInv
<1>h. /\ tip \in Blocks /\ fnHash \in Blocks /\ scHash \in Blocks
      /\ a \in Snapshot /\ b \in Snapshot /\ PastTip(tip)
  BY DEF CAInv, HeaderTypeOK
<1>1. CASE ReadBest
  <2>1. PastTip(tip)'
    BY <1>1, <1>h, HeightFacts DEF ReadBest, PastTip
  <2>. QED BY <1>0, <1>1, <2>1 DEF ReadBest, CAInv, StartIsCommonAncestor
<1>2. CASE ReadSidechain
  BY <1>0, <1>2 DEF ReadSidechain, CAInv, PastTip, StartIsCommonAncestor
<1>3. CASE WaitForNewBlock
  BY <1>0, <1>3, RestartCAInv DEF WaitForNewBlock
<1>4. CASE CompareHeights
  <2>1. CASE Height[fnHash] < Height[scHash]
    BY <1>0, <1>4, <2>1, RestartCAInv DEF CompareHeights
  <2>2. CASE ~(Height[fnHash] < Height[scHash])
    <3>1. pc' = "caA" /\ UNCHANGED <<tip, fnHash, scHash, start>>
      BY <1>4, <2>2 DEF CompareHeights, relayVars
    <3>2. Height[fnHash] >= Height[scHash]
      BY <1>h, <2>2, HeightFacts
    <3>. QED BY <1>0, <1>h, <3>1, <3>2 DEF CAInv, PastTip, StartIsCommonAncestor
  <2>. QED BY <2>1, <2>2
<1>5. CASE FetchA
  <2>1. pc = "caA" /\ a' = Info(fnHash) /\ pc' = "caB"
        /\ UNCHANGED <<tip, fnHash, scHash, start>>
    BY <1>5 DEF FetchA
  <2>2. SnapFromTip(Info(fnHash)) /\ fnHash \in Ancestors[fnHash]
    BY <1>h, InfoFromTip, SelfAncestor
  <2>3. Info(fnHash).blk = fnHash
    BY DEF Info
  <2>4. SnapFromTip(a)' /\ PastTip(tip)'
    BY <2>1, <2>2, <1>h DEF SnapFromTip, PastTip
  <2>. QED BY <1>0, <2>1, <2>2, <2>3, <2>4 DEF CAInv, StartIsCommonAncestor
<1>6. CASE FetchB
  <2>1. b' = Info(scHash) /\ pc' = "ca"
        /\ UNCHANGED <<tip, fnHash, scHash, a, start>>
    BY <1>6 DEF FetchB
  <2>2. SnapFromTip(Info(scHash)) /\ scHash \in Ancestors[scHash]
    BY <1>h, InfoFromTip, SelfAncestor
  <2>3. Info(scHash).blk = scHash
    BY DEF Info
  <2>4. Height[a.blk] >= Height[scHash]
    BY <1>6, <1>h DEF FetchB, CAInv
  <2>. QED BY <1>0, <1>h, <1>6, <2>1, <2>2, <2>3, <2>4
           DEF CAInv, PastTip, SnapFromTip, StartIsCommonAncestor, FetchB
<1>7. CASE CAStep
  <2>0. /\ pc = "ca"
        /\ UNCHANGED <<tip, fnHash, scHash>>
        /\ a.blk \in Ancestors[fnHash] /\ b.blk \in Ancestors[scHash]
        /\ SnapFromTip(a) /\ SnapFromTip(b)
        /\ Height[a.blk] >= Height[b.blk]
        /\ a.blk \in Blocks /\ b.blk \in Blocks
    BY <1>7, <1>h DEF CAStep, CAInv, Snapshot
  <2>1. CASE a = b /\ CAReturn(a)
    BY <1>0, <2>0, <2>1 DEF CAReturn, CAInv, PastTip, StartIsCommonAncestor,
       AncestorOf
  <2>2. CASE a /= b /\ AncestorByConf(b, a) /\ CAReturn(b)
    <3>1. b.blk \in Ancestors[fnHash]
      BY <2>0, <2>2, ShortcutSound
    <3>. QED BY <1>0, <2>0, <2>2, <3>1
             DEF CAReturn, CAInv, PastTip, StartIsCommonAncestor, AncestorOf
  <2>3. CASE a /= b /\ ~AncestorByConf(b, a) /\ AncestorByConf(a, b)
             /\ CAReturn(a)
    BY <2>0, <2>3, HeightFacts DEF AncestorByConf
  <2>4. CASE Height[a.blk] > Height[b.blk] /\ WalkA
    <3>1. CASE a.blk = Genesis
      BY <1>0, <2>0, <2>4, <3>1
         DEF WalkA, CAInv, PastTip, StartIsCommonAncestor
    <3>2. CASE a.blk /= Genesis
      <4>a. a' = Info(Parent[a.blk]) /\ UNCHANGED <<pc, b, start>>
        BY <2>4, <3>2 DEF WalkA
      <4>b. Parent[a.blk] \in Ancestors[fnHash] /\ Parent[a.blk] \in Blocks
        BY <1>h, <2>0, <3>2, ParentBelow, TreeAssumption
      <4>c. SnapFromTip(Info(Parent[a.blk])) /\ Info(Parent[a.blk]).blk = Parent[a.blk]
        BY <1>h, <4>b, InfoFromTip DEF Info
      <4>d. Height[Parent[a.blk]] >= Height[b.blk]
        BY <2>0, <2>4, <3>2, HeightFacts
      <4>. QED BY <1>0, <2>0, <4>a, <4>b, <4>c, <4>d
               DEF CAInv, PastTip, SnapFromTip, StartIsCommonAncestor
    <3>. QED BY <3>1, <3>2
  <2>5. CASE ~(Height[a.blk] > Height[b.blk]) /\ WalkB
    <3>1. CASE b.blk = Genesis
      BY <1>0, <2>0, <2>5, <3>1
         DEF WalkB, CAInv, PastTip, StartIsCommonAncestor
    <3>2. CASE b.blk /= Genesis
      <4>a. b' = Info(Parent[b.blk]) /\ UNCHANGED <<pc, a, start>>
        BY <2>5, <3>2 DEF WalkB
      <4>b. Parent[b.blk] \in Ancestors[scHash] /\ Parent[b.blk] \in Blocks
        BY <1>h, <2>0, <3>2, ParentBelow, TreeAssumption
      <4>c. SnapFromTip(Info(Parent[b.blk])) /\ Info(Parent[b.blk]).blk = Parent[b.blk]
        BY <1>h, <4>b, InfoFromTip DEF Info
      <4>d. Height[a.blk] >= Height[Parent[b.blk]]
        BY <2>0, <2>5, <3>2, HeightFacts
      <4>. QED BY <1>0, <2>0, <4>a, <4>b, <4>c, <4>d
               DEF CAInv, PastTip, SnapFromTip, StartIsCommonAncestor
    <3>. QED BY <3>1, <3>2
  <2>. QED BY <1>7, <2>1, <2>2, <2>3, <2>4, <2>5 DEF CAStep
<1>8. CASE BatchStart \/ BatchNext \/ BatchEnd \/ EmptyBatchPanic
  <2>1. UNCHANGED <<tip, fnHash, scHash, start>>
        /\ pc' \in {"batch", "add", "panicked"}
        /\ pc \in {"batchStart", "batch", "add"}
    BY <1>8 DEF BatchStart, BatchNext, BatchEnd, EmptyBatchPanic, relayVars
  <2>. QED BY <1>0, <2>1 DEF CAInv, PastTip, StartIsCommonAncestor
<1>9. CASE Submit \/ RelayRpcError
  BY <1>0, <1>9, RestartCAInv DEF Submit, RelayRpcError
<1>10. CASE \E t \in Blocks : NodeNewTip(t)
  <2>1. PICK t \in Blocks : NodeNewTip(t)
    BY <1>10
  <2>2. PastTip(tip)'
    BY <1>h, <2>1, HeightFacts DEF NodeNewTip, PastTip, relayVars
  <2>. QED BY <1>0, <2>1, <2>2 DEF NodeNewTip, relayVars, CAInv, PastTip,
              SnapFromTip, StartIsCommonAncestor
<1>11. CASE \E t \in Blocks : OtherRelayerAdds(t)
  BY <1>0, <1>11 DEF OtherRelayerAdds, relayVars, CAInv, PastTip, SnapFromTip,
     StartIsCommonAncestor
<1>12. CASE UNCHANGED vars
  BY <1>0, <1>12 DEF vars, CAInv, PastTip, SnapFromTip, StartIsCommonAncestor
<1>. QED BY <1>1, <1>2, <1>3, <1>4, <1>5, <1>6, <1>7, <1>8, <1>9, <1>10,
            <1>11, <1>12 DEF Next, RelayStep

(* Whatever the node's best chain does between the RPC calls, the block   *)
(* common_ancestor returns is an ancestor of both the node's and the      *)
(* sidechain's hash, for every tree and batch size.                        *)
THEOREM CommonAncestorSound == Spec => []StartIsCommonAncestor
<1>1. CAInv => StartIsCommonAncestor
  BY DEF CAInv
<1>. QED BY InitCAInv, NextCAInv, <1>1, PTL DEF Spec
=============================================================================
