------------------------ MODULE ReleaseSigning_proofs ------------------------
(***************************************************************************)
(* Proofs about the way of a release from its burn to its signature, for   *)
(* every chain, every depth of reorganization below finality, every set of *)
(* authorizations and PSBTs, any signer set with too few dishonest signers *)
(* for a quorum, and any number of runs of the signer.                     *)
(***************************************************************************)
EXTENDS ReleaseSigning, FiniteSetTheorems, TLAPS

-----------------------------------------------------------------------------
(* Types.                                                                   *)

LEMMA ConstantTypes ==
  /\ Finality \in Nat \ {0} /\ MaxReorg \in Nat /\ MaxReorg <= Finality
  /\ MaxHeight \in Nat /\ MaxFork \in Nat /\ MaxTime \in Nat
  /\ Nowhere.block = 0
  BY ReleaseApprovalAssumption, MaxTimeAssumption DEF Nowhere

LEMMA InitTypes == Init => SigningTypeOK
  BY ConstantTypes, BtcSignerAssumption
     DEF Init, ApprovalInit, SignerInit, SigningTypeOK, ApprovalTypeOK, SignerTypeOK,
         Heads, Forks, Nodes, Places, SourceStates, RunStates, IdOf, RedeemIds

\* The chain and the providers.
LEMMA ChainingTypes ==
  ASSUME ApprovalTypeOK, Chaining PROVE ApprovalTypeOK'
<1>1. CASE MineBlock
  <2>1. chain' \in Heads /\ UNCHANGED <<now, node, source, approved>>
    BY <1>1, ConstantTypes DEF MineBlock, ApprovalTypeOK, Heads
  <2>2. PICK place \in IF placed[chain.fork] # Nowhere THEN {placed[chain.fork]}
                       ELSE NewPlaces(chain.fork, chain.height + 1, chain.height + 1) :
          placed' = [placed EXCEPT ![chain.fork] = place]
    BY <1>1 DEF MineBlock
  <2>3. chain.fork \in Forks /\ chain.height \in 0 .. MaxHeight /\ chain.height + 1 \in 1 .. MaxHeight
    BY <1>1, ConstantTypes DEF ApprovalTypeOK, Heads, MineBlock
  <2>4. place \in Places
    BY <2>2, <2>3 DEF NewPlaces, Places, ApprovalTypeOK
  <2> QED BY <2>1, <2>2, <2>4 DEF ApprovalTypeOK
<1>2. ASSUME NEW base \in 0 .. MaxHeight, Reorganize(base) PROVE ApprovalTypeOK'
  <2>1. /\ chain.fork \in Forks /\ chain.height \in 0 .. MaxHeight
        /\ chain.fork + 1 \in Forks /\ chain.height + 1 \in 0 .. MaxHeight
    BY <1>2, ConstantTypes DEF ApprovalTypeOK, Heads, Forks, Reorganize
  <2>2. chain' \in Heads /\ UNCHANGED <<now, node, source, approved>>
    BY <1>2, <2>1 DEF Reorganize, Heads
  <2>3. PICK place \in IF placed[chain.fork] # Nowhere /\ placed[chain.fork].block <= base
                       THEN {placed[chain.fork]}
                       ELSE NewPlaces(chain.fork + 1, base + 1, chain.height + 1) :
          placed' = [placed EXCEPT ![chain.fork + 1] = place]
    BY <1>2 DEF Reorganize
  <2>4. \A b \in base + 1 .. chain.height + 1 : b \in 1 .. MaxHeight
    BY <2>1, ConstantTypes
  <2>5. place \in Places
    BY <2>1, <2>3, <2>4 DEF NewPlaces, Places, ApprovalTypeOK
  <2> QED BY <2>2, <2>3, <2>5 DEF ApprovalTypeOK
<1>3. ASSUME NEW n \in Nodes, NodeSyncs(n) PROVE ApprovalTypeOK'
  BY <1>3 DEF NodeSyncs, ApprovalTypeOK
<1>4. CASE ApprovalTick
  BY <1>4, ConstantTypes DEF ApprovalTick, Tick, ApprovalTypeOK
<1> QED BY <1>1, <1>2, <1>3, <1>4 DEF Chaining

\* Where a provider has the log is a place.
LEMMA SeenTypes ==
  ASSUME ApprovalTypeOK, NEW n \in Nodes PROVE SeenBy(n) \in Places
  BY DEF ApprovalTypeOK, SeenBy, Places, Heads

\* The source.
LEMMA ApprovingTypes ==
  ASSUME ApprovalTypeOK, Approving PROVE ApprovalTypeOK'
<1>1. ASSUME NEW a \in Authorizations, SourceBegins(a) PROVE ApprovalTypeOK'
  <2>1. SeenBy("primary") \in Places
    BY SeenTypes DEF Nodes
  <2>2. source' = [at |-> "secondary", auth |-> a, primary |-> SeenBy("primary"),
                   secondary |-> Nowhere, latest |-> 0, moved |-> FALSE]
    BY <1>1 DEF SourceBegins, SourceIdle
  <2>3. Nowhere \in Places /\ 0 \in 0 .. MaxHeight
    BY ConstantTypes DEF Places
  <2>4. source' \in SourceStates
    BY <2>1, <2>2, <2>3 DEF SourceStates
  <2> QED BY <1>1, <2>4 DEF SourceBegins, ApprovalTypeOK
<1>2. CASE SourceReadsSecondary
  <2>1. SeenBy("secondary") \in Places
    BY SeenTypes DEF Nodes
  <2>2. source' = SourceIdle \/
        source' = [source EXCEPT !.at = "height", !.secondary = SeenBy("secondary")]
    BY <1>2 DEF SourceReadsSecondary
  <2>3. source # SourceIdle
    BY <1>2 DEF SourceReadsSecondary, SourceIdle
  <2>4. source' \in SourceStates
    BY <2>1, <2>2, <2>3 DEF ApprovalTypeOK, SourceStates
  <2> QED BY <1>2, <2>4 DEF SourceReadsSecondary, ApprovalTypeOK
<1>3. CASE SourceReadsHeight
  <2>1. node["primary"].height \in 0 .. MaxHeight
    BY DEF ApprovalTypeOK, Nodes, Heads
  <2>2. source # SourceIdle
    BY <1>3 DEF SourceReadsHeight, SourceIdle
  <2>3. source' \in SourceStates
    BY <1>3, <2>1, <2>2 DEF SourceReadsHeight, ApprovalTypeOK, SourceStates
  <2> QED BY <1>3, <2>3 DEF SourceReadsHeight, ApprovalTypeOK
<1>4. CASE SourceChecksFinality
  <2>1. source # SourceIdle /\ source.at = "finality"
    BY <1>4 DEF SourceChecksFinality, SourceIdle
  <2>2. source.moved \in BOOLEAN
    BY <2>1 DEF ApprovalTypeOK, SourceStates
  <2>3. PICK moved \in BOOLEAN :
          source' = SourceIdle \/ source' = [source EXCEPT !.at = "preflight", !.moved = moved]
    BY <1>4, <2>2 DEF SourceChecksFinality
  <2>4. source' \in SourceStates
    BY <2>1, <2>3 DEF ApprovalTypeOK, SourceStates
  <2> QED BY <1>4, <2>4 DEF SourceChecksFinality, ApprovalTypeOK
<1>5. CASE SourceFails
  BY <1>5 DEF SourceFails, ApprovalTypeOK, SourceStates
<1>6. ASSUME NEW p \in Psbts, SourcePreflights(p) PROVE ApprovalTypeOK'
  <2>1. source # SourceIdle
    BY <1>6 DEF SourcePreflights, SourceIdle
  <2>2. [auth |-> source.auth, place |-> source.primary, moved |-> source.moved] \in Approvals
    BY <2>1 DEF ApprovalTypeOK, SourceStates, Approvals
  <2>3. source' \in SourceStates /\ UNCHANGED <<now, chain, placed, node>>
    BY <1>6 DEF SourcePreflights, SourceStates
  <2>4. approved' \subseteq Approvals
    BY <1>6, <2>2 DEF SourcePreflights, ApprovalTypeOK
  <2> QED BY <2>3, <2>4 DEF ApprovalTypeOK
<1> QED BY <1>1, <1>2, <1>3, <1>4, <1>5, <1>6 DEF Approving

\* The DON's signers and the runs.
LEMMA SigningTypes ==
  ASSUME SignerTypeOK, Signing PROVE SignerTypeOK'
<1>1. ASSUME NEW s \in Honest, NEW a \in Authorizations, Attest(s, a) PROVE SignerTypeOK'
  BY <1>1, BtcSignerAssumption DEF Attest, SignerTypeOK
<1>2. ASSUME NEW a \in Authorizations, NEW p \in Psbts, NEW dry \in BOOLEAN, RunBegins(a, p, dry)
      PROVE  SignerTypeOK'
  <2>1. PICK r \in Runs, at \in {"insert", "sign"} :
          run' = [run EXCEPT ![r] = [at |-> at, auth |-> a, psbt |-> p, dry |-> dry]]
    BY <1>2 DEF RunBegins
  <2>2. run' \in [Runs -> RunStates]
    BY <2>1 DEF SignerTypeOK, RunStates
  <2> QED BY <1>2, <2>2 DEF RunBegins, SignerTypeOK
<1>3. ASSUME NEW r \in Runs, RunInserts(r) PROVE SignerTypeOK'
  <2>1. run[r] \in RunStates /\ run[r].auth \in Authorizations /\ run[r].psbt \in Psbts
    BY <1>3 DEF SignerTypeOK, RunStates, RunInserts, RunIdle
  <2>2. row' \in [RedeemIds -> Decisions \cup {NoRow}]
    BY <1>3, <2>1 DEF RunInserts, Reserves, SignerTypeOK, Decisions
  <2>3. run' \in [Runs -> RunStates]
    <3>1. [run[r] EXCEPT !.at = "sign"] \in RunStates
      BY <1>3, <2>1 DEF RunStates, RunInserts, RunIdle
    <3>2. run' = [run EXCEPT ![r] = RunIdle] \/
          run' = [run EXCEPT ![r] = [run[r] EXCEPT !.at = "sign"]]
      BY <1>3, <2>1 DEF RunInserts, SignerTypeOK
    <3> QED BY <3>1, <3>2 DEF SignerTypeOK, RunStates
  <2> QED BY <1>3, <2>2, <2>3 DEF RunInserts, SignerTypeOK
<1>4. ASSUME NEW r \in Runs, RunSigns(r) PROVE SignerTypeOK'
  <2>1. run[r] \in RunStates /\ run[r].auth \in Authorizations /\ run[r].psbt \in Psbts
    BY <1>4 DEF SignerTypeOK, RunStates, RunSigns, RunIdle
  <2>2. [run[r] EXCEPT !.at = "mark"] \in RunStates
    BY <1>4, <2>1 DEF RunStates, RunSigns, RunIdle
  <2>3. run' \in [Runs -> RunStates] /\ signatures' \subseteq Authorizations \X Psbts
    BY <1>4, <2>1, <2>2 DEF RunSigns, SignerTypeOK
  <2> QED BY <1>4, <2>3 DEF RunSigns, SignerTypeOK
<1>5. ASSUME NEW r \in Runs, RunCannotSign(r) \/ RunEnds(r) PROVE SignerTypeOK'
  BY <1>5, BtcSignerAssumption DEF RunCannotSign, RunEnds, Fault, SignerTypeOK, RunStates
<1>6. ASSUME NEW r \in Runs, RunMarks(r) PROVE SignerTypeOK'
  <2>1. run[r] \in RunStates /\ run[r].auth \in Authorizations /\ run[r].psbt \in Psbts
    BY <1>6 DEF SignerTypeOK, RunStates, RunMarks, RunIdle
  <2> DEFINE id == IdOf[run[r].auth]
  <2>2. row[id] # NoRow => [row[id] EXCEPT !.status = "signed", !.psbt = run[r].psbt] \in Decisions
    BY <2>1 DEF SignerTypeOK, Decisions, RedeemIds, IdOf
  <2>3. row' \in [RedeemIds -> Decisions \cup {NoRow}]
    BY <1>6, <2>1, <2>2 DEF RunMarks, SignerTypeOK
  <2> QED BY <1>6, <2>3 DEF RunMarks, SignerTypeOK, RunStates
<1> QED BY <1>1, <1>2, <1>3, <1>4, <1>5, <1>6 DEF Signing

\* Every variable keeps its type.
LEMMA NextTypes == SigningTypeOK /\ [Next]_vars => SigningTypeOK'
<1> SUFFICES ASSUME SigningTypeOK, [Next]_vars PROVE SigningTypeOK'
  OBVIOUS
<1>1. ApprovalTypeOK /\ SignerTypeOK
  BY DEF SigningTypeOK
<1>2. CASE (Chaining \/ Approving) /\ UNCHANGED signerVars
  <2>1. ApprovalTypeOK'
    BY <1>1, <1>2, ChainingTypes, ApprovingTypes
  <2>2. SignerTypeOK'
    BY <1>1, <1>2 DEF signerVars, SignerTypeOK
  <2> QED BY <2>1, <2>2 DEF SigningTypeOK
<1>3. Signing => UNCHANGED approvalVars
  BY DEF Signing, Attest, RunBegins, RunInserts, RunSigns, RunCannotSign, RunMarks, RunEnds
<1>4. UNCHANGED approvalVars => ApprovalTypeOK'
  BY <1>1 DEF approvalVars, ApprovalTypeOK
<1>5. CASE Signing
  BY <1>1, <1>3, <1>4, <1>5, SigningTypes DEF SigningTypeOK
<1>6. CASE UNCHANGED vars
  BY <1>1, <1>4, <1>6 DEF vars, signerVars, SignerTypeOK, SigningTypeOK
<1> QED BY <1>2, <1>5, <1>6 DEF Next

-----------------------------------------------------------------------------
(* Finality.  A place is settled when, if it is as deep as finality asks at  *)
(* some height, the chain has the log there still and is as high.            *)

Settles(place, height) ==
  place # Nowhere /\ height - place.block >= Finality =>
    placed[chain.fork] = place /\ height <= chain.height

\* What a provider has is the chain's past.
NodesBehind ==
  \A n \in Nodes : /\ node[n].fork <= chain.fork /\ node[n].height <= chain.height
                   /\ Settles(SeenBy(n), node[n].height)

\* What the source has read, until a provider moves under its hands.
SourceSettles ==
  /\ source # SourceIdle => source.primary # Nowhere
  /\ source.at = "finality" /\ ~source.moved => Settles(source.primary, source.latest)
  /\ source.at = "preflight" => source.latest - source.primary.block >= Finality
  /\ source.at = "preflight" /\ ~source.moved => Settles(source.primary, source.latest)

ApprovedSettles ==
  \A x \in approved : ~x.moved =>
    placed[chain.fork] = x.place /\ chain.height - x.place.block >= Finality

ApprovedPlaces == \A x \in approved : x.place # Nowhere

FinalityInv == NodesBehind /\ SourceSettles /\ ApprovedSettles /\ ApprovedPlaces

\* What finality has settled a reorganization does not reach: it is not deeper
\* than finality, and a log that is in no block yet gets a block of its own.
LEMMA ChainKeepsSettled ==
  ASSUME ApprovalTypeOK, MineBlock \/ \E base \in 0 .. MaxHeight : Reorganize(base),
         NEW place \in Places, NEW height \in 0 .. MaxHeight, Settles(place, height),
         place # Nowhere, height - place.block >= Finality
  PROVE  placed'[chain'.fork] = place /\ height <= chain'.height
<1>1. placed[chain.fork] = place /\ height <= chain.height
  BY DEF Settles
<1>2. /\ chain.fork \in Forks /\ chain.height \in 0 .. MaxHeight
      /\ place.block \in 1 .. MaxHeight
  BY DEF ApprovalTypeOK, Heads, Places
<1>3. CASE MineBlock
  BY <1>1, <1>2, <1>3, ConstantTypes DEF MineBlock, ApprovalTypeOK
<1>4. ASSUME NEW base \in 0 .. MaxHeight, Reorganize(base)
      PROVE  placed'[chain'.fork] = place /\ height <= chain'.height
  <2>1. place.block <= base /\ chain.fork + 1 \in Forks
    BY <1>1, <1>2, <1>4, ConstantTypes DEF Reorganize, Forks
  <2>2. placed' = [placed EXCEPT ![chain.fork + 1] = place]
    BY <1>1, <1>4, <2>1 DEF Reorganize
  <2> QED BY <1>1, <1>2, <1>4, <2>1, <2>2 DEF Reorganize, ApprovalTypeOK
<1> QED BY <1>3, <1>4

\* The chain moves, the providers do not.
LEMMA ChainKeepsNodes ==
  ASSUME ApprovalTypeOK, NodesBehind, MineBlock \/ \E base \in 0 .. MaxHeight : Reorganize(base)
  PROVE  NodesBehind'
<1> SUFFICES ASSUME NEW n \in Nodes
             PROVE  /\ node'[n].fork <= chain'.fork /\ node'[n].height <= chain'.height
                    /\ Settles(SeenBy(n), node[n].height)'
  BY DEF NodesBehind
<1>1. /\ node[n] \in Heads /\ chain \in Heads /\ node' = node
      /\ node[n].fork <= chain.fork /\ node[n].height <= chain.height
      /\ Settles(SeenBy(n), node[n].height)
  BY DEF ApprovalTypeOK, NodesBehind, MineBlock, Reorganize
<1>2. node[n].fork <= chain'.fork /\ node[n].height <= chain'.height
  BY <1>1 DEF MineBlock, Reorganize, Heads, Forks
<1>3. SeenBy(n)' = SeenBy(n) \/ SeenBy(n)' = Nowhere
  <2>1. CASE MineBlock
    <3>1. PICK new \in IF placed[chain.fork] # Nowhere THEN {placed[chain.fork]}
                       ELSE NewPlaces(chain.fork, chain.height + 1, chain.height + 1) :
            placed' = [placed EXCEPT ![chain.fork] = new]
      BY <2>1 DEF MineBlock
    <3>2. new = placed[chain.fork] \/ new = Nowhere \/ new.block = chain.height + 1
      BY <3>1, <1>1 DEF NewPlaces, Heads
    <3>3. CASE new.block = chain.height + 1 /\ node[n].fork = chain.fork
      <4>1. placed'[node'[n].fork] = new
        BY <1>1, <3>1, <3>3 DEF ApprovalTypeOK, Heads
      <4>2. ~(new.block <= node'[n].height)
        BY <1>1, <3>3 DEF Heads
      <4> QED BY <4>1, <4>2 DEF SeenBy
    <3>4. CASE new = placed[chain.fork] \/ node[n].fork # chain.fork
      BY <1>1, <3>1, <3>4 DEF SeenBy, ApprovalTypeOK, Heads
    <3>5. CASE new = Nowhere /\ node[n].fork = chain.fork
      BY <1>1, <3>1, <3>5 DEF SeenBy, ApprovalTypeOK, Heads
    <3> QED BY <3>2, <3>3, <3>4, <3>5
  <2>2. ASSUME NEW base \in 0 .. MaxHeight, Reorganize(base) PROVE SeenBy(n)' = SeenBy(n)
    <3>1. placed'[node[n].fork] = placed[node[n].fork]
      BY <1>1, <2>2 DEF Reorganize, ApprovalTypeOK, Heads, Forks
    <3> QED BY <1>1, <3>1 DEF SeenBy
  <2> QED BY <2>1, <2>2
<1>4. SeenBy(n) \in Places /\ node[n].height \in 0 .. MaxHeight
  BY <1>1, SeenTypes DEF Heads
<1>5. SeenBy(n) # Nowhere /\ node[n].height - SeenBy(n).block >= Finality =>
        placed'[chain'.fork] = SeenBy(n) /\ node[n].height <= chain'.height
  BY <1>1, <1>4, ChainKeepsSettled
<1> QED BY <1>1, <1>2, <1>3, <1>5 DEF Settles

\* The chain moves, and what was read and approved still holds.
LEMMA ChainKeepsFinality ==
  ASSUME ApprovalTypeOK, FinalityInv,
         MineBlock \/ \E base \in 0 .. MaxHeight : Reorganize(base)
  PROVE  FinalityInv'
<1>1. UNCHANGED <<source, approved, node>>
  BY DEF MineBlock, Reorganize
<1>2. NodesBehind'
  BY ChainKeepsNodes DEF FinalityInv
<1>3. SourceSettles'
  <2>1. CASE source = SourceIdle
    BY <1>1, <2>1 DEF SourceSettles, SourceIdle
  <2>2. CASE source # SourceIdle
    <3>1. source.primary \in Places /\ source.latest \in 0 .. MaxHeight
      BY <2>2 DEF ApprovalTypeOK, SourceStates
    <3>2. Settles(source.primary, source.latest) /\ source.primary # Nowhere
            /\ source.latest - source.primary.block >= Finality =>
            placed'[chain'.fork] = source.primary /\ source.latest <= chain'.height
      BY <3>1, ChainKeepsSettled
    <3>3. Settles(source.primary, source.latest) => Settles(source.primary, source.latest)'
      BY <1>1, <3>2 DEF Settles
    <3> QED BY <1>1, <3>3 DEF SourceSettles, FinalityInv
  <2> QED BY <2>1, <2>2
<1>4. ApprovedSettles'
  <2> SUFFICES ASSUME NEW x \in approved, ~x.moved
               PROVE  placed'[chain'.fork] = x.place /\ chain'.height - x.place.block >= Finality
    BY <1>1 DEF ApprovedSettles
  <2>1. /\ placed[chain.fork] = x.place /\ chain.height - x.place.block >= Finality
        /\ x.place # Nowhere
    BY DEF FinalityInv, ApprovedSettles, ApprovedPlaces
  <2>2. x.place \in Places /\ chain.height \in 0 .. MaxHeight
    BY DEF ApprovalTypeOK, Approvals, Heads
  <2>3. Settles(x.place, chain.height)
    BY <2>1, <2>2 DEF Settles
  <2>4. placed'[chain'.fork] = x.place /\ chain.height <= chain'.height
    BY <2>1, <2>2, <2>3, ChainKeepsSettled
  <2>5. chain'.height \in Nat
    BY <2>2, ConstantTypes DEF MineBlock, Reorganize, ApprovalTypeOK, Heads
  <2> QED BY <2>1, <2>2, <2>4, <2>5, ConstantTypes DEF Places
<1> QED BY <1>1, <1>2, <1>3, <1>4 DEF FinalityInv, ApprovedPlaces

\* A provider catches up: it has the chain itself.
LEMMA SyncKeepsFinality ==
  ASSUME ApprovalTypeOK, FinalityInv, NEW n \in Nodes, NodeSyncs(n)
  PROVE  FinalityInv'
<1>1. UNCHANGED <<chain, placed, source, approved>>
  BY DEF NodeSyncs
<1>2. ASSUME NEW m \in Nodes
      PROVE  /\ node'[m].fork <= chain'.fork /\ node'[m].height <= chain'.height
             /\ Settles(SeenBy(m), node[m].height)'
  <2>1. CASE m = n
    <3>1. node'[m] = chain
      BY <2>1 DEF NodeSyncs, ApprovalTypeOK
    <3>2. SeenBy(m)' = placed[chain.fork] \/ SeenBy(m)' = Nowhere
      BY <1>1, <3>1 DEF SeenBy
    <3> QED BY <1>1, <3>1, <3>2 DEF Settles, ApprovalTypeOK, Heads, Forks
  <2>2. CASE m # n
    <3>1. node'[m] = node[m]
      BY <2>2 DEF NodeSyncs, ApprovalTypeOK
    <3> QED BY <1>1, <3>1 DEF FinalityInv, NodesBehind, Settles, SeenBy
  <2> QED BY <2>1, <2>2
<1> QED BY <1>1, <1>2 DEF FinalityInv, NodesBehind, SourceSettles, Settles, ApprovedSettles,
           ApprovedPlaces

\* The source approves what it has seen settled.
LEMMA SourceKeepsFinality ==
  ASSUME ApprovalTypeOK, FinalityInv, Approving
  PROVE  FinalityInv'
<1>1. UNCHANGED <<chain, placed, node>>
  BY DEF Approving, SourceBegins, SourceReadsSecondary, SourceReadsHeight,
         SourceChecksFinality, SourceFails, SourcePreflights
<1>2. NodesBehind'
  BY <1>1 DEF FinalityInv, NodesBehind, Settles, SeenBy
<1>3. \A place, height : Settles(place, height) => Settles(place, height)'
  BY <1>1 DEF Settles
<1>4. approved' = approved => ApprovedSettles' /\ ApprovedPlaces'
  BY <1>1 DEF FinalityInv, ApprovedSettles, ApprovedPlaces
<1>5. ASSUME NEW a \in Authorizations, SourceBegins(a) PROVE FinalityInv'
  <2>1. source'.primary # Nowhere /\ source'.at = "secondary"
    BY <1>5 DEF SourceBegins, SourceIdle, Finds
  <2> QED BY <1>2, <1>4, <1>5, <2>1 DEF FinalityInv, SourceSettles, SourceBegins
<1>6. CASE SourceReadsSecondary
  <2>1. source # SourceIdle
    BY <1>6 DEF SourceReadsSecondary, SourceIdle
  <2>2. source' = SourceIdle \/ (source'.at = "height" /\ source'.primary = source.primary)
    BY <1>6, <2>1 DEF SourceReadsSecondary, ApprovalTypeOK, SourceStates
  <2> QED BY <1>2, <1>4, <1>6, <2>1, <2>2
          DEF FinalityInv, SourceSettles, SourceReadsSecondary, SourceIdle
<1>7. CASE SourceReadsHeight
  <2>1. source # SourceIdle
    BY <1>7 DEF SourceReadsHeight, SourceIdle
  <2>2. /\ source'.at = "finality" /\ source'.primary = source.primary
        /\ source'.latest = node["primary"].height
        /\ source'.moved = (SeenBy("primary") # source.primary)
    BY <1>7, <2>1 DEF SourceReadsHeight, ApprovalTypeOK, SourceStates
  <2>3. Settles(SeenBy("primary"), node["primary"].height)
    BY DEF FinalityInv, NodesBehind, Nodes
  <2>4. ~source'.moved => Settles(source'.primary, source'.latest)
    BY <2>2, <2>3
  <2>5. ~source'.moved => Settles(source.primary, source.latest)'
    BY <1>1, <2>4 DEF Settles
  <2> QED BY <1>2, <1>4, <1>7, <2>1, <2>2, <2>5
          DEF FinalityInv, SourceSettles, SourceReadsHeight
<1>8. CASE SourceChecksFinality
  <2>1. source # SourceIdle /\ source.at = "finality"
    BY <1>8 DEF SourceChecksFinality, SourceIdle
  <2>2. \/ source' = SourceIdle
        \/ /\ source'.at = "preflight" /\ source'.primary = source.primary
           /\ source'.latest = source.latest /\ (~source'.moved => ~source.moved)
           /\ source.latest - source.primary.block >= Finality
    BY <1>8, <2>1 DEF SourceChecksFinality, ApprovalTypeOK, SourceStates, Final
  <2>3. ~source.moved => Settles(source.primary, source.latest)
    BY <2>1 DEF FinalityInv, SourceSettles
  <2>4. source' # SourceIdle /\ ~source'.moved => Settles(source.primary, source.latest)'
    BY <1>1, <2>2, <2>3 DEF Settles
  <2> QED BY <1>2, <1>4, <1>8, <2>1, <2>2, <2>4
          DEF FinalityInv, SourceSettles, SourceChecksFinality, SourceIdle
<1>9. CASE SourceFails
  BY <1>2, <1>4, <1>9 DEF FinalityInv, SourceSettles, SourceFails, SourceIdle
<1>10. ASSUME NEW p \in Psbts, SourcePreflights(p) PROVE FinalityInv'
  <2>1. source # SourceIdle /\ source.at = "preflight" /\ source' = SourceIdle
    BY <1>10 DEF SourcePreflights, SourceIdle
  <2> DEFINE x == [auth |-> source.auth, place |-> source.primary, moved |-> source.moved]
  <2>2. approved' \subseteq approved \cup {x}
    BY <1>10 DEF SourcePreflights
  <2>3. source.primary \in Places /\ source.latest \in 0 .. MaxHeight /\ source.primary # Nowhere
    BY <2>1 DEF ApprovalTypeOK, SourceStates, FinalityInv, SourceSettles
  <2>4. ~source.moved => placed[chain.fork] = source.primary /\ source.latest <= chain.height
    BY <2>1, <2>3 DEF FinalityInv, SourceSettles, Settles
  <2>5. ~source.moved => chain.height - source.primary.block >= Finality
    <3>1. chain.height \in Nat /\ source.latest \in Nat /\ source.primary.block \in Nat
      BY <2>3, ConstantTypes DEF ApprovalTypeOK, Heads, Places
    <3>2. source.latest - source.primary.block >= Finality
      BY <2>1 DEF FinalityInv, SourceSettles
    <3> QED BY <2>4, <3>1, <3>2, ConstantTypes
  <2>6. ApprovedSettles'
    BY <1>1, <2>2, <2>4, <2>5 DEF FinalityInv, ApprovedSettles
  <2>7. ApprovedPlaces'
    BY <2>2, <2>3 DEF FinalityInv, ApprovedPlaces
  <2>8. SourceSettles'
    BY <2>1 DEF SourceSettles, SourceIdle
  <2> QED BY <1>2, <2>6, <2>7, <2>8 DEF FinalityInv
<1> QED BY <1>5, <1>6, <1>7, <1>8, <1>9, <1>10 DEF Approving

LEMMA FinalityStep == SigningTypeOK /\ FinalityInv /\ [Next]_vars => FinalityInv'
<1> SUFFICES ASSUME SigningTypeOK, FinalityInv, [Next]_vars PROVE FinalityInv'
  OBVIOUS
<1>1. ApprovalTypeOK
  BY DEF SigningTypeOK
<1>2. CASE MineBlock \/ \E base \in 0 .. MaxHeight : Reorganize(base)
  BY <1>1, <1>2, ChainKeepsFinality
<1>3. ASSUME NEW n \in Nodes, NodeSyncs(n) PROVE FinalityInv'
  BY <1>1, <1>3, SyncKeepsFinality
<1>4. CASE Approving
  BY <1>1, <1>4, SourceKeepsFinality
<1>5. UNCHANGED <<chain, placed, node, source, approved>> => FinalityInv'
  BY DEF FinalityInv, NodesBehind, SourceSettles, Settles, SeenBy, ApprovedSettles,
         ApprovedPlaces
<1>6. CASE ApprovalTick \/ Signing \/ UNCHANGED vars
  BY <1>5, <1>6 DEF ApprovalTick, Signing, Attest, RunBegins, RunInserts, RunSigns,
     RunCannotSign, RunMarks, RunEnds, approvalVars, vars
<1> QED BY <1>2, <1>3, <1>4, <1>6 DEF Next, Chaining

\* What the source approved is final and stays so, unless a provider moved to
\* another fork while the source was reading.
THEOREM ApprovalsStayFinal == Spec => []ApprovedIsFinal
<1>1. Init => FinalityInv
  BY ConstantTypes DEF Init, ApprovalInit, FinalityInv, NodesBehind, SourceSettles, Settles,
     SeenBy, ApprovedSettles, ApprovedPlaces, SourceIdle, Forks
<1>2. FinalityInv => ApprovedIsFinal
  BY DEF FinalityInv, ApprovedSettles, ApprovedIsFinal
<1> QED BY <1>1, <1>2, InitTypes, NextTypes, FinalityStep, PTL DEF Spec

-----------------------------------------------------------------------------
(* The signer's table.  A run that is to sign, or has signed, finds its      *)
(* redeem id reserved for its own plan, and so does every signature.         *)

ReservedFor(a, p) == row[IdOf[a]] # NoRow /\ PlanOf[row[IdOf[a]].plan] = PlanOf[p]

RunsReserved ==
  \A r \in Runs : run[r].at \in {"sign", "mark"} => ReservedFor(run[r].auth, run[r].psbt)

SignaturesReserved == \A s \in signatures : ReservedFor(s[1], s[2])

TableInv == RunsReserved /\ SignaturesReserved

\* What a row is committed to, it stays committed to.
RowsStay ==
  \A id \in RedeemIds : row[id] # NoRow =>
    row'[id] # NoRow /\ PlanOf[row'[id].plan] = PlanOf[row[id].plan]

LEMMA ReservationsStay ==
  ASSUME NEW a \in Authorizations, NEW p \in Psbts, ReservedFor(a, p), RowsStay
  PROVE  ReservedFor(a, p)'
<1>1. IdOf[a] \in RedeemIds
  BY DEF RedeemIds
<1> QED BY <1>1 DEF ReservedFor, RowsStay

\* A row that a run makes is a row.
LEMMA ReservedRow ==
  ASSUME NEW a \in Authorizations, NEW p \in Psbts
  PROVE  [auth |-> a, plan |-> p, status |-> "reserved", psbt |-> "none"] # NoRow
  BY BtcSignerAssumption

LEMMA SignerKeepsRows == SignerTypeOK /\ Signing => RowsStay
<1> SUFFICES ASSUME SignerTypeOK, Signing PROVE RowsStay
  OBVIOUS
<1>1. UNCHANGED row => RowsStay
  BY DEF RowsStay
<1>2. ASSUME NEW r \in Runs, RunInserts(r) PROVE RowsStay
  BY <1>2 DEF RunInserts, Reserves, RowsStay, SignerTypeOK
<1>3. ASSUME NEW r \in Runs, RunMarks(r) PROVE RowsStay
  <2>1. run[r].auth \in Authorizations /\ run[r].psbt \in Psbts
    BY <1>3 DEF SignerTypeOK, RunStates, RunMarks, RunIdle
  <2> SUFFICES ASSUME NEW id \in RedeemIds, row[id] # NoRow
               PROVE  row'[id] # NoRow /\ PlanOf[row'[id].plan] = PlanOf[row[id].plan]
    BY DEF RowsStay
  <2>2. row[id] \in Decisions
    BY DEF SignerTypeOK
  <2>3. row'[id] = row[id] \/ row'[id] = [row[id] EXCEPT !.status = "signed", !.psbt = run[r].psbt]
    BY <1>3 DEF RunMarks, SignerTypeOK
  <2>4. [row[id] EXCEPT !.status = "signed", !.psbt = run[r].psbt] \in Decisions
    BY <2>1, <2>2 DEF Decisions
  <2>5. NoRow \notin Decisions
    BY BtcSignerAssumption DEF Decisions
  <2> QED BY <2>2, <2>3, <2>4, <2>5 DEF Decisions
<1> QED BY <1>1, <1>2, <1>3 DEF Signing, Attest, RunBegins, RunSigns, RunCannotSign, RunEnds

\* A step that starts no signing and signs nothing keeps every reservation.
LEMMA OthersKeepTable ==
  ASSUME SignerTypeOK, TableInv, RowsStay,
         \A r \in Runs : run'[r].at \in {"sign", "mark"} =>
           run[r].at \in {"sign", "mark"} /\ run'[r].auth = run[r].auth /\ run'[r].psbt = run[r].psbt,
         UNCHANGED signatures
  PROVE  TableInv'
<1>1. ASSUME NEW r \in Runs, run'[r].at \in {"sign", "mark"}
      PROVE  ReservedFor(run[r].auth, run[r].psbt)'
  <2>1. run[r].auth \in Authorizations /\ run[r].psbt \in Psbts
    BY <1>1 DEF SignerTypeOK, RunStates, RunIdle
  <2>2. ReservedFor(run[r].auth, run[r].psbt)
    BY <1>1 DEF TableInv, RunsReserved
  <2>3. IdOf[run[r].auth] \in RedeemIds
    BY <2>1 DEF RedeemIds
  <2> QED BY <1>1, <2>2, <2>3 DEF ReservedFor, RowsStay
<1>2. ASSUME NEW s \in signatures PROVE ReservedFor(s[1], s[2])'
  BY <1>2, ReservationsStay DEF SignerTypeOK, TableInv, SignaturesReserved
<1> QED BY <1>1, <1>2 DEF TableInv, RunsReserved, SignaturesReserved

LEMMA SignerKeepsTable == SignerTypeOK /\ TableInv /\ Signing => TableInv'
<1> SUFFICES ASSUME SignerTypeOK, TableInv, Signing PROVE TableInv'
  OBVIOUS
<1>1. RowsStay
  BY SignerKeepsRows
<1>2. ASSUME NEW s \in Honest, NEW a \in Authorizations, Attest(s, a) PROVE TableInv'
  BY <1>1, <1>2, OthersKeepTable DEF Attest
<1>3. ASSUME NEW a \in Authorizations, NEW p \in Psbts, NEW dry \in BOOLEAN, RunBegins(a, p, dry)
      PROVE  TableInv'
  <2>1. PICK r \in Runs :
          \/ run' = [run EXCEPT ![r] = [at |-> "insert", auth |-> a, psbt |-> p, dry |-> dry]]
          \/ /\ row[IdOf[a]] # NoRow /\ SameDigests(row[IdOf[a]], a, p)
             /\ run' = [run EXCEPT ![r] = [at |-> "sign", auth |-> a, psbt |-> p, dry |-> dry]]
    BY <1>3 DEF RunBegins
  <2>2. UNCHANGED <<row, signatures>>
    BY <1>3 DEF RunBegins
  <2>3. ASSUME NEW q \in Runs, run'[q].at \in {"sign", "mark"}
        PROVE  ReservedFor(run[q].auth, run[q].psbt)'
    BY <2>1, <2>2, <2>3 DEF SignerTypeOK, SameDigests, ReservedFor, TableInv, RunsReserved
  <2> QED BY <2>2, <2>3 DEF TableInv, RunsReserved, SignaturesReserved, ReservedFor
<1>4. ASSUME NEW r \in Runs, RunInserts(r) PROVE TableInv'
  <2>1. run[r].auth \in Authorizations /\ run[r].psbt \in Psbts /\ IdOf[run[r].auth] \in RedeemIds
    BY <1>4 DEF SignerTypeOK, RunStates, RunInserts, RunIdle, RedeemIds
  <2> DEFINE a == run[r].auth p == run[r].psbt
  <2>2. \/ run'[r] = RunIdle
        \/ /\ run'[r] = [run[r] EXCEPT !.at = "sign"]
           /\ row'[IdOf[a]] = [auth |-> a, plan |-> p, status |-> "reserved", psbt |-> "none"]
    BY <1>4, <2>1 DEF RunInserts, Reserves, SignerTypeOK
  <2>3. \/ run'[r] = RunIdle
        \/ run'[r].auth = a /\ run'[r].psbt = p /\ row'[IdOf[a]] # NoRow /\ row'[IdOf[a]].plan = p
    BY <2>1, <2>2, ReservedRow, <1>4 DEF SignerTypeOK, RunStates, RunInserts, RunIdle
  <2>4. \A q \in Runs : q # r => run'[q] = run[q]
    BY <1>4 DEF RunInserts, SignerTypeOK
  <2>5. ASSUME NEW q \in Runs, run'[q].at \in {"sign", "mark"}
        PROVE  ReservedFor(run[q].auth, run[q].psbt)'
    <3>1. CASE q = r
      BY <2>3, <2>5, <3>1 DEF ReservedFor, RunIdle
    <3>2. CASE q # r
      <4>1. run'[q] = run[q] /\ run[q].auth \in Authorizations /\ run[q].psbt \in Psbts
        BY <2>4, <2>5, <3>2 DEF SignerTypeOK, RunStates, RunIdle
      <4>2. ReservedFor(run[q].auth, run[q].psbt) /\ IdOf[run[q].auth] \in RedeemIds
        BY <2>5, <4>1 DEF TableInv, RunsReserved, RedeemIds
      <4> QED BY <1>1, <4>1, <4>2 DEF ReservedFor, RowsStay
    <3> QED BY <3>1, <3>2
  <2>6. SignaturesReserved'
    BY <1>1, <1>4, ReservationsStay DEF RunInserts, SignerTypeOK, TableInv, SignaturesReserved
  <2> QED BY <2>5, <2>6 DEF TableInv, RunsReserved
<1>5. ASSUME NEW r \in Runs, RunSigns(r) PROVE TableInv'
  <2>1. ReservedFor(run[r].auth, run[r].psbt) /\ UNCHANGED row
    BY <1>5 DEF RunSigns, TableInv, RunsReserved
  <2>2. \A q \in Runs : run'[q].at \in {"sign", "mark"} =>
          run[q].at \in {"sign", "mark"} /\ run'[q].auth = run[q].auth /\ run'[q].psbt = run[q].psbt
    BY <1>5 DEF RunSigns, SignerTypeOK, RunStates, RunIdle
  <2>3. RunsReserved'
    BY <2>1, <2>2 DEF TableInv, RunsReserved, ReservedFor
  <2>4. SignaturesReserved'
    <3>1. signatures' = signatures \cup {<<run[r].auth, run[r].psbt>>}
      BY <1>5 DEF RunSigns
    <3>2. \A s \in signatures : ReservedFor(s[1], s[2])
      BY DEF TableInv, SignaturesReserved
    <3>3. \A s \in signatures' : ReservedFor(s[1], s[2])
      BY <2>1, <3>1, <3>2
    <3> QED BY <2>1, <3>3 DEF SignaturesReserved, ReservedFor
  <2> QED BY <2>3, <2>4 DEF TableInv
<1>6. ASSUME NEW r \in Runs, RunCannotSign(r) \/ RunEnds(r) \/ RunMarks(r) PROVE TableInv'
  <2>1. \A q \in Runs : run'[q] = run[q] \/ run'[q] = RunIdle
    BY <1>6 DEF RunCannotSign, RunEnds, RunMarks, SignerTypeOK
  <2>2. UNCHANGED signatures
    BY <1>6 DEF RunCannotSign, RunEnds, RunMarks
  <2> QED BY <1>1, <2>1, <2>2, OthersKeepTable DEF RunIdle
<1> QED BY <1>2, <1>3, <1>4, <1>5, <1>6 DEF Signing

LEMMA TableStep == SigningTypeOK /\ TableInv /\ [Next]_vars => TableInv'
<1> SUFFICES ASSUME SigningTypeOK, TableInv, [Next]_vars PROVE TableInv'
  OBVIOUS
<1>1. UNCHANGED signerVars => TableInv'
  BY DEF signerVars, TableInv, RunsReserved, SignaturesReserved, ReservedFor
<1> QED BY <1>1, SignerKeepsTable DEF Next, vars, SigningTypeOK

LEMMA TableHolds == Spec => []TableInv
<1>1. Init => TableInv
  BY DEF Init, SignerInit, TableInv, RunsReserved, SignaturesReserved, RunIdle
<1> QED BY <1>1, InitTypes, NextTypes, TableStep, PTL DEF Spec

-----------------------------------------------------------------------------
(* Attestation.  What a run is at work on an honest signer has signed, as a  *)
(* quorum of the DON's signers has one in it.                                *)

LEMMA QuorumHasHonest == ASSUME NEW made \in Attesting PROVE \E s \in made : s \in Honest
<1> SUFFICES ASSUME \A s \in made : s \notin Honest PROVE FALSE
  OBVIOUS
<1>1. SignerSet \in Seq(Nat) /\ Threshold \in 1 .. Len(SignerSet)
  BY ReleaseChecksAssumption DEF ValidSignerSet
<1>2. Threshold \in Nat \ {0}
  BY <1>1
<1> DEFINE attestation(addresses) ==
      [signerSet |-> SignerSetDigest(SignerSet, Threshold),
       signatures |-> [i \in 1 .. Threshold |-> [address |-> addresses[i], canonical |-> TRUE]]]
<1>3. PICK addresses \in [1 .. Threshold -> made] :
        VerifyAttestation(SignerSet, Threshold, attestation(addresses))
  BY DEF Attesting
<1>4. \A i \in 1 .. Threshold : /\ \E j \in DOMAIN SignerSet : SignerSet[j] = addresses[i]
                                /\ \A j \in 1 .. i - 1 : addresses[j] # addresses[i]
  <2> SUFFICES ASSUME NEW i \in 1 .. Threshold
               PROVE  /\ \E j \in DOMAIN SignerSet : SignerSet[j] = addresses[i]
                      /\ \A j \in 1 .. i - 1 : addresses[j] # addresses[i]
    OBVIOUS
  <2>1. attestation(addresses).signatures[i].address = addresses[i]
    OBVIOUS
  <2>2. \A j \in 1 .. i - 1 : j \in 1 .. Threshold
                              /\ attestation(addresses).signatures[j].address = addresses[j]
    BY <1>2
  <2>3. i \in DOMAIN attestation(addresses).signatures
    OBVIOUS
  <2> HIDE DEF attestation
  <2> QED BY <1>3, <2>1, <2>2, <2>3 DEF VerifyAttestation
<1>5. \A i \in 1 .. Threshold : addresses[i] \in Signers \ Honest
  BY <1>4 DEF Signers
<1>6. addresses \in [1 .. Threshold -> Signers \ Honest]
  BY <1>5
<1>7. IsFiniteSet(1 .. Threshold) /\ Cardinality(1 .. Threshold) = Threshold
  BY <1>2, FS_Interval
<1>8. IsFiniteSet(Signers \ Honest)
  BY BtcSignerAssumption, FS_Subset
<1>9. Cardinality(Signers \ Honest) < Cardinality(1 .. Threshold)
  BY <1>7, BtcSignerAssumption
<1> HIDE DEF attestation
<1>10. \E i, j \in 1 .. Threshold : i # j /\ addresses[i] = addresses[j]
  <2> DEFINE S == 1 .. Threshold  T == Signers \ Honest
  <2>1. IsFiniteSet(S) /\ IsFiniteSet(T) /\ Cardinality(T) < Cardinality(S) /\ addresses \in [S -> T]
    BY <1>6, <1>7, <1>8, <1>9
  <2> HIDE DEF S, T
  <2>2. ASSUME \A i, j \in S : addresses[i] = addresses[j] => i = j PROVE FALSE
    <3>1. addresses \in Injection(S, T)
      BY <2>1, <2>2 DEF Injection, IsInjective
    <3>2. Cardinality(S) <= Cardinality(T)
      BY <2>1, <3>1, FS_Injection
    <3> QED BY <2>1, <3>2, FS_CardinalityType
  <2> QED BY <2>2 DEF S
<1>11. PICK i \in 1 .. Threshold, j \in 1 .. Threshold : i < j /\ addresses[i] = addresses[j]
  BY <1>2, <1>10
<1>12. i \in 1 .. j - 1
  BY <1>2, <1>11
<1> QED BY <1>4, <1>11, <1>12

IsAttested(a) == \E h \in Honest : <<h, a>> \in attested

RunsAttested ==
  \A r \in Runs : run[r] # RunIdle =>
    <<run[r].auth, run[r].psbt>> \in Committed /\ IsAttested(run[r].auth)

SignaturesAttested == \A s \in signatures : s \in Committed /\ IsAttested(s[1])

SignerInv == RunsAttested /\ SignaturesAttested

LEMMA PolicyMeansAttested ==
  ASSUME SignerTypeOK, NEW a \in Authorizations, NEW p \in Psbts, PolicyHolds(a, p)
  PROVE  <<a, p>> \in Committed /\ IsAttested(a)
<1> DEFINE made == {x[1] : x \in {y \in attested : y[2] = a}}
<1>1. <<a, p>> \in Committed /\ made \in Attesting
  BY DEF PolicyHolds
<1>2. PICK s \in made : s \in Honest
  BY <1>1, QuorumHasHonest
<1>3. PICK y \in attested : y[2] = a /\ y[1] = s
  BY <1>2
<1>4. y = <<s, a>>
  BY <1>3 DEF SignerTypeOK
<1> QED BY <1>1, <1>2, <1>3, <1>4 DEF IsAttested

LEMMA SignerKeepsAttested == SignerTypeOK /\ SignerInv /\ Signing => SignerInv'
<1> SUFFICES ASSUME SignerTypeOK, SignerInv, Signing PROVE SignerInv'
  OBVIOUS
<1>1. \A a : IsAttested(a) => IsAttested(a)'
  BY DEF IsAttested, Signing, Attest, RunBegins, RunInserts, RunSigns, RunCannotSign, RunMarks,
     RunEnds
<1>2. ASSUME NEW s \in Honest, NEW a \in Authorizations, Attest(s, a) PROVE SignerInv'
  <2>1. UNCHANGED <<run, signatures>>
    BY <1>2 DEF Attest
  <2> QED BY <1>1, <2>1 DEF SignerInv, RunsAttested, SignaturesAttested
<1>3. ASSUME NEW a \in Authorizations, NEW p \in Psbts, NEW dry \in BOOLEAN, RunBegins(a, p, dry)
      PROVE  SignerInv'
  <2>1. <<a, p>> \in Committed /\ IsAttested(a)
    BY <1>3, PolicyMeansAttested DEF RunBegins
  <2>2. PICK r \in Runs, at \in {"insert", "sign"} :
          run' = [run EXCEPT ![r] = [at |-> at, auth |-> a, psbt |-> p, dry |-> dry]]
    BY <1>3 DEF RunBegins
  <2>3. RunsAttested'
    BY <1>1, <2>1, <2>2 DEF SignerInv, RunsAttested, SignerTypeOK
  <2> QED BY <1>1, <1>3, <2>3 DEF RunBegins, SignerInv, SignaturesAttested
<1>4. ASSUME NEW r \in Runs,
             RunInserts(r) \/ RunCannotSign(r) \/ RunMarks(r) \/ RunEnds(r)
      PROVE  SignerInv'
  <2>1. UNCHANGED <<attested, signatures>>
    BY <1>4 DEF RunInserts, RunCannotSign, RunMarks, RunEnds
  <2>2. \A q \in Runs : run'[q] # RunIdle =>
          run[q] # RunIdle /\ run'[q].auth = run[q].auth /\ run'[q].psbt = run[q].psbt
    <3>1. run[r] \in RunStates /\ run \in [Runs -> RunStates]
      BY DEF SignerTypeOK
    <3>2. CASE run' = [run EXCEPT ![r] = RunIdle]
      BY <3>1, <3>2
    <3>3. CASE run[r].at = "insert" /\ run' = [run EXCEPT ![r] = [run[r] EXCEPT !.at = "sign"]]
      <4>1. /\ run'[r] = [run[r] EXCEPT !.at = "sign"] /\ run[r] # RunIdle
            /\ \A q \in Runs : q # r => run'[q] = run[q]
        BY <3>1, <3>3 DEF RunIdle
      <4>2. run[r] \in [at : {"insert", "sign", "mark"}, auth : Authorizations, psbt : Psbts,
                        dry : BOOLEAN]
        BY <3>1, <4>1 DEF RunStates
      <4>3. run'[r].auth = run[r].auth /\ run'[r].psbt = run[r].psbt
        BY <4>1, <4>2
      <4> QED BY <4>1, <4>3
    <3>4. CASE RunInserts(r)
      <4>1. run[r].at = "insert"
            /\ \/ run' = [run EXCEPT ![r] = IF run[r].dry THEN RunIdle ELSE [run[r] EXCEPT !.at = "sign"]]
               \/ run' = [run EXCEPT ![r] = RunIdle]
        BY <3>4 DEF RunInserts
      <4> QED BY <3>2, <3>3, <4>1
    <3>5. CASE RunCannotSign(r) \/ RunMarks(r) \/ RunEnds(r)
      BY <3>2, <3>5 DEF RunCannotSign, RunMarks, RunEnds
    <3> QED BY <1>4, <3>4, <3>5
  <2>3. RunsAttested'
    BY <1>1, <2>2 DEF SignerInv, RunsAttested
  <2> QED BY <1>1, <2>1, <2>3 DEF SignerInv, SignaturesAttested
<1>5. ASSUME NEW r \in Runs, RunSigns(r) PROVE SignerInv'
  <2>1. run[r] # RunIdle /\ run[r] \in RunStates
    BY <1>5 DEF RunSigns, RunIdle, SignerTypeOK
  <2>2. <<run[r].auth, run[r].psbt>> \in Committed /\ IsAttested(run[r].auth)
    BY <2>1 DEF SignerInv, RunsAttested
  <2>3. SignaturesAttested'
    BY <1>1, <1>5, <2>2 DEF RunSigns, SignerInv, SignaturesAttested
  <2>4. \A q \in Runs : run'[q] # RunIdle =>
          run[q] # RunIdle /\ run'[q].auth = run[q].auth /\ run'[q].psbt = run[q].psbt
    BY <1>5, <2>1 DEF RunSigns, SignerTypeOK, RunStates, RunIdle
  <2> QED BY <1>1, <1>5, <2>3, <2>4 DEF RunSigns, SignerInv, RunsAttested
<1> QED BY <1>2, <1>3, <1>4, <1>5 DEF Signing

LEMMA SignerInvStep == SigningTypeOK /\ SignerInv /\ [Next]_vars => SignerInv'
<1> SUFFICES ASSUME SigningTypeOK, SignerInv, [Next]_vars PROVE SignerInv'
  OBVIOUS
<1>1. CASE UNCHANGED signerVars
  BY <1>1 DEF signerVars, SignerInv, RunsAttested, SignaturesAttested, IsAttested
<1> QED BY <1>1, SignerKeepsAttested DEF Next, vars, SigningTypeOK

\* A PSBT is what its own spend plan says.
LEMMA PlanIsOfPsbt == ASSUME NEW p \in Psbts PROVE FinalTransactionMatches(Psbt[p], PlanOf[p])
<1>1. PlanOf[p] = SpendPlan(Psbt[p])
  BY DEF PlanOf
<1> QED BY <1>1 DEF FinalTransactionMatches, SpendPlan

\* Nothing is signed that no honest signer of the DON has attested, whatever the
\* others signed and in whatever number of copies, nor another transaction than
\* the attested authorization commits to.
THEOREM SignaturesAreAttested == Spec => []SignedIsAttested
<1>1. Init => SignerInv
  BY DEF Init, SignerInit, SignerInv, RunsAttested, SignaturesAttested
<1>2. SigningTypeOK /\ SignerInv => SignedIsAttested
  BY PlanIsOfPsbt DEF SigningTypeOK, SignerTypeOK, SignerInv, SignaturesAttested, IsAttested,
     SignedIsAttested
<1> QED BY <1>1, <1>2, InitTypes, NextTypes, SignerInvStep, PTL DEF Spec

-----------------------------------------------------------------------------
(* One payment.  An approval names the log it saw, so two approvals that are *)
(* settled name one log and with it one redeem id.                           *)

IsOfLog(a, place) ==
  /\ a.domain = Domain /\ EventMatches(EventAt(place), a)
  /\ a.id = RedeemId(a.domain, a.tx, a.log, a.hash)

ApprovedLog == \A x \in approved : IsOfLog(Auth[x.auth], x.place)

LEMMA ApprovedLogStep == ApprovedLog /\ [Next]_vars => ApprovedLog'
<1> SUFFICES ASSUME ApprovedLog, [Next]_vars PROVE ApprovedLog'
  OBVIOUS
<1>1. CASE UNCHANGED approved
  BY <1>1 DEF ApprovedLog
<1>2. ASSUME NEW p \in Psbts, SourcePreflights(p) PROVE ApprovedLog'
  <2> DEFINE a == Auth[source.auth]
             x == [auth |-> source.auth, place |-> source.primary, moved |-> source.moved]
  <2>1. CASE ~ Preflight(a, EventAt(source.primary), EventAt(source.secondary), {},
                         SpendPlan(Psbt[p]), now)
    BY <1>1, <1>2, <2>1 DEF SourcePreflights
  <2>2. CASE Preflight(a, EventAt(source.primary), EventAt(source.secondary), {},
                       SpendPlan(Psbt[p]), now)
    <3>1. IsOfLog(a, source.primary)
      BY <2>2 DEF Preflight, VerifyRedeemEvent, IsOfLog
    <3>2. approved' = approved \cup {x}
      BY <1>2, <2>2 DEF SourcePreflights
    <3>3. x.auth = source.auth /\ x.place = source.primary
      OBVIOUS
    <3> HIDE DEF x
    <3>4. \A y \in approved' : IsOfLog(Auth[y.auth], y.place)
      BY <3>1, <3>2, <3>3 DEF ApprovedLog
    <3> QED BY <3>4 DEF ApprovedLog
  <2> QED BY <2>1, <2>2
<1>3. \/ UNCHANGED approved
      \/ \E p \in Psbts : SourcePreflights(p)
  BY DEF Next, vars, approvalVars, Chaining, MineBlock, ApprovalTick, Reorganize, NodeSyncs,
         Approving, SourceBegins, SourceReadsSecondary, SourceReadsHeight, SourceChecksFinality,
         SourceFails, Signing, Attest, RunBegins, RunInserts, RunSigns, RunCannotSign, RunMarks,
         RunEnds
<1> QED BY <1>1, <1>2, <1>3

\* The redeem id is the log's: of one place, one id.
LEMMA OneIdPerPlace ==
  ASSUME NEW a \in Authorizations, NEW b \in Authorizations, NEW place,
         IsOfLog(Auth[a], place), IsOfLog(Auth[b], place)
  PROVE  IdOf[a] = IdOf[b]
<1>1. \A f \in {"hash", "tx", "log"} : Auth[a][f] = EventAt(place)[f] /\ Auth[b][f] = EventAt(place)[f]
  BY DEF IsOfLog, EventMatches
<1>2. Auth[a].hash = Auth[b].hash /\ Auth[a].tx = Auth[b].tx /\ Auth[a].log = Auth[b].log
  BY <1>1
<1>3. Auth[a].id = Auth[b].id
  BY <1>2 DEF IsOfLog
<1> QED BY <1>3 DEF IdOf

LEMMA SettledPaysOnce ==
  SigningTypeOK /\ ApprovedIsFinal /\ TableInv /\ ApprovedLog => OnePaymentPerBurn
<1> SUFFICES ASSUME SigningTypeOK, ApprovedIsFinal, TableInv, ApprovedLog,
                    NEW s \in signatures, NEW t \in signatures, Settled(s), Settled(t)
             PROVE  PlanOf[s[2]] = PlanOf[t[2]]
  BY DEF OnePaymentPerBurn
<1>1. PICK x \in approved : x.auth = s[1] /\ ~x.moved
  BY DEF Settled
<1>2. PICK y \in approved : y.auth = t[1] /\ ~y.moved
  BY DEF Settled
<1>3. x.place = y.place
  BY <1>1, <1>2 DEF ApprovedIsFinal
<1>4. s[1] \in Authorizations /\ t[1] \in Authorizations
  BY DEF SigningTypeOK, SignerTypeOK
<1>5. IdOf[s[1]] = IdOf[t[1]]
  BY <1>1, <1>2, <1>3, <1>4, OneIdPerPlace DEF ApprovedLog
<1> QED BY <1>5 DEF TableInv, SignaturesReserved, ReservedFor

\* The two promises together, the DON's source's and the signer's: however often
\* a burn is authorized, whatever reorganizations below finality do to its log
\* and however many runs sign, what is paid for it is one spend plan.
THEOREM PaymentsAreOne == Spec => []OnePaymentPerBurn
<1>1. Init => ApprovedLog
  BY DEF Init, ApprovalInit, ApprovedLog
<1>2. Spec => []ApprovedLog
  BY <1>1, ApprovedLogStep, PTL DEF Spec
<1>3. Spec => []SigningTypeOK
  BY InitTypes, NextTypes, PTL DEF Spec
<1> QED BY <1>2, <1>3, SettledPaysOnce, ApprovalsStayFinal, TableHolds, PTL

-----------------------------------------------------------------------------
(* The ledger.  A row is a commitment; a key's signature uses it.            *)

LEMMA LedgerInit == Init => Ledger!Init
<1> SUFFICES ASSUME Init PROVE Ledger!Init
  OBVIOUS
<1>1. \A id \in RedeemIds : row[id] = NoRow
  BY DEF Init, SignerInit
<1> QED BY <1>1 DEF Init, SignerInit, Ledger!Init

CommittedTo(id) == IF row[id] = NoRow THEN NoPlan ELSE PlanOf[row[id].plan]

LEMMA CommittedPlan ==
  ASSUME SignerTypeOK, NEW id \in RedeemIds PROVE CommittedTo(id) \in Plans \cup {NoPlan}
<1>1. row[id] = NoRow \/ row[id].plan \in Psbts
  BY DEF SignerTypeOK, Decisions
<1> QED BY <1>1 DEF CommittedTo, Plans

LEMMA InsertCommits ==
  ASSUME SignerTypeOK, NEW r \in Runs, RunInserts(r)
  PROVE  [Ledger!Next]_Ledger!ledgerVars
<1>1. CASE UNCHANGED row /\ UNCHANGED signatures
  BY <1>1 DEF Ledger!ledgerVars
<1>2. CASE row[IdOf[run[r].auth]] = NoRow /\ Reserves(r) /\ UNCHANGED signatures
  <2>1. run[r].auth \in Authorizations /\ run[r].psbt \in Psbts
    BY DEF RunInserts, SignerTypeOK, RunStates, RunIdle
  <2>2. PICK id \in RedeemIds, plan \in Plans :
          id = IdOf[run[r].auth] /\ plan = PlanOf[run[r].psbt]
    BY <2>1 DEF RedeemIds, Plans
  <2>3. /\ row'[id] # NoRow /\ row'[id].plan = run[r].psbt
        /\ \A other \in RedeemIds : other # id => row'[other] = row[other]
    BY <1>2, <2>1, <2>2, ReservedRow DEF Reserves, SignerTypeOK
  <2>4. CommittedTo(id) = NoPlan /\ CommittedTo(id)' = plan
    BY <1>2, <2>2, <2>3 DEF CommittedTo
  <2>5. \A other \in RedeemIds : other # id => CommittedTo(other)' = CommittedTo(other)
    BY <2>3 DEF CommittedTo
  <2>6. [i \in RedeemIds |-> CommittedTo(i)]' \in [RedeemIds -> Plans \cup {NoPlan}]
    <3>1. \A i \in RedeemIds : CommittedTo(i)' \in Plans \cup {NoPlan}
      BY <2>2, <2>4, <2>5, CommittedPlan
    <3> QED BY <3>1
  <2>7. Ledger!Commit(id)
    BY <1>2, <2>2, <2>4, <2>5, <2>6 DEF Ledger!Commit, CommittedTo
  <2> QED BY <2>2, <2>7 DEF Ledger!Next
<1> QED BY <1>1, <1>2 DEF RunInserts

LEMMA SignSigns ==
  ASSUME SignerTypeOK, TableInv, NEW r \in Runs, RunSigns(r)
  PROVE  [Ledger!Next]_Ledger!ledgerVars
<1> DEFINE used == {<<IdOf[s[1]], PlanOf[s[2]]>> : s \in signatures}
<1>1. run[r].auth \in Authorizations /\ run[r].psbt \in Psbts
  BY DEF RunSigns, SignerTypeOK, RunStates, RunIdle
<1>2. PICK id \in RedeemIds, plan \in Plans :
        id = IdOf[run[r].auth] /\ plan = PlanOf[run[r].psbt]
  BY <1>1 DEF RedeemIds, Plans
<1>3. row[id] # NoRow /\ PlanOf[row[id].plan] = plan
  BY <1>2 DEF RunSigns, TableInv, RunsReserved, ReservedFor
<1>4. CommittedTo(id) = plan /\ plan # NoPlan
  BY <1>2, <1>3, NoPlanAssumption DEF CommittedTo
<1>5. signatures' = signatures \cup {<<run[r].auth, run[r].psbt>>} /\ UNCHANGED row
  BY DEF RunSigns
<1>6. used' = used \cup {<<id, plan>>}
  <2>1. PICK new \in Authorizations \X Psbts : new = <<run[r].auth, run[r].psbt>>
    BY <1>1
  <2>2. signatures' = signatures \cup {new} /\ IdOf[new[1]] = id /\ PlanOf[new[2]] = plan
    BY <1>2, <1>5, <2>1
  <2>3. used' = {<<IdOf[s[1]], PlanOf[s[2]]>> : s \in signatures'}
    OBVIOUS
  <2>4. {<<IdOf[s[1]], PlanOf[s[2]]>> : s \in signatures \cup {new}}
          = used \cup {<<IdOf[new[1]], PlanOf[new[2]]>>}
    OBVIOUS
  <2> QED BY <2>2, <2>3, <2>4
<1>7. Ledger!Use(id)
  BY <1>2, <1>4, <1>5, <1>6 DEF Ledger!Use, CommittedTo
<1> QED BY <1>2, <1>7 DEF Ledger!Next

LEMMA MarkStutters ==
  ASSUME SignerTypeOK, NEW r \in Runs, RunMarks(r)
  PROVE  UNCHANGED Ledger!ledgerVars
<1>1. run[r].auth \in Authorizations /\ run[r].psbt \in Psbts
  BY DEF RunMarks, SignerTypeOK, RunStates, RunIdle
<1>2. \A id \in RedeemIds : CommittedTo(id)' = CommittedTo(id)
  <2> SUFFICES ASSUME NEW id \in RedeemIds PROVE CommittedTo(id)' = CommittedTo(id)
    OBVIOUS
  <2>1. CASE row'[id] = row[id]
    BY <2>1 DEF CommittedTo
  <2>2. CASE row[id] # NoRow /\ row'[id] = [row[id] EXCEPT !.status = "signed", !.psbt = run[r].psbt]
    <3>1. row[id] \in Decisions
      BY <2>2 DEF SignerTypeOK
    <3>2. row'[id] \in Decisions /\ row'[id].plan = row[id].plan
      BY <1>1, <2>2, <3>1 DEF Decisions
    <3>3. row'[id] # NoRow
      BY <3>2, BtcSignerAssumption DEF Decisions
    <3> QED BY <2>2, <3>2, <3>3 DEF CommittedTo
  <2> QED BY <2>1, <2>2 DEF RunMarks, SignerTypeOK
<1>3. UNCHANGED signatures
  BY DEF RunMarks
<1> QED BY <1>2, <1>3 DEF Ledger!ledgerVars, CommittedTo

LEMMA LedgerStep ==
  SigningTypeOK /\ TableInv /\ [Next]_vars => [Ledger!Next]_Ledger!ledgerVars
<1> SUFFICES ASSUME SignerTypeOK, TableInv, [Next]_vars
             PROVE  [Ledger!Next]_Ledger!ledgerVars
  BY DEF SigningTypeOK
<1>1. CASE UNCHANGED <<row, signatures>>
  BY <1>1 DEF Ledger!ledgerVars
<1>2. \/ UNCHANGED <<row, signatures>>
      \/ \E r \in Runs : RunInserts(r) \/ RunSigns(r) \/ RunMarks(r)
  BY DEF Next, vars, signerVars, Signing, Attest, RunBegins, RunCannotSign, RunEnds
<1> QED BY <1>1, <1>2, InsertCommits, SignSigns, MarkStutters

\* The signer implements CommitmentLedger, whatever its runs do to one another: a
\* redeem id is committed to a plan before anything is signed under it, and for
\* good.
THEOREM SigningImplementsLedger == Spec => ImplementsSigning
<1>1. Spec => []SigningTypeOK
  BY InitTypes, NextTypes, PTL DEF Spec
<1> QED BY <1>1, LedgerInit, LedgerStep, TableHolds, PTL DEF Spec, ImplementsSigning, Ledger!Spec

=============================================================================
