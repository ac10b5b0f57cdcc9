-------------------------- MODULE ReleaseApproval --------------------------
(***************************************************************************)
(* The DON's approval of a release (chainlink/functions/release-           *)
(* authorization.js): the burn's log read from two RPC providers, then     *)
(* their heights, then the adapter's preflight.  Each is a call of its     *)
(* own, and between two of them the chain grows or is rewritten and the    *)
(* providers move on.  There is one burn; its log may change its place.    *)
(***************************************************************************)
EXTENDS ReleaseChecks, BlockTime

CONSTANTS Authorizations,  \* names of the release authorizations people make
          Psbts,           \* names of the PSBTs people build
          Artifact,        \* [names -> the authorization or PSBT of that name]
          Burn,            \* the burn's terms, its script and transaction
          Logs,            \* the positions its log may have in a block
          Finality,        \* minFinalityBlocks
          MaxReorg,        \* bound: how deep a reorganization goes
          MaxHeight, MaxFork

ASSUME ReleaseApprovalAssumption ==
  /\ Finality \in Nat \ {0} /\ MaxReorg \in 0 .. Finality
  /\ Logs \subseteq Nat
  /\ MaxHeight \in Nat /\ MaxFork \in Nat

Auth == [a \in Authorizations |-> Artifact[a]]
Psbt == [p \in Psbts |-> Artifact[p]]

VARIABLES chain,           \* head of the EVM chain: its fork and its height
          placed,          \* [forks -> where the burn's log is on that fork]
          node,            \* [providers -> the head it has]
          source,          \* the execution of the DON's source
          approved         \* what the source approved

approvalVars == <<now, chain, placed, node, source, approved>>

Nodes == {"primary", "secondary"}
Forks == 0 .. MaxFork
Heads == [fork : Forks, height : 0 .. MaxHeight]

\* A place is a block, the fork that made that block (its hash) and a position.
Nowhere == [block |-> 0, hash |-> 0, log |-> 0]
Places == {Nowhere} \cup [block : 1 .. MaxHeight, hash : Forks, log : Logs]

SourceIdle == [at |-> "idle", auth |-> "none", primary |-> Nowhere,
               secondary |-> Nowhere, latest |-> 0, moved |-> FALSE]

SourceStates ==
  [at : {"secondary", "height", "finality", "preflight"}, auth : Authorizations,
   primary : Places, secondary : Places, latest : 0 .. MaxHeight,
   moved : BOOLEAN] \cup {SourceIdle}

\* moved is history: a height was read of a fork where the log is elsewhere.
Approvals == [auth : Authorizations, place : Places, moved : BOOLEAN]

ApprovalTypeOK ==
  /\ now \in 0 .. MaxTime
  /\ chain \in Heads /\ node \in [Nodes -> Heads]
  /\ placed \in [Forks -> Places]
  /\ source \in SourceStates
  /\ approved \subseteq Approvals

ApprovalInit ==
  /\ now = 0
  /\ chain = [fork |-> 0, height |-> 0] /\ node = [n \in Nodes |-> chain]
  /\ placed = [f \in Forks |-> Nowhere]
  /\ source = SourceIdle /\ approved = {}

-----------------------------------------------------------------------------
(* The EVM chain and the providers. *)

\* The places the burn's transaction, waiting for a block, gets in blocks a
\* to b of fork f: it may go on waiting.
NewPlaces(f, a, b) == {Nowhere} \cup [block : a .. b, hash : {f}, log : Logs]

MineBlock ==
  /\ chain.height < MaxHeight
  /\ chain' = [chain EXCEPT !.height = @ + 1]
  /\ \E place \in IF placed[chain.fork] # Nowhere THEN {placed[chain.fork]}
                  ELSE NewPlaces(chain.fork, chain.height + 1, chain.height + 1) :
       placed' = [placed EXCEPT ![chain.fork] = place]
  /\ UNCHANGED <<now, node, source, approved>>

\* Up to MaxReorg blocks are replaced by one more on another fork.
Reorganize(base) ==
  /\ chain.fork < MaxFork /\ chain.height < MaxHeight
  /\ base < chain.height /\ chain.height - base <= MaxReorg
  /\ chain' = [fork |-> chain.fork + 1, height |-> chain.height + 1]
  /\ \E place \in IF placed[chain.fork] # Nowhere /\ placed[chain.fork].block <= base
                  THEN {placed[chain.fork]}
                  ELSE NewPlaces(chain.fork + 1, base + 1, chain.height + 1) :
       placed' = [placed EXCEPT ![chain.fork + 1] = place]
  /\ UNCHANGED <<now, node, source, approved>>

\* A provider catches up with the chain; until then it answers from its head.
NodeSyncs(n) ==
  /\ node' = [node EXCEPT ![n] = chain]
  /\ UNCHANGED <<now, chain, placed, source, approved>>

ApprovalTick == Tick /\ UNCHANGED <<chain, placed, node, source, approved>>

\* Where a provider's chain has the log, Nowhere if it does not.
SeenBy(n) ==
  LET place == placed[node[n].fork]
  IN  IF place.block <= node[n].height THEN place ELSE Nowhere

\* The log as decodeRedeemLog reads it at a place.
EventAt(place) ==
  [hash |-> RequestHash(Domain, Burn), tx |-> Burn.tx, script |-> Burn.script,
   block |-> place.block, blockHash |-> place.hash, log |-> place.log,
   requester |-> Burn.requester, dest |-> Burn.dest, amount |-> Burn.amount,
   maxFee |-> Burn.maxFee, deadline |-> Burn.deadline, nonce |-> Burn.nonce]

-----------------------------------------------------------------------------
(* The source. *)

\* redeemEventFromRpc: the receipt's log of this request at this position.
Finds(n, a) ==
  /\ SeenBy(n) # Nowhere
  /\ RequestHash(Domain, Burn) = a.hash /\ SeenBy(n).log = a.log

SourceBegins(a) ==
  /\ source = SourceIdle
  /\ Finds("primary", Auth[a])
  /\ source' = [SourceIdle EXCEPT !.at = "secondary", !.auth = a,
                                  !.primary = SeenBy("primary")]
  /\ UNCHANGED <<now, chain, placed, node, approved>>

SourceReadsSecondary ==
  /\ source.at = "secondary"
  /\ LET a == Auth[source.auth] IN
     source' = IF /\ Finds("secondary", a)
                  /\ EventMatches(EventAt(source.primary), a)
                  /\ EventMatches(EventAt(SeenBy("secondary")), a)
                  /\ EventsAgree(EventAt(source.primary), EventAt(SeenBy("secondary")))
               THEN [source EXCEPT !.at = "height", !.secondary = SeenBy("secondary")]
               ELSE SourceIdle
  /\ UNCHANGED <<now, chain, placed, node, approved>>

\* eth_blockNumber of the primary, which may have changed its fork meanwhile.
SourceReadsHeight ==
  /\ source.at = "height"
  /\ source' = [source EXCEPT !.at = "finality", !.latest = node["primary"].height,
                              !.moved = SeenBy("primary") # source.primary]
  /\ UNCHANGED <<now, chain, placed, node, approved>>

\* Mutant of Final: the burn's own block counts as one that buries it.
FinalOneEarly(latest, place) == latest - place.block + 1 >= Finality

\* The finality policy, on the heights and the blocks the events were in.
Final(latest, place) == latest - place.block >= Finality

SourceChecksFinality ==
  /\ source.at = "finality"
  /\ source' = IF /\ Final(source.latest, source.primary)
                  /\ Final(node["secondary"].height, source.secondary)
               THEN [source EXCEPT !.at = "preflight",
                       !.moved = @ \/ SeenBy("secondary") # source.secondary]
               ELSE SourceIdle
  /\ UNCHANGED <<now, chain, placed, node, approved>>

\* The adapter answers for the time it is asked at and for the spend plan that
\* came with the request; signable is an approval.
SourcePreflights(p) ==
  /\ source.at = "preflight"
  /\ approved' = IF Preflight(Auth[source.auth], EventAt(source.primary), EventAt(source.secondary),
                              {}, SpendPlan(Psbt[p]), now)
                 THEN approved \cup {[auth |-> source.auth, place |-> source.primary,
                                      moved |-> source.moved]}
                 ELSE approved
  /\ source' = SourceIdle
  /\ UNCHANGED <<now, chain, placed, node>>

\* A call that fails or takes too long ends the execution.
SourceFails ==
  /\ source # SourceIdle /\ source' = SourceIdle
  /\ UNCHANGED <<now, chain, placed, node, approved>>

Approving ==
  \/ \E a \in Authorizations : SourceBegins(a)
  \/ SourceReadsSecondary \/ SourceReadsHeight \/ SourceChecksFinality
  \/ SourceFails \/ \E p \in Psbts : SourcePreflights(p)

Chaining ==
  \/ MineBlock \/ ApprovalTick
  \/ \E base \in 0 .. MaxHeight : Reorganize(base)
  \/ \E n \in Nodes : NodeSyncs(n)
=============================================================================
