-------------------------- MODULE DepositRegistry --------------------------
(***************************************************************************)
(* Deposit intents and the replay store of the mint direction              *)
(* (contracts/DepositRegistry.sol).  keccak256 is taken as injective, so a *)
(* depositId is the intent it hashes and a utxoKey the outpoint itself.    *)
(***************************************************************************)
EXTENDS BlockTime, Ownable

CONSTANTS Intents,         \* the deposit intents anyone may submit
          Utxos            \* Bitcoin outpoints

DepositIntent ==
  [recipient : Users \cup {NoOne}, mode : {"EXACT", "ANY"}, addressHash : Nat,
   expectedSats : Nat, minSats : Nat, maxSats : Nat, nonce : Nat, expiry : Nat]

ASSUME IntentsAssumption == Intents \subseteq DepositIntent

VARIABLES depositExists, depositConsumed, utxoConsumed, authorizedConsumers,
          lockedConsumer   \* NoOne until consumerLocked

registryVars == <<depositExists, depositConsumed, utxoConsumed,
                  authorizedConsumers, lockedConsumer>>

RegistryTypeOK ==
  /\ depositExists \subseteq Intents
  /\ depositConsumed \subseteq Intents
  /\ utxoConsumed \subseteq Utxos
  /\ authorizedConsumers \subseteq Addresses \cup {NoOne}
  /\ lockedConsumer \in Addresses \cup {NoOne}

SetAuthorizedConsumer(caller, consumer, allowed) ==
  /\ OnlyOwner("DepositRegistry", caller)
  /\ lockedConsumer = NoOne
  /\ authorizedConsumers' = IF allowed THEN authorizedConsumers \cup {consumer}
                                       ELSE authorizedConsumers \ {consumer}
  /\ UNCHANGED <<depositExists, depositConsumed, utxoConsumed, lockedConsumer>>

LockAuthorizedConsumer(caller, consumer) ==
  /\ OnlyOwner("DepositRegistry", caller)
  /\ lockedConsumer = NoOne
  /\ consumer # NoOne
  /\ lockedConsumer' = consumer
  /\ authorizedConsumers' = authorizedConsumers \cup {consumer}
  /\ UNCHANGED <<depositExists, depositConsumed, utxoConsumed>>

ValidIntent(intent) ==
  /\ intent.recipient # NoOne
  /\ intent.addressHash # 0
  /\ now <= intent.expiry
  /\ \/ /\ intent.mode = "EXACT"
        /\ intent.expectedSats # 0
        /\ intent.minSats = intent.expectedSats
        /\ intent.maxSats = intent.expectedSats
     \/ /\ intent.mode = "ANY"
        /\ intent.minSats # 0
        /\ intent.maxSats # 0
        /\ intent.minSats <= intent.maxSats

CreateDepositIntent(intent) ==
  /\ ValidIntent(intent)
  /\ intent \notin depositExists
  /\ depositExists' = depositExists \cup {intent}
  /\ UNCHANGED <<depositConsumed, utxoConsumed, authorizedConsumers, lockedConsumer>>

\* Mutant of OnlyAuthorizedConsumer: the lock only adds a consumer.
OnlyListedConsumer(caller) ==
  caller = lockedConsumer \/ caller \in authorizedConsumers

\* The onlyAuthorizedConsumer modifier.
OnlyAuthorizedConsumer(caller) ==
  IF lockedConsumer # NoOne THEN caller = lockedConsumer
                            ELSE caller \in authorizedConsumers

\* Mutant of ConsumeDeposit: the outpoint's replay flag is not consulted.
ConsumeDepositUnchecked(caller, intent, utxo) ==
  /\ OnlyAuthorizedConsumer(caller)
  /\ intent \in depositExists
  /\ intent \notin depositConsumed
  /\ depositConsumed' = depositConsumed \cup {intent}
  /\ utxoConsumed' = utxoConsumed \cup {utxo}
  /\ UNCHANGED <<depositExists, authorizedConsumers, lockedConsumer>>

ConsumeDeposit(caller, intent, utxo) ==
  /\ OnlyAuthorizedConsumer(caller)
  /\ intent \in depositExists
  /\ intent \notin depositConsumed
  /\ utxo \notin utxoConsumed
  /\ depositConsumed' = depositConsumed \cup {intent}
  /\ utxoConsumed' = utxoConsumed \cup {utxo}
  /\ UNCHANGED <<depositExists, authorizedConsumers, lockedConsumer>>

=============================================================================
