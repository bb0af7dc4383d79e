--------------------------- MODULE AgentRegistry ----------------------------
(***************************************************************************)
(* The registry of agents and wallets, after the encryption of the agents' *)
(* metadata that it calls on every write and read.                         *)
(***************************************************************************)
EXTENDS TLC, Integers

-----------------------------------------------------------------------------
(***************************************************************************)
(* The field encryption of agent metadata                                  *)
(* (common/encryption/encryption.service.ts).  A JSON value is a record    *)
(* with a kind; of the texts a string can hold only what the code tells    *)
(* apart is kept: "word", "digits" (text that is also valid JSON for a     *)
(* number) and "tagged" (text that starts with enc:v1 and is no token).    *)
(* A token is the string AES-GCM makes of a text under a master key.  An   *)
(* array behaves as an object whose keys, its positions, are never         *)
(* sensitive.                                                              *)
(***************************************************************************)

SensitiveKeys == {"secret", "token"}

Text(t) == [kind |-> "string", text |-> t]

Num == [kind |-> "number"]

Obj(fields) == [kind |-> "object", fields |-> fields]

Null == [kind |-> "null"]

\* A value that is already encrypted, or a string that looks it.
IsEncrypted(v) ==
  \/ v.kind = "token"
  \/ v.kind = "string" /\ v.text = "tagged"

\* encrypt(String(v)) for a scalar and encryptObject(v) for an object: the
\* token holds the text, and a number's text is its digits.
Encrypt(key, v) ==
  [kind |-> "token", key |-> key,
   of |-> IF v.kind = "number" THEN Text("digits") ELSE v]

\* Mutant: the decrypted text is not parsed.
Decrypt_Unparsed(key, v) ==
  IF v.kind # "token" \/ (v.kind = "token" /\ v.key # key) THEN v
  ELSE IF v.of.kind = "object" THEN Text("word") ELSE v.of

\* decrypt then JSON.parse, falling back to the text: digits parse to a
\* number and an object's JSON to the object.  GCM rejects another key's
\* token, and a tagged text is no token: both are returned as they are.
Decrypt(key, v) ==
  IF v.kind # "token" \/ (v.kind = "token" /\ v.key # key) THEN v
  ELSE IF v.of = Text("digits") THEN Num ELSE v.of

EncryptSensitive(key, v) ==
  IF v.kind \in {"string", "token"} /\ IsEncrypted(v) THEN v ELSE Encrypt(key, v)

RECURSIVE TransformSensitiveFields(_, _, _)

\* Mutant: the fields of a nested object are left alone.
TransformSensitiveFields_TopOnly(v, mode, key) ==
  IF v.kind # "object" THEN v
  ELSE Obj([k \in DOMAIN v.fields |->
              LET f == v.fields[k] IN
              CASE k \notin SensitiveKeys \/ f.kind = "null" -> f
                [] mode = "encrypt" -> EncryptSensitive(key, f)
                [] mode = "decrypt" /\ IsEncrypted(f) -> Decrypt(key, f)
                [] OTHER -> f])

TransformSensitiveFields(v, mode, key) ==
  IF v.kind # "object" THEN v
  ELSE Obj([k \in DOMAIN v.fields |->
              LET f == v.fields[k] IN
              CASE k \notin SensitiveKeys \/ f.kind = "null" ->
                     TransformSensitiveFields(f, mode, key)
                [] mode = "encrypt" -> EncryptSensitive(key, f)
                [] mode = "decrypt" /\ IsEncrypted(f) -> Decrypt(key, f)
                [] OTHER -> TransformSensitiveFields(f, mode, key)])

RECURSIVE HoldsPlainSecret(_)

\* Some sensitive field, at whatever depth, holds a readable value.
HoldsPlainSecret(v) ==
  /\ v.kind = "object"
  /\ \E k \in DOMAIN v.fields :
       LET f == v.fields[k] IN
       \/ k \in SensitiveKeys /\ f.kind # "null" /\ ~IsEncrypted(f)
       \/ k \notin SensitiveKeys /\ HoldsPlainSecret(f)

RECURSIVE ReadBack(_)

\* What a value reads as after its secrets were encrypted and decrypted: a
\* secret whose text is digits comes back as a number.
ReadBack(v) ==
  IF v.kind # "object" THEN v
  ELSE Obj([k \in DOMAIN v.fields |->
              LET f == v.fields[k] IN
              IF k \in SensitiveKeys THEN (IF f = Text("digits") THEN Num ELSE f)
              ELSE ReadBack(f)])

-----------------------------------------------------------------------------
(***************************************************************************)
(* The registry of agents and wallets (modules/agents/agent.service.ts,    *)
(* modules/wallets/wallet.service.ts) of one organization.  Every call     *)
(* reads first (the agent, the handle, the wallet) and writes by id in a   *)
(* second statement, so calls interleave between the two.  The routes that *)
(* change one agent hold lock:agent:<id> around their handler              *)
(* (common/locks/agent-lock.interceptor.ts); creating an agent, and the    *)
(* wallet routes, take no lock.  The events the calls publish last are the *)
(* subject of EventBus.                                                    *)
(***************************************************************************)

CONSTANTS Agents, Handles, Wallets,
          Metadata,         \* the metadata objects callers send
          MaxRegistryCalls,
          MaxKeyChanges     \* how often the service restarts with another key

VARIABLES agents,        \* agent -> row
          wallets,       \* address -> row
          masterKey,     \* the master key of the running process
          registryCalls, \* call -> record; a call has read and not written
          registryCount,
          registryRaces  \* what went wrong so far: a handle taken between check
                         \* and write, a wallet row written from a stale read,
                         \* an agent lock that ran out under its handler

registryVars == <<agents, wallets, masterKey, registryCalls, registryCount, registryRaces>>

AgentAbsent == [state |-> "absent", name |-> "", status |-> "", primary |-> "",
                given |-> Null, metadata |-> Null]

WalletAbsent == [state |-> "absent", status |-> "", owner |-> ""]

NoRegistryCall == [op |-> "none"]

RegistryInit ==
  /\ agents = [a \in Agents |-> AgentAbsent]
  /\ wallets = [w \in Wallets |-> WalletAbsent]
  /\ masterKey = 1
  /\ registryCalls = [c \in 1..MaxRegistryCalls |-> NoRegistryCall]
  /\ registryCount = 0
  /\ registryRaces = {}

AgentExists(a) == agents[a].state = "live"

WalletExists(w) == wallets[w].state = "live"

\* Mutant: the handle is compared with active agents only.
FindByNameInOrg_Active(n, excluded) ==
  {a \in Agents \ excluded : AgentExists(a) /\ agents[a].name = n
                             /\ agents[a].status = "ACTIVE"}

\* findByNameInOrg: a live agent other than the excluded one has the name.
FindByNameInOrg(n, excluded) ==
  {a \in Agents \ excluded : AgentExists(a) /\ agents[a].name = n}

AssertHandleIsFree(n, excluded) == FindByNameInOrg(n, excluded) = {}

\* What metadata the agent's reader sees.
DecryptAgentMetadata(m) == TransformSensitiveFields(m, "decrypt", masterKey)

EncryptAgentMetadata(m) == TransformSensitiveFields(m, "encrypt", masterKey)

\* The public key has no column of its own and is kept in the metadata.
BuildMetadata(m, publicKey) ==
  IF publicKey THEN Obj([k \in {"stellarPublicKey"} |-> Text("word")] @@ m.fields)
  ELSE m

BeginCall(call) ==
  /\ registryCount < MaxRegistryCalls
  /\ registryCount' = registryCount + 1
  /\ registryCalls' = [registryCalls EXCEPT ![registryCount + 1] = call]
  /\ UNCHANGED <<agents, wallets, masterKey, registryRaces>>

\* The interceptor's lock: one attempt, refused while another call on the
\* agent holds it; released when the call ends.
AgentLocked(a) ==
  \E c \in 1..MaxRegistryCalls :
    /\ registryCalls[c].op \in {"updateAgent", "agentStatus", "removeAgent", "assignWallet"}
    /\ registryCalls[c].id = a /\ registryCalls[c].locked

BeginLocked(a, call) ==
  /\ AgentExists(a) /\ ~AgentLocked(a)
  /\ BeginCall(call @@ [id |-> a, locked |-> TRUE])

\* create(): the handle is checked, the metadata built and encrypted.
CreateAgent ==
  \E n \in Handles, m \in Metadata, pk \in BOOLEAN :
    /\ AssertHandleIsFree(n, {})
    /\ BeginCall([op |-> "createAgent", name |-> n, given |-> BuildMetadata(m, pk)])

\* update(): the current agent is read decrypted; a new public key without
\* new metadata is merged into what was read.
UpdateAgent ==
  \E a \in Agents, rename \in {{}} \cup {{n} : n \in Handles},
     input \in {"none", "publicKey", "metadata"}, m \in Metadata :
    /\ \A n \in rename : AssertHandleIsFree(n, {a})
    /\ input # "metadata" => m = CHOOSE x \in Metadata : TRUE
    /\ BeginLocked(a, [op |-> "updateAgent", rename |-> rename,
              base |-> CASE input = "none" -> {}
                         [] input = "metadata" -> {m}
                         [] OTHER -> {BuildMetadata(DecryptAgentMetadata(agents[a].metadata), TRUE)},
              given |-> CASE input = "none" -> agents[a].given
                          [] input = "metadata" -> m
                          [] OTHER -> BuildMetadata(agents[a].given, TRUE)])

SetAgentStatus ==
  \E a \in Agents, s \in {"ACTIVE", "PAUSED"} :
    BeginLocked(a, [op |-> "agentStatus", status |-> s])

RemoveAgent ==
  \E a \in Agents :
    BeginLocked(a, [op |-> "removeAgent"])

\* assignWallet(): the wallet is live and belongs to no other agent.
AssignWallet ==
  \E a \in Agents, w \in Wallets :
    /\ WalletExists(w)
    /\ wallets[w].owner \in {"", a}
    /\ BeginLocked(a, [op |-> "assignWallet", wallet |-> w])

\* create() of a wallet: an address that any row has, archived ones
\* included, is a conflict; a generated address is always a new one.
CreateWallet ==
  \E w \in Wallets, owner \in {""} \cup {a \in Agents : agents[a].state # "absent"} :
    /\ wallets[w].state = "absent"
    /\ BeginCall([op |-> "createWallet", wallet |-> w, owner |-> owner])

SetWalletStatus ==
  \E w \in Wallets, s \in {"ACTIVE", "FROZEN"} :
    /\ WalletExists(w)
    /\ BeginCall([op |-> "walletStatus", wallet |-> w, status |-> s, seen |-> wallets[w]])

UpdateWallet ==
  \E w \in Wallets, owner \in {""} \cup {a \in Agents : agents[a].state # "absent"} :
    /\ WalletExists(w)
    /\ BeginCall([op |-> "updateWallet", wallet |-> w, owner |-> owner, seen |-> wallets[w]])

RemoveWallet ==
  \E w \in Wallets :
    /\ WalletExists(w)
    /\ BeginCall([op |-> "removeWallet", wallet |-> w, seen |-> wallets[w]])

Finish(c) ==
  /\ registryCalls' = [registryCalls EXCEPT ![c] = NoRegistryCall]
  /\ UNCHANGED <<masterKey, registryCount>>

\* repository.create of an agent; which free id it gets does not matter.
InsertAgent(c) ==
  LET call == registryCalls[c] IN
  /\ call.op = "createAgent"
  /\ \E a \in Agents : agents[a].state = "absent"
  /\ agents' = [agents EXCEPT ![CHOOSE a \in Agents : agents[a].state = "absent"] =
       [state |-> "live", name |-> call.name, status |-> "ACTIVE", primary |-> "",
        given |-> call.given, metadata |-> EncryptAgentMetadata(call.given)]]
  /\ registryRaces' = registryRaces \cup (IF AssertHandleIsFree(call.name, {}) THEN {} ELSE {"handle"})
  /\ UNCHANGED wallets
  /\ Finish(c)

\* repository.update(id, data) and softDelete(id): by id alone, so an
\* archived row is written as well.  A wallet that is another agent's
\* primary one is refused by the unique index.
WriteAgent(c) ==
  LET call == registryCalls[c]
      taken == call.op = "assignWallet"
               /\ \E b \in Agents \ {call.id} : agents[b].primary = call.wallet
  IN
  /\ call.op \in {"updateAgent", "agentStatus", "removeAgent", "assignWallet"}
  /\ agents' = CASE call.op = "agentStatus" -> [agents EXCEPT ![call.id].status = call.status]
                 [] call.op = "removeAgent" ->
                      [agents EXCEPT ![call.id].state = "archived", ![call.id].status = "ARCHIVED"]
                 [] call.op = "assignWallet" ->
                      IF taken THEN agents ELSE [agents EXCEPT ![call.id].primary = call.wallet]
                 [] OTHER ->
                      [agents EXCEPT ![call.id] =
                         [@ EXCEPT !.name = IF call.rename = {} THEN @ ELSE CHOOSE n \in call.rename : TRUE,
                                   !.given = IF call.base = {} THEN @ ELSE call.given,
                                   !.metadata = IF call.base = {} THEN @
                                     ELSE EncryptAgentMetadata(CHOOSE b \in call.base : TRUE)]]
  /\ registryRaces' = registryRaces \cup
       (IF call.op = "updateAgent" /\ \E n \in call.rename : ~AssertHandleIsFree(n, {call.id})
        THEN {"handle"} ELSE {})
  /\ UNCHANGED wallets
  /\ Finish(c)

\* The unique index on the address refuses the second of two creations.
WriteWallet(c) ==
  LET call == registryCalls[c] IN
  /\ call.op \in {"createWallet", "walletStatus", "updateWallet", "removeWallet"}
  /\ wallets' = CASE call.op = "createWallet" ->
                       IF wallets[call.wallet].state # "absent" THEN wallets
                       ELSE [wallets EXCEPT ![call.wallet] =
                               [state |-> "live", status |-> "ACTIVE", owner |-> call.owner]]
                  [] call.op = "walletStatus" -> [wallets EXCEPT ![call.wallet].status = call.status]
                  [] call.op = "updateWallet" -> [wallets EXCEPT ![call.wallet].owner = call.owner]
                  [] OTHER -> [wallets EXCEPT ![call.wallet].state = "archived",
                                              ![call.wallet].status = "ARCHIVED"]
  /\ registryRaces' = registryRaces \cup
       (IF call.op # "createWallet" /\ wallets[call.wallet] # call.seen THEN {"wallet"} ELSE {})
  /\ UNCHANGED agents
  /\ Finish(c)

\* DEFAULT_LOCK_TTL_MS passes while the handler still runs.
AgentLockLapses(c) ==
  /\ registryCalls[c].op \in {"updateAgent", "agentStatus", "removeAgent", "assignWallet"}
  /\ registryCalls[c].locked
  /\ registryCalls' = [registryCalls EXCEPT ![c].locked = FALSE]
  /\ registryRaces' = registryRaces \cup {"lapse"}
  /\ UNCHANGED <<agents, wallets, masterKey, registryCount>>

\* The service restarts with another ENCRYPTION_MASTER_KEY: calls in flight
\* are lost with the locks they held, rows stay.
ChangeKey ==
  /\ masterKey <= MaxKeyChanges
  /\ masterKey' = masterKey + 1
  /\ registryCalls' = [c \in 1..MaxRegistryCalls |-> NoRegistryCall]
  /\ UNCHANGED <<agents, wallets, registryCount, registryRaces>>

RegistrySteps ==
  \/ CreateAgent \/ UpdateAgent \/ SetAgentStatus \/ RemoveAgent \/ AssignWallet
  \/ CreateWallet \/ SetWalletStatus \/ UpdateWallet \/ RemoveWallet
  \/ \E c \in 1..MaxRegistryCalls : InsertAgent(c) \/ WriteAgent(c) \/ WriteWallet(c)
                                     \/ AgentLockLapses(c)
  \/ ChangeKey

RegistryNext == RegistrySteps

RegistrySpec == RegistryInit /\ [][RegistryNext]_registryVars

\* No call, in any order and under any key, leaves a readable secret in an
\* agent's metadata column (agent.service.ts:64, :159).
SecretsStayEncrypted == \A a \in Agents : ~HoldsPlainSecret(agents[a].metadata)

\* While the key has not changed, an agent reads as what was last written
\* for it, however often it was read, merged with a public key and encrypted
\* again: tokens are not encrypted twice and no field is lost.
MetadataSurvives ==
  masterKey = 1 =>
    \A a \in Agents : DecryptAgentMetadata(agents[a].metadata) = ReadBack(agents[a].given)

\* Two live agents share a handle only after a handle was taken between its
\* check and its write (agent.service.ts:62 and :68); an archived agent is
\* not ARCHIVED only after its lock ran out under a handler, and an archived
\* wallet, whose routes take no lock, only after a write from a stale read
\* (wallet.service.ts:147 and :148).
RegistryBreaksNeedRace ==
  /\ "handle" \notin registryRaces =>
       \A a, b \in Agents : AgentExists(a) /\ AgentExists(b) /\ a # b => agents[a].name # agents[b].name
  /\ "lapse" \notin registryRaces =>
       \A a \in Agents : agents[a].state = "archived" => agents[a].status = "ARCHIVED"
  /\ "wallet" \notin registryRaces =>
       \A w \in Wallets : wallets[w].state = "archived" => wallets[w].status = "ARCHIVED"
=============================================================================
