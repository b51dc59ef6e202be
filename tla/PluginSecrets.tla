----------------------------- MODULE PluginSecrets -----------------------------
(* The start of the mail process: which sealing key it resolves (delivered by  *)
(* Core, derived from RYU_MASTER_KEY, or a standalone root of its own), the    *)
(* key check values it pins, and the secrets of mail.db it opens and reseals.  *)
(* The process may stop between any two writes.                                *)
EXTENDS SealedValues

CONSTANTS
    Masters,     \* master keys a start may be given
    OwnRoot,     \* the root a standalone start generates
    SecretSlots, \* inbox and webhook secrets, webhook header values
    SecretTexts,
    Stub,        \* a root file that was created and not written
    NoFile,
    MaxStartups,
    MaxSecretWrites

ASSUME SecretsAssumption ==
    /\ OwnRoot \notin Masters /\ NoSealKey \notin Masters \cup {OwnRoot}
    /\ MaxStartups \in Nat /\ MaxSecretWrites \in Nat

VARIABLES
    rootFile,   \* secrets/standalone-root.key
    pinned,     \* the key of secrets/standalone-root.kcv.json
    recorded,   \* the key check value mail.db records
    secrets,    \* the stored secrets
    lastText,   \* history: the text each slot was last given
    process,    \* the running start
    spent_ps    \* starts and writes so far
secretsVars == <<rootFile, pinned, recorded, secrets, lastText, process, spent_ps>>

Mail == "@ryu/mail"
Empty == Envelope("none", NoSealKey, NoPlace, NoText)
\* The plugin subkey; a standalone root is used as it is.
Subkey(root) == IF root = OwnRoot THEN <<"root", OwnRoot, Mail>> ELSE PluginKey(root, Mail)
SubkeysOf(roots) == {Subkey(r) : r \in roots}
SealKeys == SubkeysOf(Masters \cup {OwnRoot})

\* What the environment of a start holds.
Environments == [core : BOOLEAN, delivered : Masters \cup {NoSealKey}, retired : SUBSET Masters,
                 master : Masters \cup {NoSealKey}]
Delivers(e) == e.core /\ e.delivered # NoSealKey

Stopped == [at |-> "down", cipher |-> CipherOf(PluginForm, NoSealKey, {}), old |-> NoSealKey,
            content |-> "none"]
Keyed(at, key, retired, old) ==
    [at |-> at, cipher |-> CipherOf(PluginForm, key, retired), old |-> old, content |-> "none"]
CanSeal == process.cipher.key # NoSealKey

\* The older scheme's reader: only with RYU_MASTER_KEY in the environment.
OldReader(e) == IF e.master = NoSealKey THEN NoSealKey ELSE OldMailKey(e.master)

\* A secret opened with this process's sealer.
OpenSecret(v) ==
    CASE v.form = PluginForm -> PluginOpen(process.cipher, v)
      [] v.form = MasterForm /\ process.old # NoSealKey ->
            FieldOpen(CipherOf(MasterForm, process.old, {}), v)
      [] OTHER -> IF LooksSealed(v) THEN Refused ELSE Verbatim(v)
IsCurrent(v) == v.form = PluginForm
HeldSecrets == {s \in SecretSlots : secrets[s] # Empty}

(* An older version left plaintext, or values of the older scheme under the    *)
(* operator's master key, or nothing; nothing is sealed, pinned or recorded.   *)
SecretsInit ==
    /\ rootFile = NoFile /\ pinned = NoSealKey /\ recorded = NoSealKey
    /\ \E m \in Masters, old \in [SecretSlots -> {"none", "plain", "sealed"}], t \in SecretTexts :
         /\ secrets = [s \in SecretSlots |->
              CASE old[s] = "plain" -> Plaintext(t)
                [] old[s] = "sealed" -> Envelope(MasterForm, OldMailKey(m), NoPlace, t)
                [] OTHER -> Empty]
         /\ lastText = [s \in SecretSlots |-> IF old[s] = "none" THEN NoText ELSE t]
    /\ process = Stopped
    /\ spent_ps = [starts |-> 0, writes |-> 0]

StorageSame == UNCHANGED <<rootFile, pinned, recorded, secrets, lastText>>
\* capture takes the delivered key out of the environment; resolve decides by it.
Starting(next) ==
    /\ process = Stopped /\ spent_ps.starts < MaxStartups
    /\ spent_ps' = [spent_ps EXCEPT !.starts = @ + 1]
    /\ process' = next
    /\ StorageSame

StartDelivered(e) ==
    /\ Delivers(e)
    /\ Starting(Keyed("open", Subkey(e.delivered), SubkeysOf(e.retired), OldReader(e)))
StartMaster(e) ==
    /\ ~Delivers(e) /\ e.master # NoSealKey
    /\ e.core \/ rootFile = NoFile
    /\ Starting(Keyed(IF e.core THEN "open" ELSE "pin", Subkey(e.master), {}, OldReader(e)))
StartCompat(e) ==
    /\ ~Delivers(e) /\ e.master = NoSealKey /\ e.core
    /\ Starting(Keyed("open", NoSealKey, {}, NoSealKey))
StartOwnRoot(e) ==
    /\ ~Delivers(e) /\ e.master = NoSealKey /\ ~e.core
    /\ \/ rootFile = OwnRoot /\ Starting(Keyed("pin", Subkey(OwnRoot), {}, NoSealKey))
       \/ rootFile = NoFile /\ pinned = NoSealKey
          /\ Starting(Keyed("create", Subkey(OwnRoot), {}, NoSealKey))

Continue(at) == process' = [process EXCEPT !.at = at]
Refuse == process' = Stopped
\* create_new, then the bytes: two writes.
CreateRoot ==
    /\ process.at = "create" /\ rootFile = NoFile
    /\ rootFile' = Stub /\ Continue("fill")
    /\ UNCHANGED <<pinned, recorded, secrets, lastText, spent_ps>>
FillRoot ==
    /\ process.at = "fill"
    /\ rootFile' = OwnRoot /\ Continue("pin")
    /\ UNCHANGED <<pinned, recorded, secrets, lastText, spent_ps>>
\* Through a temporary file and a rename: whole or absent.
PinKcv ==
    /\ process.at = "pin"
    /\ IF pinned \in {NoSealKey, process.cipher.key}
       THEN pinned' = process.cipher.key /\ Continue("open")
       ELSE pinned' = pinned /\ Refuse
    /\ UNCHANGED <<rootFile, recorded, secrets, lastText, spent_ps>>

\* The store's key check value: recorded on first use, or one this key knows.
OpenMailDb ==
    /\ process.at = "open"
    /\ CASE ~CanSeal -> /\ recorded' = recorded
                        /\ process' = [process EXCEPT !.at = "reconcile", !.content =
                             IF recorded = NoSealKey THEN "compat" ELSE "unhealthy"]
         [] CanSeal /\ recorded \in {NoSealKey} \cup KeysHeld(process.cipher) ->
              /\ recorded' = IF recorded = NoSealKey THEN process.cipher.key ELSE recorded
              /\ process' = [process EXCEPT !.at = "reconcile", !.content = "sealing"]
         [] OTHER -> recorded' = recorded /\ Refuse
    /\ UNCHANGED <<rootFile, pinned, secrets, lastText, spent_ps>>

\* One transaction: every secret opens, and what is not current is sealed.
Reconciled(v) == IF IsCurrent(v) THEN v ELSE SealWith(process.cipher, OpenSecret(v).text)
\* Mutant of Reconcile: a secret with the current prefix is not opened.
ReconcileByPrefix ==
    /\ process.at = "reconcile"
    /\ \A s \in HeldSecrets : IF CanSeal THEN IsCurrent(secrets[s]) \/ OpenSecret(secrets[s]).ok
                              ELSE ~LooksSealed(secrets[s])
    /\ Continue("up")
    /\ secrets' = [s \in SecretSlots |->
         IF s \in HeldSecrets /\ CanSeal THEN Reconciled(secrets[s]) ELSE secrets[s]]
    /\ UNCHANGED <<rootFile, pinned, recorded, lastText, spent_ps>>

Reconcile ==
    /\ process.at = "reconcile"
    /\ IF IF CanSeal THEN \A s \in HeldSecrets : OpenSecret(secrets[s]).ok
                     ELSE \A s \in HeldSecrets : ~LooksSealed(secrets[s])
       THEN /\ Continue("up")
            /\ secrets' = [s \in SecretSlots |->
                 IF s \in HeldSecrets /\ CanSeal THEN Reconciled(secrets[s]) ELSE secrets[s]]
       ELSE /\ Refuse /\ secrets' = secrets
    /\ UNCHANGED <<rootFile, pinned, recorded, lastText, spent_ps>>

\* A request stores a secret: sealed, or refused without a key.
WriteSecret(s, t) ==
    /\ process.at = "up" /\ CanSeal /\ spent_ps.writes < MaxSecretWrites
    /\ secrets' = [secrets EXCEPT ![s] = SealWith(process.cipher, t)]
    /\ lastText' = [lastText EXCEPT ![s] = t]
    /\ spent_ps' = [spent_ps EXCEPT !.writes = @ + 1]
    /\ UNCHANGED <<rootFile, pinned, recorded, process>>
DeleteSecret(s) ==
    /\ process.at = "up" /\ s \in HeldSecrets
    /\ secrets' = [secrets EXCEPT ![s] = Empty]
    /\ lastText' = [lastText EXCEPT ![s] = NoText]
    /\ UNCHANGED <<rootFile, pinned, recorded, process, spent_ps>>
\* The content migration under a retired key ends: the record moves on.
RecordMoves ==
    /\ process.at = "up" /\ process.content = "sealing" /\ recorded # process.cipher.key
    /\ recorded' = process.cipher.key
    /\ UNCHANGED <<rootFile, pinned, secrets, lastText, process, spent_ps>>
StopProcess ==
    /\ process # Stopped /\ Refuse
    /\ StorageSame /\ UNCHANGED spent_ps

SecretsNext ==
    \/ \E e \in Environments :
         StartDelivered(e) \/ StartMaster(e) \/ StartCompat(e) \/ StartOwnRoot(e)
    \/ CreateRoot \/ FillRoot \/ PinKcv \/ OpenMailDb \/ Reconcile \/ RecordMoves \/ StopProcess
    \/ \E s \in SecretSlots : DeleteSecret(s) \/ \E t \in SecretTexts : WriteSecret(s, t)
SecretsSpec == SecretsInit /\ [][SecretsNext]_secretsVars

\* Every variable of this module keeps its type.
SecretsTypeOK ==
    /\ rootFile \in {NoFile, Stub, OwnRoot}
    /\ pinned \in SealKeys \cup {NoSealKey} /\ recorded \in SealKeys \cup {NoSealKey}
    /\ \A s \in SecretSlots :
         /\ secrets[s].form \in {"none", PlainForm, MasterForm, PluginForm}
         /\ secrets[s].text \in SecretTexts \cup {NoText}
         /\ lastText[s] \in SecretTexts \cup {NoText}
    /\ process.at \in {"down", "create", "fill", "pin", "open", "reconcile", "up"}
    /\ process.cipher.key \in SealKeys \cup {NoSealKey}
    /\ spent_ps.starts \in 0..MaxStartups /\ spent_ps.writes \in 0..MaxSecretWrites

\* A process that came up with a key opens every stored secret to the text it
\* was last given, whatever starts, keys and exits came before
\* (MailStore::reconcile_sealed_secrets, PluginKeys::resolve).
SecretsOpen ==
    process.at = "up" /\ CanSeal =>
        \A s \in HeldSecrets : /\ IsCurrent(secrets[s])
                        /\ OpenSecret(secrets[s]) = OpenedAs(lastText[s], secrets[s].key # process.cipher.key)
=============================================================================
