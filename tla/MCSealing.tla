------------------------------- MODULE MCSealing -------------------------------
(* The components of ryu-crypto, checked in one run.  They share no state:   *)
(* `part' names the one that moves in a behaviour, and the others keep one   *)
(* initial state of theirs.                                                  *)
EXTENDS MCContent, CompactionQueue, KeyCustody, SealedLog, SealedFile, VectorCache,
        PluginSecrets, SharedStore, SecretConfig

CONSTANTS v1, v2, app, ide, other

TwoSizes == [v \in Vectors |-> IF v = v1 THEN {1, 2} ELSE {2}]
\* The app's sidecar, a second process without a key, a third with another one.
ThreeOpeners == [p \in Openers |-> CASE p = app -> "k1" [] p = ide -> NoSealKey [] p = other -> "k2"]

VARIABLE part
Parts == {"migration", "queue", "custody", "log", "file", "vectors", "secrets", "shared", "config"}

sealingVars == <<migrationVars, queueVars, custodyVars, vars_sl, vars_sf, vars_vc,
                 secretsVars, sharedVars, configVars, part>>

\* The components other than p keep their state.
Still(p) ==
  /\ p # "migration" => UNCHANGED migrationVars
  /\ p # "queue" => UNCHANGED queueVars
  /\ p # "custody" => UNCHANGED custodyVars
  /\ p # "log" => UNCHANGED vars_sl
  /\ p # "file" => UNCHANGED vars_sf
  /\ p # "vectors" => UNCHANGED vars_vc
  /\ p # "secrets" => UNCHANGED secretsVars
  /\ p # "shared" => UNCHANGED sharedVars
  /\ p # "config" => UNCHANGED configVars
Moves(p, next) == part = p /\ next /\ Still(p) /\ part' = part

\* Of the rows of an earlier version at most one is missing, opens under no root or
\* is escaped, to keep the initial states few.
Cells == {<<1, 1>>, <<1, 2>>, <<2, 1>>}
Init ==
  /\ part \in Parts
  /\ MigrationInit
  /\ part = "migration" => Cardinality({c \in Cells : cells[c[1]][c[2]] #
                                                  [form |-> Plain, esc |-> FALSE]}) <= 1
  /\ part # "migration" => /\ residue = NoResidue
                           /\ \A c \in Cells : cells[c[1]][c[2]] = [form |-> Absent, esc |-> FALSE]
  /\ QueueInit
  /\ part # "queue" => owed = {}
  /\ CustodyInit
  /\ part = "custody" => Cardinality({s \in DOMAIN slots : slots[s] # NoKey}) <= 2
  /\ part # "custody" => slots = [s \in DOMAIN slots |-> NoKey] /\ reach = FALSE
  /\ LogInit /\ FileInit /\ CacheInit
  /\ SecretsInit
  /\ part # "secrets" => lastText = [s \in SecretSlots |-> NoText]
  /\ SharedInit
  /\ part # "shared" => rowText = [r \in RowIds |-> NoText]
  /\ ConfigInit
  /\ part # "config" => typed = [f \in SecretPlaces |-> NoText]

\* First starts that would make different keys at once are left out: what they do
\* to each other is the run Custody_makers.
Next ==
  \/ Moves("migration", MigrationNext)
  \/ Moves("queue", QueueNext)
  \/ Moves("custody", CustodyNext /\ MakersAgree')
  \/ Moves("log", LogNext)
  \/ Moves("file", FileNext)
  \/ Moves("vectors", CacheNext)
  \/ Moves("secrets", SecretsNext)
  \/ Moves("shared", SharedNext)
  \/ Moves("config", ConfigNext)

\* The fairness of MigrationFairSpec and QueueFairSpec, while their part moves.
Spec == /\ Init /\ [][Next]_sealingVars
        /\ WF_migrationVars(part = "migration" /\ MigrationStep)
        /\ WF_queueVars(part = "queue" /\ WorkerStep)

\* Every variable of the component that moves keeps its type.
TypesOK ==
  /\ part = "migration" => MigrationTypeOK
  /\ part = "queue" => QueueTypeOK
  /\ part = "custody" => CustodyTypeOK
  /\ part = "log" => LogTypeOK
  /\ part = "file" => FileTypeOK
  /\ part = "vectors" => CacheTypeOK
  /\ part = "secrets" => SecretsTypeOK
  /\ part = "shared" => SharedTypeOK
  /\ part = "config" => ConfigTypeOK
=============================================================================
