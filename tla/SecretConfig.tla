------------------------------ MODULE SecretConfig ------------------------------
(* Secrets outside a database: the fields of a configuration file (a           *)
(* SealedString each, sealed as the file is written and opened as it is read), *)
(* what an HTTP client sees and sends back of them, and secrets alone in a     *)
(* file.  The root may be replaced between two starts; its retired              *)
(* predecessors still open.                                                     *)
EXTENDS SealedValues, Naturals

CONSTANTS
    ConfigFields, SecretFiles,
    ConfigTexts,
    Mask,          \* what a client is shown in place of a secret
    ConfigRoots,   \* the roots, in the order of their numbers
    MaxConfigSteps

ASSUME ConfigAssumption ==
    /\ Mask \notin ConfigTexts \cup {NoText} /\ NoText \notin ConfigTexts
    /\ ConfigRoots \subseteq Nat /\ 1 \in ConfigRoots /\ MaxConfigSteps \in Nat
\* A field of the configuration is no file of its own.
ASSUME PlacesAreDistinct == ConfigFields \cap SecretFiles = {}

VARIABLES
    root,      \* [now, old, reachable]: the root, its retired predecessors, whether it resolves
    config,    \* the configuration file: a stored value per field
    files,     \* the secret files
    writing,   \* [file, value]: a temporary file not yet renamed
    loaded,    \* the fields in memory, or none
    typed,     \* history: the text the operator last gave each field and file
    stepsUsed
configVars == <<root, config, files, writing, loaded, typed, stepsUsed>>

NoValueYet == Plaintext(NoText)
NotLoaded == [f \in ConfigFields |-> NoText]
NotWriting == [file |-> NoText, value |-> NoValueYet]
SecretPlaces == ConfigFields \cup SecretFiles

\* The gateway's component cipher, and the master-key cipher of a secret file.
GatewayCipher == CipherOf(ComponentForm, ComponentKey(root.now, "gateway"),
                          {ComponentKey(r, "gateway") : r \in root.old})
MasterCipher == CipherOf(MasterForm, root.now, root.old)

\* Deserialize: plaintext as it stands, an envelope opened or the load fails.
FieldOf(v) ==
    CASE ~LooksSealed(v) -> OpenedAs(v.text, v.text # NoText)
      [] LooksSealed(v) /\ root.reachable -> [SealerOpen(GatewayCipher, v) EXCEPT !.reseal = FALSE]
      [] OTHER -> Refused
\* Serialize: an empty text as it is, any other sealed, or the save fails.
SealedField(t) == IF t = NoText THEN NoValueYet ELSE SealWith(GatewayCipher, t)
Savable(fields) == root.reachable \/ \A f \in ConfigFields : fields[f] = NoText
\* read_secret_file: only an envelope needs the key.
FileOpen(v) ==
    CASE ~LooksSealed(v) -> OpenedAs(v.text, TRUE)
      [] LooksSealed(v) /\ root.reachable -> [SealerOpen(MasterCipher, v) EXCEPT !.reseal = FALSE]
      [] OTHER -> Refused
\* redact and keep_if_redacted: a mask that comes back means the secret stays.
Shown(t) == IF t = NoText THEN NoText ELSE Mask
\* Mutant of Kept: what the client sends is what is stored.
KeptAsSent(incoming, current) == incoming

Kept(incoming, current) == IF incoming = Mask THEN current ELSE incoming

ConfigInit ==
    /\ root = [now |-> 1, old |-> {}, reachable |-> TRUE]
    /\ typed \in [SecretPlaces -> ConfigTexts \cup {NoText}]
    /\ config = [f \in ConfigFields |-> Plaintext(typed[f])]
    /\ files = [f \in SecretFiles |-> Plaintext(typed[f])]
    /\ writing = NotWriting /\ loaded = [up |-> FALSE, fields |-> NotLoaded]
    /\ stepsUsed = 0

Used == stepsUsed < MaxConfigSteps /\ stepsUsed' = stepsUsed + 1
LoadConfig ==
    /\ ~loaded.up /\ \A f \in ConfigFields : FieldOf(config[f]).ok
    /\ loaded' = [up |-> TRUE, fields |-> [f \in ConfigFields |-> FieldOf(config[f]).text]]
    /\ UNCHANGED <<root, config, files, writing, typed, stepsUsed>>
SaveConfig ==
    /\ loaded.up /\ Savable(loaded.fields)
    /\ config' = [f \in ConfigFields |-> SealedField(loaded.fields[f])]
    /\ UNCHANGED <<root, files, writing, loaded, typed, stepsUsed>>
\* A client reads the fields masked, changes one and sends all of them back;
\* the owner keeps what came back masked and saves.
PutConfig(f, t) ==
    /\ loaded.up /\ Used
    /\ LET sent == [g \in ConfigFields |-> IF g = f THEN t ELSE Shown(loaded.fields[g])]
           next == [g \in ConfigFields |-> Kept(sent[g], loaded.fields[g])]
       IN /\ Savable(next)
          /\ loaded' = [loaded EXCEPT !.fields = next]
          /\ config' = [g \in ConfigFields |-> SealedField(next[g])]
    /\ typed' = [typed EXCEPT ![f] = t]
    /\ UNCHANGED <<root, files, writing>>

\* write_secret_file: sealed into a temporary file, then renamed.
BeginFile(f, t) ==
    /\ writing = NotWriting /\ root.reachable
    /\ writing' = [file |-> f, value |-> SealWith(MasterCipher, t)]
WriteSecretFile(f, t) ==
    /\ Used /\ BeginFile(f, t)
    /\ UNCHANGED <<root, config, files, loaded, typed>>
ResealSecretFile(f) ==
    /\ files[f].text # NoText /\ FileOpen(files[f]).reseal
    /\ BeginFile(f, FileOpen(files[f]).text)
    /\ UNCHANGED <<root, config, files, loaded, typed, stepsUsed>>
PersistFile ==
    /\ writing # NotWriting
    /\ files' = [files EXCEPT ![writing.file] = writing.value]
    /\ typed' = [typed EXCEPT ![writing.file] = writing.value.text]
    /\ writing' = NotWriting
    /\ UNCHANGED <<root, config, loaded, stepsUsed>>

\* The process exits and starts again, under a new root or without its key.
Restart(reachable) ==
    /\ Used
    /\ loaded' = [up |-> FALSE, fields |-> NotLoaded] /\ writing' = NotWriting
    /\ root' = [root EXCEPT !.reachable = reachable]
    /\ UNCHANGED <<config, files, typed>>
ReplaceRoot ==
    /\ ~loaded.up /\ writing = NotWriting /\ root.now + 1 \in ConfigRoots
    /\ root' = [now |-> root.now + 1, old |-> root.old \cup {root.now}, reachable |-> TRUE]
    /\ UNCHANGED <<config, files, writing, loaded, typed, stepsUsed>>

ConfigNext ==
    \/ LoadConfig \/ SaveConfig \/ PersistFile \/ ReplaceRoot
    \/ \E b \in BOOLEAN : Restart(b)
    \/ \E f \in ConfigFields, t \in ConfigTexts \cup {NoText} : PutConfig(f, t)
    \/ \E f \in SecretFiles : ResealSecretFile(f) \/ \E t \in ConfigTexts : WriteSecretFile(f, t)
ConfigSpec == ConfigInit /\ [][ConfigNext]_configVars

\* Every variable of this module keeps its type.
ConfigTypeOK ==
    /\ root \in [now : ConfigRoots, old : SUBSET ConfigRoots, reachable : BOOLEAN]
    /\ \A f \in ConfigFields : config[f].form \in {PlainForm, ComponentForm}
    /\ \A f \in SecretFiles : files[f].form \in {PlainForm, MasterForm}
    /\ writing.file \in SecretFiles \cup {NoText}
    /\ loaded \in [up : BOOLEAN, fields : [ConfigFields -> ConfigTexts \cup {NoText}]]
    /\ typed \in [SecretPlaces -> ConfigTexts \cup {NoText}]
    /\ stepsUsed \in 0..MaxConfigSteps

\* What is on disk is what the operator last typed, through any number of
\* masked round trips, rewrites and replaced roots, and it opens whenever the
\* root resolves (SealedString, keep_if_redacted, write_secret_file).
SecretsSurvive ==
    root.reachable =>
        /\ \A f \in ConfigFields : LET o == FieldOf(config[f]) IN o.ok /\ o.text = typed[f]
        /\ \A f \in SecretFiles : LET o == FileOpen(files[f]) IN o.ok /\ o.text = typed[f]
        /\ loaded.up => \A f \in ConfigFields : loaded.fields[f] = typed[f]
=============================================================================
