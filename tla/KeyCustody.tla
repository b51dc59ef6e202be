------------------------------ MODULE KeyCustody ------------------------------
(* Master-key custody: the ladder that finds or makes the key, the key check *)
(* value that says which key sealed the data folder, the retired keys, and   *)
(* the `keys adopt`, `keys retire` and import commands (ryu-crypto, lib.rs   *)
(* and custody.rs). A key stands for its bytes and its check value alike.    *)
EXTENDS Integers, FiniteSets

CONSTANTS
    Keys,         \* keys there can ever be
    EnvKeys,      \* keys the operator may put into RYU_MASTER_KEY
    NoKey, Corrupt,
    Resolvers,    \* processes and commands that resolve custody
    AllowFile,    \* may the host keep a key file?
    MaxRetired,   \* MAX_RETIRED_KEYS
    MaxRuns       \* starts and commands

ASSUME CustodyBounds ==
    /\ IsFiniteSet(Keys) /\ EnvKeys \subseteq Keys
    /\ NoKey \notin Keys /\ Corrupt \notin Keys /\ NoKey # Corrupt
    /\ AllowFile \in BOOLEAN /\ MaxRetired \in Nat /\ MaxRuns \in Nat

VARIABLES
    slots,   \* the four places a live key can be
    reach,   \* can the keychain be read and written?
    folder,  \* state/master-key.kcv, state/retired-keys.json, the retired key material
    sealed,  \* keys that values of the data folder are sealed under
    run,     \* what each process or command is doing
    runs,
    clobbered \* history: key files overwritten because a readable keychain refused

custodyVars == <<slots, reach, folder, sealed, run, runs, clobbered>>

-----------------------------------------------------------------------------
MaybeKey == Keys \cup {NoKey}
Slots == [env : EnvKeys \cup {NoKey}, keychain : MaybeKey \cup {Corrupt},
          file : MaybeKey \cup {Corrupt}, legacy : MaybeKey \cup {Corrupt}]
Custodies == {"keychain", "file"}
Folders == [record : MaybeKey, index : [Keys -> Custodies \cup {"none"}],
            copies : SUBSET (Keys \X Custodies)]
RunPcs == {"down", "store", "verify", "publish", "refused", "settle", "retire",
           "index", "record", "install", "remove", "up"}
Runs == [pc : RunPcs, job : {"resolve", "adopt", "retire"}, key : MaybeKey,
         src : {"env", "keychain", "file", "legacy", "none"}, rec : MaybeKey,
         keep : SUBSET Keys, todo : SUBSET Keys, one : MaybeKey,
         place : Custodies, writes : BOOLEAN, saw : BOOLEAN]
Down == [pc |-> "down", job |-> "resolve", key |-> NoKey, src |-> "none",
         rec |-> NoKey, keep |-> {}, todo |-> {}, one |-> NoKey,
         place |-> "file", writes |-> FALSE, saw |-> FALSE]

CustodyTypeOK ==
    /\ slots \in Slots /\ reach \in BOOLEAN /\ folder \in Folders
    /\ sealed \in SUBSET Keys /\ run \in [Resolvers -> Runs] /\ runs \in 0 .. MaxRuns
    /\ clobbered \in SUBSET Keys

-----------------------------------------------------------------------------
(* What a process can see.                                                   *)

Indexed == {k \in Keys : folder.index[k] # "none"}

\* RetiredVault::load_all: an indexed key whose material is there to read.
Loaded == {k \in Indexed : /\ <<k, folder.index[k]>> \in folder.copies
                           /\ folder.index[k] = "keychain" => reach}

Live == ({slots.env, slots.file, slots.legacy}
            \cup (IF reach THEN {slots.keychain} ELSE {})) \cap Keys
Candidates == Live \cup Loaded

Persistent ==
    IF reach /\ slots.keychain \in Keys THEN {slots.keychain} ELSE {slots.file} \cap Keys
RecordedCurrent == {folder.record} \cap Live

\* The key file, when the host keeps one, then the legacy memory key.
Existing == IF AllowFile /\ slots.file \in Keys THEN slots.file ELSE slots.legacy

MayGenerate == folder.record = NoKey /\ sealed = {} /\ Indexed = {}
Fresh == Keys \ ({slots.env, slots.keychain, slots.file, slots.legacy, folder.record}
            \cup sealed \cup Indexed \cup EnvKeys
            \cup {run[q].key : q \in Resolvers})
Seeds == IF Existing \in Keys THEN {Existing} ELSE IF MayGenerate THEN Fresh ELSE {}

\* The probe opens a sample of the sealed values: it passes when one opens.
Samples == IF sealed = {} THEN {{}} ELSE (SUBSET sealed) \ {{}}

-----------------------------------------------------------------------------
(* A data folder of an earlier version: no record yet, and whatever keys and *)
(* sealed values it has. What is sealed is sealed under one key that is held.*)

CustodyInit ==
    /\ slots \in Slots /\ slots.env = NoKey
    /\ reach \in BOOLEAN
    /\ folder = [record |-> NoKey, index |-> [k \in Keys |-> "none"], copies |-> {}]
    /\ sealed \in {{}} \cup {{k} : k \in {slots.keychain, slots.file, slots.legacy} \cap Keys}
    /\ run = [p \in Resolvers |-> Down]
    /\ runs = 0 /\ clobbered = {}

Goto(p, r) == run' = [run EXCEPT ![p] = r]

\* A start; the commands run with everything stopped.
Starts(p) ==
    /\ run[p].pc = "down" /\ runs < MaxRuns
    /\ \A q \in Resolvers : run[q].pc = "down" \/ run[q].job = "resolve"
    /\ runs' = runs + 1
Commands(p) == Starts(p) /\ \A q \in Resolvers : run[q].pc = "down"

-----------------------------------------------------------------------------
(* load_master_key_guarded: the ladder.                                      *)

Resolving(key, src, pc) ==
    [Down EXCEPT !.pc = pc, !.key = key, !.src = src, !.rec = folder.record]

LadderEnv(p) ==
    /\ Starts(p) /\ slots.env \in Keys
    /\ Goto(p, Resolving(slots.env, "env", "settle"))
    /\ UNCHANGED <<slots, reach, folder, sealed, clobbered>>

\* The keychain's key wins; an identical legacy file is removed.
WithoutMatchingLegacy(k) == IF slots.legacy = k THEN [slots EXCEPT !.legacy = NoKey] ELSE slots

LadderKeychain(p) ==
    /\ Starts(p) /\ slots.env = NoKey /\ slots.legacy # Corrupt
    /\ reach /\ slots.keychain \in Keys
    /\ slots' = WithoutMatchingLegacy(slots.keychain)
    /\ Goto(p, Resolving(slots.keychain, "keychain", "settle"))
    /\ UNCHANGED <<reach, folder, sealed, clobbered>>

\* An empty keychain is seeded: adopt before generating.
LadderSeed(p) ==
    /\ Starts(p) /\ slots.env = NoKey /\ slots.legacy # Corrupt
    /\ reach /\ slots.keychain = NoKey /\ (AllowFile => slots.file # Corrupt)
    /\ \E k \in Seeds : Goto(p, Resolving(k, "keychain", "store"))
    /\ UNCHANGED <<slots, reach, folder, sealed, clobbered>>

LadderFile(p) ==
    /\ Starts(p) /\ slots.env = NoKey /\ slots.legacy # Corrupt
    /\ ~reach /\ AllowFile /\ slots.file # Corrupt
    /\ IF slots.file \in Keys
       THEN Goto(p, Resolving(slots.file, "file", "settle"))
       ELSE \E k \in Seeds : Goto(p, Resolving(k, "file", "publish"))
    /\ UNCHANGED <<slots, reach, folder, sealed, clobbered>>

\* Corrupt material, no custody, or a key it may not generate.
LadderRefuses(p) ==
    /\ Starts(p) /\ slots.env = NoKey
    /\ \/ slots.legacy = Corrupt
       \/ reach /\ slots.keychain = Corrupt
       \/ reach /\ slots.keychain = NoKey /\ (Seeds = {} \/ (AllowFile /\ slots.file = Corrupt))
       \/ ~reach /\ (~AllowFile \/ slots.file = Corrupt \/ Seeds = {})
    /\ Goto(p, Resolving(NoKey, "none", "refused"))
    /\ UNCHANGED <<slots, reach, folder, sealed, clobbered>>

StoreSeed(p) ==
    /\ run[p].pc = "store" /\ reach
    /\ slots' = [slots EXCEPT !.keychain = run[p].key]
    /\ Goto(p, [run[p] EXCEPT !.pc = "verify"])
    /\ UNCHANGED <<reach, folder, sealed, runs, clobbered>>

\* The keychain does not take it: the key file, or nothing.
StoreSeedFails(p) ==
    /\ run[p].pc = "store"
    /\ Goto(p, [run[p] EXCEPT !.src = "file",
                              !.pc = IF AllowFile THEN "publish" ELSE "refused"])
    /\ UNCHANGED <<slots, reach, folder, sealed, runs, clobbered>>

VerifySeed(p) ==
    /\ run[p].pc = "verify"
    /\ IF reach /\ slots.keychain = run[p].key
       THEN /\ slots' = WithoutMatchingLegacy(run[p].key)
            /\ Goto(p, [run[p] EXCEPT !.pc = "settle"])
       ELSE /\ Goto(p, [run[p] EXCEPT !.pc = "refused"])
            /\ UNCHANGED slots
    /\ UNCHANGED <<reach, folder, sealed, runs, clobbered>>

\* write_key_file: the first writer wins, the others take its key.
Publish(p) ==
    /\ run[p].pc = "publish"
    /\ IF slots.file = NoKey
       THEN /\ slots' = [slots EXCEPT !.file = run[p].key]
            /\ Goto(p, [run[p] EXCEPT !.pc = "settle"])
       ELSE /\ Goto(p, IF slots.file = Corrupt THEN [run[p] EXCEPT !.pc = "refused"]
                       ELSE [run[p] EXCEPT !.pc = "settle", !.key = slots.file])
            /\ UNCHANGED slots
    /\ UNCHANGED <<reach, folder, sealed, runs, clobbered>>

-----------------------------------------------------------------------------
(* resolve: the key against the record.                                      *)

Use(p, k) == [run[p] EXCEPT !.pc = "up", !.key = k, !.keep = Loaded \ {k}, !.saw = reach]

\* A candidate that the record names still opens the folder.
Recover(p) ==
    /\ run[p].pc = "refused" /\ run[p].rec \in Candidates
    /\ Goto(p, Use(p, run[p].rec))
    /\ UNCHANGED <<slots, reach, folder, sealed, runs, clobbered>>

SettleRecorded(p) ==
    /\ run[p].pc = "settle" /\ run[p].rec = run[p].key
    /\ Goto(p, Use(p, run[p].key))
    /\ UNCHANGED <<slots, reach, folder, sealed, runs, clobbered>>

\* The candidate k is used, and the key the ladder found is retired.
Replace(p, k, writes) ==
    [Use(p, k) EXCEPT !.pc = "retire",
                      !.keep = (Loaded \ {k}) \cup {run[p].key},
                      !.todo = IF run[p].src = "env" THEN {} ELSE {run[p].key},
                      !.writes = writes]

SettleMismatch(p) ==
    /\ run[p].pc = "settle" /\ run[p].rec \notin {NoKey, run[p].key}
    /\ run[p].src = "env" => run[p].key \in Loaded
    /\ run[p].rec \in Candidates
    /\ Goto(p, Replace(p, run[p].rec, FALSE))
    /\ UNCHANGED <<slots, reach, folder, sealed, runs, clobbered>>

\* Nothing recorded: the probe decides, and its answer is recorded.
SettleFirst(p) ==
    /\ run[p].pc = "settle" /\ run[p].rec = NoKey
    /\ \E sample \in Samples :
         \/ /\ sample = {} \/ run[p].key \in sample
            /\ Goto(p, [Use(p, run[p].key) EXCEPT !.pc = "record"])
         \/ /\ sample # {} /\ run[p].key \notin sample
            /\ \E k \in Candidates \cap sample : Goto(p, Replace(p, k, TRUE))
    /\ UNCHANGED <<slots, reach, folder, sealed, runs, clobbered>>

\* Fail closed: a mismatch that no candidate resolves, or a probe none passes.
GiveUp(p) ==
    /\ \/ run[p].pc = "refused" /\ run[p].rec \notin Candidates
       \/ /\ run[p].pc = "settle" /\ run[p].rec \notin {NoKey, run[p].key}
          /\ \/ run[p].src = "env" /\ run[p].key \notin Loaded
             \/ run[p].rec \notin Candidates
       \/ /\ run[p].pc = "settle" /\ run[p].rec = NoKey
          /\ \E sample \in Samples : sample # {} /\ run[p].key \notin sample
                                     /\ Candidates \cap sample = {}
    /\ Goto(p, Down)
    /\ UNCHANGED <<slots, reach, folder, sealed, runs, clobbered>>

-----------------------------------------------------------------------------
(* RetiredVault::retire: the material first, then the index.                 *)

RetireCopy(p) ==
    /\ run[p].pc = "retire"
    /\ \E k \in run[p].todo \ Indexed : \E c \in Custodies :
         /\ Cardinality(Indexed) < MaxRetired
         /\ c = "keychain" => reach /\ (run[p].job = "resolve" => run[p].src = "keychain")
         /\ folder' = [folder EXCEPT !.copies = @ \cup {<<k, c>>}]
         /\ Goto(p, [run[p] EXCEPT !.pc = "index", !.one = k, !.place = c])
    /\ UNCHANGED <<slots, reach, sealed, runs, clobbered>>

RetireIndex(p) ==
    /\ run[p].pc = "index"
    /\ folder' = [folder EXCEPT !.index = [@ EXCEPT ![run[p].one] = run[p].place]]
    /\ Goto(p, [run[p] EXCEPT !.pc = "retire", !.todo = @ \ {run[p].one}])
    /\ UNCHANGED <<slots, reach, sealed, runs, clobbered>>

\* Already retired, or (full) only logged by a resolution and fatal to a command.
RetireSkips(p) ==
    /\ run[p].pc = "retire"
    /\ \E k \in run[p].todo :
         /\ k \in Indexed \/ Cardinality(Indexed) >= MaxRetired
         /\ Goto(p, IF k \in Indexed \/ run[p].job = "resolve"
                    THEN [run[p] EXCEPT !.todo = @ \ {k}] ELSE Down)
    /\ UNCHANGED <<slots, reach, folder, sealed, runs, clobbered>>

Retired(p) ==
    /\ run[p].pc = "retire" /\ run[p].todo = {}
    /\ Goto(p, [run[p] EXCEPT !.pc = CASE run[p].job = "adopt" -> "install"
                                       [] run[p].job = "retire" -> "remove"
                                       [] OTHER -> IF run[p].writes THEN "record" ELSE "up"])
    /\ UNCHANGED <<slots, reach, folder, sealed, runs, clobbered>>

\* write_kcv_record.
Record(p) ==
    /\ run[p].pc = "record"
    /\ folder' = [folder EXCEPT !.record = run[p].key]
    /\ Goto(p, IF run[p].job = "resolve" THEN [run[p] EXCEPT !.pc = "up"] ELSE Down)
    /\ UNCHANGED <<slots, reach, sealed, runs, clobbered>>

-----------------------------------------------------------------------------
(* The commands.                                                             *)

\* Mutant of Install: only the recorded key is retired, not the one it overwrites.
InstallOverPersistent(p, k, extra) ==
    LET todo == (RecordedCurrent \cup extra) \ {k} IN
    /\ Cardinality(Indexed \cup todo) <= MaxRetired
    /\ Goto(p, [Down EXCEPT !.pc = "retire", !.job = "adopt", !.key = k, !.todo = todo])

Install(p, k, extra) ==
    LET todo == (Persistent \cup RecordedCurrent \cup extra) \ {k} IN
    /\ Cardinality(Indexed \cup todo) <= MaxRetired
    /\ Goto(p, [Down EXCEPT !.pc = "retire", !.job = "adopt", !.key = k, !.todo = todo])

\* adopt_with, --accept-unreadable included.
Adopt(p) ==
    /\ Commands(p)
    /\ \E k \in Candidates : Install(p, k, {})
    /\ UNCHANGED <<slots, reach, folder, sealed, clobbered>>

\* import_with: the archive's key and its retired keys.
Import(p) ==
    /\ Commands(p)
    /\ \E k \in Keys : \E extra \in SUBSET (Keys \ {k}) :
         /\ slots.env \in extra \cup {k, NoKey}
         /\ IF folder.record = k /\ k \in {slots.env, slots.file} \cup (IF reach THEN {slots.keychain} ELSE {})
            THEN Goto(p, [Down EXCEPT !.pc = "retire", !.job = "retire", !.todo = extra])
            ELSE Install(p, k, extra)
    /\ UNCHANGED <<slots, reach, folder, sealed, clobbered>>

\* install_current stores the key where it can be read back.
StoreCurrent(p) ==
    /\ run[p].pc = "install"
    /\ \/ /\ reach
          /\ slots' = [slots EXCEPT !.keychain = run[p].key]
          /\ UNCHANGED clobbered
       \/ /\ AllowFile
          /\ slots' = [slots EXCEPT !.file = run[p].key]
          /\ clobbered' = clobbered \cup (IF reach THEN {slots.file} \cap Keys ELSE {})
    /\ Goto(p, [run[p] EXCEPT !.pc = "record"])
    /\ UNCHANGED <<reach, folder, sealed, runs>>

\* retire_with: the first live slot, in candidate order, that holds the key.
FirstSlot(k) ==
    IF slots.env = k THEN "env"
    ELSE IF reach /\ slots.keychain = k THEN "keychain"
    ELSE IF slots.file = k THEN "file" ELSE "legacy"
RetireKey(p) ==
    /\ Commands(p)
    /\ \E k \in Live \ {folder.record} :
         /\ FirstSlot(k) # "keychain"
         /\ Goto(p, [Down EXCEPT !.pc = "retire", !.job = "retire", !.key = k,
                                 !.src = FirstSlot(k), !.todo = {k}])
    /\ UNCHANGED <<slots, reach, folder, sealed, clobbered>>

\* The slot is emptied once the vault gives the same key back.
RemoveRetired(p) ==
    /\ run[p].pc = "remove"
    /\ slots' = IF run[p].key \notin Loaded THEN slots ELSE
                [slots EXCEPT !.file = IF run[p].src = "file" THEN NoKey ELSE @,
                              !.legacy = IF run[p].src = "legacy" THEN NoKey ELSE @]
    /\ Goto(p, Down)
    /\ UNCHANGED <<reach, folder, sealed, runs, clobbered>>

-----------------------------------------------------------------------------
(* The processes that use the key, and the environment.                      *)

Seal(p) ==
    /\ run[p].pc = "up" /\ run[p].key \notin sealed
    /\ sealed' = sealed \cup {run[p].key}
    /\ UNCHANGED <<slots, reach, folder, run, runs, clobbered>>

\* A process stops, or is killed between two writes.
Stop(p) ==
    /\ run[p].pc # "down"
    /\ Goto(p, Down)
    /\ UNCHANGED <<slots, reach, folder, sealed, runs, clobbered>>

Quiet == \A p \in Resolvers : run[p].pc \in {"down", "up", "verify"}
SetEnv ==
    /\ \A p \in Resolvers : run[p].pc = "down"
    /\ \E e \in EnvKeys \cup {NoKey} : e # slots.env /\ slots' = [slots EXCEPT !.env = e]
    /\ UNCHANGED <<reach, folder, sealed, run, runs, clobbered>>
Lock ==
    /\ Quiet
    /\ reach' = ~reach
    /\ UNCHANGED <<slots, folder, sealed, run, runs, clobbered>>

CustodyNext ==
    \/ \E p \in Resolvers :
         \/ LadderEnv(p) \/ LadderKeychain(p) \/ LadderSeed(p) \/ LadderFile(p)
         \/ LadderRefuses(p) \/ StoreSeed(p) \/ StoreSeedFails(p) \/ VerifySeed(p)
         \/ Publish(p) \/ Recover(p) \/ SettleRecorded(p) \/ SettleMismatch(p)
         \/ SettleFirst(p) \/ GiveUp(p) \/ RetireCopy(p) \/ RetireIndex(p)
         \/ RetireSkips(p) \/ Retired(p) \/ Record(p) \/ Adopt(p) \/ Import(p)
         \/ StoreCurrent(p) \/ RetireKey(p) \/ RemoveRetired(p) \/ Seal(p) \/ Stop(p)
    \/ SetEnv \/ Lock

CustodySpec == CustodyInit /\ [][CustodyNext]_custodyVars

-----------------------------------------------------------------------------
(* Properties.                                                               *)

\* A ladder on its way to store the key it has, and one whose key is in no place
\* that the others look at. Nothing makes two of those hold one key: two first
\* starts that find the same keychain empty each seed it with a key of their own,
\* and the second replaces what the first has already sealed under.
Seeding(r) == r.pc \in {"store", "verify", "publish"}
Makes(p) == Seeding(run[p]) /\ run[p].key # Existing
MakersAgree == \A p, q \in Resolvers : Makes(p) /\ Makes(q) => run[p].key = run[q].key

\* Keys that some place still holds; the operator holds the environment's.
Held == ({slots.keychain, slots.file, slots.legacy} \cap Keys) \cup EnvKeys
            \cup {k \in Indexed : <<k, folder.index[k]>> \in folder.copies}

\* A key that values are sealed under is never lost: every replacement retires
\* the old key before the slot that holds it is written (install_current, resolve,
\* retire_with), wherever the process stops. The exception is install_current
\* with a keychain that is read but refuses the write: it overwrites the key file.
\* load_master_key_guarded breaks it where two processes make a first key at once
\* and the keychain's store replaces one by the other; see MakersAgree.
NothingOrphaned == sealed \subseteq Held \cup clobbered

\* The key the record names is held: it is stored before it is recorded.
RecordIsHeld == folder.record # NoKey => folder.record \in Held

\* A process seals under the recorded key, whatever the ladder found first.
UpUsesRecord ==
    \A p \in Resolvers : run[p].pc = "up" => run[p].key = folder.record

\* A process that came up with the keychain in reach opens every value, but for
\* those under a key that only the operator holds, or that is still in a slot the
\* ladder did not choose: what left its slot was retired, and it opens with that.
UpOpensAll ==
    \A p \in Resolvers : run[p].pc = "up" /\ run[p].saw =>
        sealed \subseteq {run[p].key} \cup run[p].keep \cup EnvKeys
            \cup {slots.keychain, slots.file, slots.legacy} \cup clobbered

\* The four together: what is sealed stays openable through any sequence of
\* starts and custody commands that stop anywhere.
SealedStaysOpenable == NothingOrphaned /\ RecordIsHeld /\ UpUsesRecord /\ UpOpensAll
=============================================================================
