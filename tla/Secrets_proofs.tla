---------------------------- MODULE Secrets_proofs ---------------------------
(* Proofs about the keys and what is sealed under them: master-key custody, the     *)
(* plugin secrets, the store several processes share and the sealed configuration,  *)
(* for any number of keys, starts, writes, processes and commands; and, with the    *)
(* theorems of SealedStores_proofs, about the sealing library as MCSealing puts it  *)
(* together.                                                                        *)
EXTENDS KeyCustody, MCSealing, SealedStores_proofs

(*****************************************************************************)
(* KeyCustody.                                                               *)
(*****************************************************************************)

(* Types. What a resolution or command holds where is in its program counter. *)

JobIsKnown(r) ==
    /\ r.pc \in {"store", "verify", "publish", "refused", "settle", "up"} => r.job = "resolve"
    /\ r.pc = "install" => r.job = "adopt"
    /\ r.pc = "record" => r.job # "retire"
    /\ r.pc = "remove" => r.job = "retire"
KeyIsKnown(r) ==
    /\ r.pc \in {"store", "verify", "publish", "settle", "install", "record", "up"} =>
         r.key \in Keys
    /\ r.job # "retire" /\ r.pc \in {"retire", "index"} => r.key \in Keys
    /\ r.pc = "index" => r.one \in Keys
RunIsTyped(r) == r \in Runs /\ JobIsKnown(r) /\ KeyIsKnown(r)

CustodyTyped == CustodyTypeOK /\ \A p \in Resolvers : RunIsTyped(run[p])

LEMMA TypedForms ==
  ASSUME CustodyTyped
  PROVE  /\ slots \in Slots /\ reach \in BOOLEAN /\ folder \in Folders /\ sealed \in SUBSET Keys
         /\ folder.index \in [Keys -> Custodies \cup {"none"}] /\ folder.record \in MaybeKey
         /\ run \in [Resolvers -> Runs] /\ runs \in 0 .. MaxRuns /\ clobbered \in SUBSET Keys
         /\ Live \subseteq Keys /\ Loaded \subseteq Indexed /\ Indexed \subseteq Keys
         /\ Candidates \subseteq Keys /\ Persistent \subseteq Keys /\ RecordedCurrent \subseteq Keys
         /\ Seeds \subseteq Keys
<1>1. /\ slots \in Slots /\ reach \in BOOLEAN /\ folder \in Folders /\ sealed \in SUBSET Keys
      /\ run \in [Resolvers -> Runs] /\ runs \in 0 .. MaxRuns /\ clobbered \in SUBSET Keys
  BY DEF CustodyTyped, CustodyTypeOK
<1>2. folder.index \in [Keys -> Custodies \cup {"none"}] /\ folder.record \in MaybeKey
  BY <1>1 DEF Folders
<1>3. /\ Live \subseteq Keys /\ Loaded \subseteq Indexed /\ Indexed \subseteq Keys
  BY DEF Live, Loaded, Indexed
<1>4. Candidates \subseteq Keys /\ Persistent \subseteq Keys /\ RecordedCurrent \subseteq Keys
  BY <1>3 DEF Candidates, Persistent, RecordedCurrent
<1>5. Seeds \subseteq Keys
  BY DEF Seeds, Fresh
<1> QED BY <1>1, <1>2, <1>3, <1>4, <1>5

LEMMA DownTyped == RunIsTyped(Down) /\ Down.pc = "down"
<1>1. Down \in Runs /\ Down.pc = "down"
  BY DEF Down, Runs, RunPcs, MaybeKey, Custodies
<1> QED BY <1>1 DEF RunIsTyped, JobIsKnown, KeyIsKnown

\* One resolution or command moves; the others stay where they are.
LEMMA GotoTyped ==
  ASSUME CustodyTyped, NEW p \in Resolvers, NEW r, Goto(p, r), RunIsTyped(r),
         slots' \in Slots, reach' \in BOOLEAN, folder' \in Folders, sealed' \in SUBSET Keys,
         runs' \in 0 .. MaxRuns, clobbered' \in SUBSET Keys
  PROVE  CustodyTyped'
<1>1. run \in [Resolvers -> Runs] /\ r \in Runs /\ run' = [run EXCEPT ![p] = r]
  BY TypedForms DEF Goto, RunIsTyped
<1>2. run' \in [Resolvers -> Runs]
  BY <1>1
<1>3. \A q \in Resolvers : RunIsTyped(run'[q])
  BY <1>1 DEF CustodyTyped
<1>4. \A q \in Resolvers : RunIsTyped(run[q])'
  BY <1>3 DEF RunIsTyped, JobIsKnown, KeyIsKnown
<1> QED BY <1>2, <1>4 DEF CustodyTyped, CustodyTypeOK

LEMMA MoveTyped ==
  ASSUME CustodyTyped, NEW p \in Resolvers, NEW r, Goto(p, r), RunIsTyped(r),
         UNCHANGED <<slots, reach, folder, sealed, clobbered>>, runs' \in 0 .. MaxRuns
  PROVE  CustodyTyped'
  BY TypedForms, GotoTyped

LEMMA StartCounts ==
  ASSUME CustodyTyped, NEW p \in Resolvers, Starts(p) PROVE runs' \in 0 .. MaxRuns
  BY TypedForms, CustodyBounds DEF Starts

LEMMA ResolvingForms ==
  ASSUME CustodyTyped, NEW key \in MaybeKey,
         NEW src \in {"env", "keychain", "file", "legacy", "none"},
         NEW pc \in {"store", "publish", "refused", "settle"}
  PROVE  LET r == Resolving(key, src, pc) IN
         /\ r \in Runs /\ r.pc = pc /\ r.key = key /\ r.src = src /\ r.job = "resolve"
         /\ r.rec = folder.record
<1>1. folder.record \in MaybeKey
  BY TypedForms
<1> QED BY <1>1, ZenonT(60) DEF Resolving, Down, Runs, RunPcs, MaybeKey, Custodies

LEMMA ResolvingTyped ==
  ASSUME CustodyTyped, NEW p \in Resolvers, NEW key \in MaybeKey,
         NEW src \in {"env", "keychain", "file", "legacy", "none"},
         NEW pc \in {"store", "publish", "refused", "settle"}, pc # "refused" => key \in Keys
  PROVE  RunIsTyped(Resolving(key, src, pc))
<1> DEFINE r == Resolving(key, src, pc)
<1>1. r \in Runs /\ r.pc = pc /\ r.key = key /\ r.job = "resolve"
  BY ResolvingForms
<1> HIDE DEF r
<1>2. RunIsTyped(r)
  BY <1>1 DEF RunIsTyped, JobIsKnown, KeyIsKnown
<1> QED BY <1>2 DEF r

LEMMA MatchingLegacyTyped ==
  ASSUME CustodyTyped, NEW k
  PROVE  LET s == WithoutMatchingLegacy(k) IN
         /\ s \in Slots /\ s.keychain = slots.keychain /\ s.file = slots.file /\ s.env = slots.env
         /\ s.legacy = IF slots.legacy = k THEN NoKey ELSE slots.legacy
  BY TypedForms DEF WithoutMatchingLegacy, Slots, MaybeKey

LEMMA LadderTyped ==
  ASSUME CustodyTyped, NEW p \in Resolvers,
         LadderEnv(p) \/ LadderKeychain(p) \/ LadderSeed(p) \/ LadderFile(p) \/ LadderRefuses(p)
  PROVE  CustodyTyped'
<1>1. runs' \in 0 .. MaxRuns
  BY StartCounts DEF LadderEnv, LadderKeychain, LadderSeed, LadderFile, LadderRefuses
<1>2. Seeds \subseteq Keys /\ Keys \subseteq MaybeKey /\ NoKey \in MaybeKey
  BY TypedForms DEF MaybeKey
<1>3. ASSUME NEW key \in MaybeKey, NEW src \in {"env", "keychain", "file", "legacy", "none"},
             NEW pc \in {"store", "publish", "refused", "settle"},
             pc # "refused" => key \in Keys, Goto(p, Resolving(key, src, pc)),
             slots' \in Slots, UNCHANGED <<reach, folder, sealed, clobbered>>
      PROVE  CustodyTyped'
  <2>1. RunIsTyped(Resolving(key, src, pc))
    BY <1>3, ResolvingTyped
  <2> QED BY <1>1, <1>3, <2>1, TypedForms, GotoTyped
<1>4. slots \in Slots
  BY TypedForms
<1>5. CASE LadderEnv(p)
  BY <1>2, <1>3, <1>4, <1>5 DEF LadderEnv
<1>6. CASE LadderKeychain(p)
  <2>1. slots' \in Slots
    BY <1>6, MatchingLegacyTyped DEF LadderKeychain
  <2> QED BY <1>2, <1>3, <1>6, <2>1 DEF LadderKeychain
<1>7. CASE LadderSeed(p)
  BY <1>2, <1>3, <1>4, <1>7 DEF LadderSeed
<1>8. CASE LadderFile(p)
  BY <1>2, <1>3, <1>4, <1>8 DEF LadderFile
<1>9. CASE LadderRefuses(p)
  BY <1>2, <1>3, <1>4, <1>9 DEF LadderRefuses
<1> QED BY <1>5, <1>6, <1>7, <1>8, <1>9

LEMMA SeedTyped ==
  ASSUME CustodyTyped, NEW p \in Resolvers,
         StoreSeed(p) \/ StoreSeedFails(p) \/ VerifySeed(p) \/ Publish(p)
  PROVE  CustodyTyped'
<1> DEFINE r == run[p]
<1>1. /\ r \in Runs /\ r.pc \in {"store", "verify", "publish"} /\ RunIsTyped(r) /\ slots \in Slots
      /\ UNCHANGED <<reach, folder, sealed, runs, clobbered>> /\ runs' \in 0 .. MaxRuns
  BY TypedForms DEF CustodyTyped, StoreSeed, StoreSeedFails, VerifySeed, Publish
<1>2. r.job = "resolve" /\ r.key \in Keys
  BY <1>1 DEF RunIsTyped, JobIsKnown, KeyIsKnown
<1>3. ASSUME NEW pc \in {"verify", "publish", "refused", "settle"}, NEW key \in Keys,
             NEW src \in {r.src, "file"}, slots' \in Slots,
             Goto(p, [r EXCEPT !.pc = pc, !.key = key, !.src = src])
      PROVE  CustodyTyped'
  <2> DEFINE s == [r EXCEPT !.pc = pc, !.key = key, !.src = src]
  <2>1. s \in Runs /\ s.pc = pc /\ s.job = "resolve" /\ s.key = key
    BY <1>1, <1>2 DEF Runs, RunPcs, MaybeKey
  <2> HIDE DEF s
  <2>2. RunIsTyped(s)
    BY <2>1 DEF RunIsTyped, JobIsKnown, KeyIsKnown
  <2> QED BY <1>1, <1>3, <2>2, TypedForms, GotoTyped DEF s
<1>4. ASSUME NEW pc \in {"verify", "publish", "refused", "settle"}, slots' \in Slots,
             Goto(p, [r EXCEPT !.pc = pc])
      PROVE  CustodyTyped'
  <2>1. [r EXCEPT !.pc = pc] = [r EXCEPT !.pc = pc, !.key = r.key, !.src = r.src]
    BY <1>1 DEF Runs
  <2> QED BY <1>2, <1>3, <1>4, <2>1
<1>5. CASE StoreSeed(p)
  <2>1. slots' \in Slots
    BY <1>1, <1>2, <1>5 DEF StoreSeed, Slots, MaybeKey
  <2> QED BY <1>4, <1>5, <2>1 DEF StoreSeed
<1>6. CASE StoreSeedFails(p)
  <2> DEFINE pc == IF AllowFile THEN "publish" ELSE "refused"
  <2>1. [r EXCEPT !.src = "file", !.pc = pc] = [r EXCEPT !.pc = pc, !.key = r.key, !.src = "file"]
    BY <1>1 DEF Runs
  <2>2. Goto(p, [r EXCEPT !.src = "file", !.pc = pc]) /\ slots' \in Slots
    BY <1>1, <1>6 DEF StoreSeedFails
  <2>3. pc \in {"verify", "publish", "refused", "settle"}
    OBVIOUS
  <2> HIDE DEF pc, r
  <2> QED BY <1>2, <1>3, <2>1, <2>2, <2>3
<1>7. CASE VerifySeed(p)
  <2>1. slots' \in Slots
    BY <1>1, <1>7, MatchingLegacyTyped DEF VerifySeed
  <2> QED BY <1>4, <1>7, <2>1 DEF VerifySeed
<1>8. CASE Publish(p)
  <2>1. CASE slots.file = NoKey
    <3>1. slots' \in Slots
      BY <1>1, <1>2, <1>8, <2>1 DEF Publish, Slots, MaybeKey
    <3> QED BY <1>4, <1>8, <2>1, <3>1 DEF Publish
  <2>2. CASE slots.file = Corrupt
    BY <1>1, <1>4, <1>8, <2>2, CustodyBounds DEF Publish
  <2>3. CASE slots.file \notin {NoKey, Corrupt}
    <3>1. slots.file \in Keys
      BY <1>1, <2>3 DEF Slots, MaybeKey
    <3>2. [r EXCEPT !.pc = "settle", !.key = slots.file]
            = [r EXCEPT !.pc = "settle", !.key = slots.file, !.src = r.src]
      BY <1>1 DEF Runs
    <3> QED BY <1>1, <1>3, <1>8, <2>3, <3>1, <3>2 DEF Publish
  <2> QED BY <2>1, <2>2, <2>3
<1> QED BY <1>5, <1>6, <1>7, <1>8

LEMMA UseForms ==
  ASSUME CustodyTyped, NEW p \in Resolvers, NEW k \in Keys
  PROVE  LET u == Use(p, k) IN
         /\ u \in Runs /\ u.pc = "up" /\ u.key = k /\ u.keep = Loaded \ {k} /\ u.saw = reach
         /\ u.job = run[p].job /\ u.rec = run[p].rec /\ u.todo = run[p].todo
         /\ u.writes = run[p].writes /\ u.src = run[p].src /\ u.one = run[p].one
         /\ u.place = run[p].place
<1>1. run[p] \in Runs /\ reach \in BOOLEAN
  BY TypedForms
<1>2. Loaded \ {k} \in SUBSET Keys /\ k \in MaybeKey
  BY DEF Loaded, Indexed, MaybeKey
<1> QED BY <1>1, <1>2 DEF Use, Runs, RunPcs

LEMMA ReplaceForms ==
  ASSUME CustodyTyped, NEW p \in Resolvers, run[p].key \in Keys, NEW k \in Keys,
         NEW w \in BOOLEAN
  PROVE  LET r == Replace(p, k, w) IN
         /\ r \in Runs /\ r.pc = "retire" /\ r.key = k /\ r.keep = (Loaded \ {k}) \cup {run[p].key}
         /\ (run[p].src = "env" => r.todo = {}) /\ (run[p].src # "env" => r.todo = {run[p].key})
         /\ r.writes = w /\ r.saw = reach /\ r.job = run[p].job /\ r.rec = run[p].rec
<1> DEFINE keep == (Loaded \ {k}) \cup {run[p].key}
           todo == IF run[p].src = "env" THEN {} ELSE {run[p].key}
           r == Replace(p, k, w)
           u == Use(p, k)
<1>1. keep \in SUBSET Keys /\ todo \in SUBSET Keys
  BY TypedForms
<1>2. r = [u EXCEPT !.pc = "retire", !.keep = keep, !.todo = todo, !.writes = w]
  BY DEF Replace
<1>3. u \in Runs /\ u.key = k /\ u.saw = reach /\ u.job = run[p].job /\ u.rec = run[p].rec
  BY UseForms
<1> HIDE DEF r, keep, todo, u
<1>4. /\ r \in Runs /\ r.pc = "retire" /\ r.key = k /\ r.keep = keep /\ r.todo = todo
      /\ r.writes = w /\ r.saw = reach /\ r.job = run[p].job /\ r.rec = run[p].rec
  BY <1>1, <1>2, <1>3 DEF Runs, RunPcs
<1> QED BY <1>4 DEF keep, todo, r

LEMMA ReplaceWrites ==
  ASSUME CustodyTyped, NEW p \in Resolvers, NEW k, NEW w
  PROVE  Replace(p, k, w).writes = w
<1>1. run[p] \in Runs
  BY TypedForms
<1> QED BY <1>1 DEF Replace, Use, Runs

LEMMA SettleTyped ==
  ASSUME CustodyTyped, NEW p \in Resolvers,
         \/ Recover(p) \/ SettleRecorded(p) \/ SettleMismatch(p) \/ SettleFirst(p) \/ GiveUp(p)
         \/ Stop(p)
  PROVE  CustodyTyped'
<1>1. /\ RunIsTyped(run[p]) /\ run[p] \in Runs /\ runs' \in 0 .. MaxRuns
      /\ Candidates \subseteq Keys /\ UNCHANGED <<slots, reach, folder, sealed, runs, clobbered>>
  BY TypedForms DEF CustodyTyped, Recover, SettleRecorded, SettleMismatch, SettleFirst, GiveUp, Stop
<1>2. run[p].pc \in {"refused", "settle"} => run[p].job = "resolve"
  BY <1>1 DEF RunIsTyped, JobIsKnown
<1>3. run[p].pc = "settle" => run[p].key \in Keys
  BY <1>1 DEF RunIsTyped, KeyIsKnown
<1>4. ASSUME NEW k \in Keys, run[p].pc \in {"refused", "settle"}, Goto(p, Use(p, k))
      PROVE  CustodyTyped'
  <2> DEFINE u == Use(p, k)
  <2>1. u \in Runs /\ u.pc = "up" /\ u.key = k /\ u.job = "resolve"
    BY <1>2, <1>4, UseForms
  <2> HIDE DEF u
  <2>2. RunIsTyped(u)
    BY <2>1 DEF RunIsTyped, JobIsKnown, KeyIsKnown
  <2> QED BY <1>1, <1>4, <2>2, MoveTyped DEF u
<1>5. CASE Recover(p)
  BY <1>1, <1>4, <1>5 DEF Recover
<1>6. CASE SettleRecorded(p)
  BY <1>3, <1>4, <1>6 DEF SettleRecorded
<1>7. ASSUME NEW k \in Keys, NEW w \in BOOLEAN, run[p].pc = "settle",
             Goto(p, Replace(p, k, w))
      PROVE  CustodyTyped'
  <2> DEFINE r == Replace(p, k, w)
  <2>1. run[p].key \in Keys /\ run[p].job = "resolve"
    BY <1>2, <1>3, <1>7
  <2>2. r \in Runs /\ r.pc = "retire" /\ r.key = k /\ r.job = run[p].job
    BY <2>1, ReplaceForms
  <2> HIDE DEF r
  <2>3. RunIsTyped(r)
    BY <2>1, <2>2 DEF RunIsTyped, JobIsKnown, KeyIsKnown
  <2> QED BY <1>1, <1>7, <2>3, MoveTyped DEF r
<1>8. CASE SettleMismatch(p)
  BY <1>1, <1>7, <1>8 DEF SettleMismatch
<1>9. CASE SettleFirst(p)
  <2>1. run[p].pc = "settle"
    BY <1>9 DEF SettleFirst
  <2>2. CASE Goto(p, [Use(p, run[p].key) EXCEPT !.pc = "record"])
    <3> DEFINE u == Use(p, run[p].key)
               r == [u EXCEPT !.pc = "record"]
    <3>1. u \in Runs /\ u.key = run[p].key /\ u.job = "resolve"
      BY <1>2, <1>3, <2>1, UseForms
    <3> HIDE DEF u
    <3>2. r \in Runs /\ r.pc = "record" /\ r.key = run[p].key /\ r.job = "resolve"
      BY <3>1 DEF Runs, RunPcs
    <3> HIDE DEF r
    <3>3. RunIsTyped(r)
      BY <1>3, <2>1, <3>2 DEF RunIsTyped, JobIsKnown, KeyIsKnown
    <3> QED BY <1>1, <2>2, <3>3, MoveTyped DEF r, u
  <2>3. ASSUME NEW k \in Candidates, Goto(p, Replace(p, k, TRUE)) PROVE CustodyTyped'
    BY <1>1, <1>7, <2>1, <2>3
  <2> QED BY <1>9, <2>2, <2>3 DEF SettleFirst
<1>10. CASE GiveUp(p) \/ Stop(p)
  BY <1>1, <1>10, DownTyped, MoveTyped DEF GiveUp, Stop
<1> QED BY <1>5, <1>6, <1>8, <1>9, <1>10

\* Where a retirement can go next.
LEMMA RetireTyped ==
  ASSUME CustodyTyped, NEW p \in Resolvers,
         RetireCopy(p) \/ RetireIndex(p) \/ RetireSkips(p) \/ Retired(p)
  PROVE  CustodyTyped'
<1> DEFINE s == run[p]
<1>1. /\ RunIsTyped(s) /\ s \in Runs /\ s.todo \subseteq Keys /\ s.job \in {"resolve", "adopt", "retire"}
      /\ folder \in Folders /\ s.writes \in BOOLEAN /\ s.one \in MaybeKey
      /\ s.place \in Custodies /\ runs' \in 0 .. MaxRuns
      /\ UNCHANGED <<slots, reach, sealed, runs, clobbered>>
      /\ folder.index \in [Keys -> Custodies \cup {"none"}]
  BY TypedForms DEF CustodyTyped, RetireCopy, RetireIndex, RetireSkips, Retired, Runs
<1>2. s.pc \in {"retire", "index"} /\ s.job # "retire" => s.key \in Keys
  BY <1>1 DEF RunIsTyped, KeyIsKnown
<1>3. CASE RetireCopy(p)
  <2>1. s.pc = "retire"
    BY <1>3 DEF RetireCopy
  <2>2. PICK k \in s.todo \ Indexed : \E c \in Custodies :
          /\ folder' = [folder EXCEPT !.copies = @ \cup {<<k, c>>}]
          /\ Goto(p, [s EXCEPT !.pc = "index", !.one = k, !.place = c])
    BY <1>3 DEF RetireCopy
  <2>3. PICK c \in Custodies :
          /\ folder' = [folder EXCEPT !.copies = @ \cup {<<k, c>>}]
          /\ Goto(p, [s EXCEPT !.pc = "index", !.one = k, !.place = c])
    BY <2>2
  <2> DEFINE r == [s EXCEPT !.pc = "index", !.one = k, !.place = c]
  <2>4. r \in Runs /\ r.pc = "index" /\ r.job = s.job /\ r.key = s.key /\ r.one \in Keys
    BY <1>1 DEF Runs, RunPcs, MaybeKey
  <2>5. folder' \in Folders
    BY <1>1, <2>3 DEF Folders
  <2> HIDE DEF r
  <2>6. RunIsTyped(r)
    BY <1>2, <2>1, <2>4 DEF RunIsTyped, JobIsKnown, KeyIsKnown
  <2> QED BY <1>1, <2>3, <2>5, <2>6, TypedForms, GotoTyped DEF r
<1>4. CASE RetireIndex(p)
  <2> DEFINE rest == s.todo \ {s.one}
             r == [s EXCEPT !.pc = "retire", !.todo = rest]
  <2>1. rest \in SUBSET Keys /\ s.pc = "index" /\ Goto(p, r)
        /\ folder' = [folder EXCEPT !.index = [@ EXCEPT ![s.one] = s.place]]
    BY <1>1, <1>4 DEF RetireIndex
  <2> HIDE DEF rest
  <2>2. r \in Runs /\ r.pc = "retire" /\ r.job = s.job /\ r.key = s.key
    BY <1>1, <2>1 DEF Runs, RunPcs
  <2>3. folder' \in Folders
    BY <1>1, <2>1 DEF Folders
  <2> HIDE DEF r
  <2>4. RunIsTyped(r)
    BY <1>2, <2>1, <2>2 DEF RunIsTyped, JobIsKnown, KeyIsKnown
  <2> QED BY <1>1, <2>1, <2>3, <2>4, TypedForms, GotoTyped
<1>5. CASE RetireSkips(p)
  <2>1. s.pc = "retire" /\ UNCHANGED folder
    BY <1>5 DEF RetireSkips
  <2>2. PICK k \in s.todo :
          Goto(p, IF k \in Indexed \/ s.job = "resolve" THEN [s EXCEPT !.todo = @ \ {k}] ELSE Down)
    BY <1>5 DEF RetireSkips
  <2> DEFINE rest == s.todo \ {k}
             r == [s EXCEPT !.todo = rest]
  <2>3. rest \in SUBSET Keys
    BY <1>1
  <2> HIDE DEF rest
  <2>4. r \in Runs /\ r.pc = s.pc /\ r.job = s.job /\ r.key = s.key
    BY <1>1, <2>3 DEF Runs
  <2>5. Goto(p, r) \/ Goto(p, Down)
    BY <2>2 DEF rest
  <2> HIDE DEF r
  <2>6. RunIsTyped(r)
    BY <1>2, <2>1, <2>4 DEF RunIsTyped, JobIsKnown, KeyIsKnown
  <2> QED BY <1>1, <2>1, <2>5, <2>6, DownTyped, MoveTyped
<1>6. CASE Retired(p)
  <2> DEFINE pc == CASE s.job = "adopt" -> "install" [] s.job = "retire" -> "remove"
                     [] OTHER -> IF s.writes THEN "record" ELSE "up"
             r == [s EXCEPT !.pc = pc]
  <2>1. s.pc = "retire" /\ UNCHANGED folder /\ Goto(p, r)
    BY <1>6 DEF Retired
  <2>2. /\ s.job = "adopt" => pc = "install"
        /\ s.job = "retire" => pc = "remove"
        /\ s.job = "resolve" => pc \in {"record", "up"}
    <3> HIDE DEF s
    <3>1. CASE s.job = "adopt"
      BY <3>1
    <3>2. CASE s.job = "retire"
      BY <3>2
    <3>3. CASE s.job = "resolve"
      BY <3>3
    <3> QED BY <1>1, <3>1, <3>2, <3>3
  <2> HIDE DEF pc
  <2>3. pc \in RunPcs
    BY <1>1, <2>2 DEF RunPcs
  <2>4. r \in Runs /\ r.pc = pc /\ r.job = s.job /\ r.key = s.key
    BY <1>1, <2>3 DEF Runs
  <2> HIDE DEF r, s
  <2>5. RunIsTyped(r)
    BY <1>1, <1>2, <2>1, <2>2, <2>4 DEF RunIsTyped, JobIsKnown, KeyIsKnown
  <2> QED BY <1>1, <2>1, <2>5, MoveTyped
<1> QED BY <1>3, <1>4, <1>5, <1>6

LEMMA RecordTyped ==
  ASSUME CustodyTyped, NEW p \in Resolvers, Record(p) PROVE CustodyTyped'
<1> DEFINE s == run[p]
           r == [s EXCEPT !.pc = "up"]
<1>1. /\ RunIsTyped(s) /\ s \in Runs /\ s.pc = "record" /\ folder \in Folders
      /\ runs' \in 0 .. MaxRuns /\ UNCHANGED <<slots, reach, sealed, runs, clobbered>>
      /\ folder' = [folder EXCEPT !.record = s.key]
      /\ Goto(p, IF s.job = "resolve" THEN r ELSE Down)
  BY TypedForms DEF CustodyTyped, Record
<1>2. s.key \in Keys
  BY <1>1 DEF RunIsTyped, KeyIsKnown
<1>3. folder' \in Folders
  BY <1>1, <1>2 DEF Folders, MaybeKey
<1>4. r \in Runs /\ r.pc = "up" /\ r.job = s.job /\ r.key = s.key
  BY <1>1 DEF Runs, RunPcs
<1> HIDE DEF r, s
<1>5. s.job = "resolve" => RunIsTyped(r)
  BY <1>2, <1>4 DEF RunIsTyped, JobIsKnown, KeyIsKnown
<1> QED BY <1>1, <1>3, <1>5, DownTyped, TypedForms, GotoTyped

\* A command that starts, with the keys it retires first.
LEMMA InstallForms ==
  ASSUME CustodyTyped, NEW k \in Keys, NEW extra \in SUBSET Keys
  PROVE  LET todo == (Persistent \cup RecordedCurrent \cup extra) \ {k}
             r == [Down EXCEPT !.pc = "retire", !.job = "adopt", !.key = k, !.todo = todo]
         IN  RunIsTyped(r) /\ r.pc = "retire" /\ r.job = "adopt" /\ r.key = k /\ r.todo = todo
<1> DEFINE todo == (Persistent \cup RecordedCurrent \cup extra) \ {k}
           r == [Down EXCEPT !.pc = "retire", !.job = "adopt", !.key = k, !.todo = todo]
<1>1. todo \in SUBSET Keys
  BY TypedForms
<1> HIDE DEF todo
<1>2. r \in Runs /\ r.pc = "retire" /\ r.job = "adopt" /\ r.key = k /\ r.todo = todo
  BY <1>1 DEF Down, Runs, RunPcs, MaybeKey, Custodies
<1> HIDE DEF r
<1>3. RunIsTyped(r)
  BY <1>2 DEF RunIsTyped, JobIsKnown, KeyIsKnown
<1> QED BY <1>2, <1>3 DEF r, todo

LEMMA ImportForms ==
  ASSUME CustodyTyped, NEW extra \in SUBSET Keys
  PROVE  LET r == [Down EXCEPT !.pc = "retire", !.job = "retire", !.todo = extra] IN
         RunIsTyped(r) /\ r.pc = "retire" /\ r.job = "retire" /\ r.src = "none"
<1> DEFINE r == [Down EXCEPT !.pc = "retire", !.job = "retire", !.todo = extra]
<1>1. r \in Runs /\ r.pc = "retire" /\ r.job = "retire" /\ r.src = "none"
  BY DEF Down, Runs, RunPcs, MaybeKey, Custodies
<1> HIDE DEF r
<1>2. RunIsTyped(r)
  BY <1>1 DEF RunIsTyped, JobIsKnown, KeyIsKnown
<1> QED BY <1>1, <1>2 DEF r

LEMMA RetireKeyForms ==
  ASSUME CustodyTyped, NEW k \in Live
  PROVE  LET r == [Down EXCEPT !.pc = "retire", !.job = "retire", !.key = k,
                               !.src = FirstSlot(k), !.todo = {k}]
         IN  /\ RunIsTyped(r) /\ r.pc = "retire" /\ r.job = "retire" /\ r.key = k
             /\ r.src = "file" => slots.file = k
             /\ r.src = "legacy" => slots.legacy = k
<1>1. k \in Keys /\ FirstSlot(k) \in {"env", "keychain", "file", "legacy"}
  BY DEF Live, FirstSlot
<1>2. /\ FirstSlot(k) = "file" => slots.file = k
      /\ FirstSlot(k) = "legacy" => slots.legacy = k
  BY DEF Live, FirstSlot
<1> DEFINE src == FirstSlot(k)
           r == [Down EXCEPT !.pc = "retire", !.job = "retire", !.key = k, !.src = src,
                             !.todo = {k}]
<1> HIDE DEF src
<1>3. r \in Runs /\ r.pc = "retire" /\ r.job = "retire" /\ r.src = src /\ r.key = k
  BY <1>1 DEF Down, Runs, RunPcs, MaybeKey, Custodies, src
<1> HIDE DEF r
<1>4. RunIsTyped(r)
  BY <1>3 DEF RunIsTyped, JobIsKnown, KeyIsKnown
<1> QED BY <1>2, <1>3, <1>4 DEF r, src

LEMMA CommandsTyped ==
  ASSUME CustodyTyped, NEW p \in Resolvers, Adopt(p) \/ Import(p) \/ RetireKey(p)
  PROVE  CustodyTyped'
<1>1. UNCHANGED <<slots, reach, folder, sealed, clobbered>> /\ runs' \in 0 .. MaxRuns
  BY StartCounts DEF Adopt, Import, RetireKey, Commands
<1>2. ASSUME NEW k \in Keys, NEW extra \in SUBSET Keys, Install(p, k, extra) PROVE CustodyTyped'
  <2> DEFINE todo == (Persistent \cup RecordedCurrent \cup extra) \ {k}
             r == [Down EXCEPT !.pc = "retire", !.job = "adopt", !.key = k, !.todo = todo]
  <2>1. RunIsTyped(r)
    BY InstallForms
  <2>2. Goto(p, r)
    BY <1>2 DEF Install
  <2> HIDE DEF r
  <2> QED BY <1>1, <2>1, <2>2, MoveTyped
<1>3. CASE Adopt(p)
  BY <1>2, <1>3, TypedForms DEF Adopt
<1>4. CASE Import(p)
  <2>1. PICK k \in Keys : \E extra \in SUBSET (Keys \ {k}) :
          \/ Goto(p, [Down EXCEPT !.pc = "retire", !.job = "retire", !.todo = extra])
          \/ Install(p, k, extra)
    BY <1>4 DEF Import
  <2>2. PICK extra \in SUBSET (Keys \ {k}) :
          \/ Goto(p, [Down EXCEPT !.pc = "retire", !.job = "retire", !.todo = extra])
          \/ Install(p, k, extra)
    BY <2>1
  <2>3. extra \in SUBSET Keys
    OBVIOUS
  <2>4. CASE Goto(p, [Down EXCEPT !.pc = "retire", !.job = "retire", !.todo = extra])
    <3>1. RunIsTyped([Down EXCEPT !.pc = "retire", !.job = "retire", !.todo = extra])
      BY <2>3, ImportForms
    <3> QED BY <1>1, <2>4, <3>1, MoveTyped
  <2> QED BY <1>2, <2>2, <2>3, <2>4
<1>5. CASE RetireKey(p)
  <2>1. PICK k \in Live :
          Goto(p, [Down EXCEPT !.pc = "retire", !.job = "retire", !.key = k,
                               !.src = FirstSlot(k), !.todo = {k}])
    BY <1>5 DEF RetireKey
  <2>2. RunIsTyped([Down EXCEPT !.pc = "retire", !.job = "retire", !.key = k,
                                !.src = FirstSlot(k), !.todo = {k}])
    BY RetireKeyForms
  <2> QED BY <1>1, <2>1, <2>2, MoveTyped
<1> QED BY <1>3, <1>4, <1>5

LEMMA StoreCurrentTyped ==
  ASSUME CustodyTyped, NEW p \in Resolvers, StoreCurrent(p) PROVE CustodyTyped'
<1> DEFINE s == run[p]
           r == [s EXCEPT !.pc = "record"]
<1>1. /\ RunIsTyped(s) /\ s \in Runs /\ s.pc = "install" /\ slots \in Slots
      /\ clobbered \in SUBSET Keys /\ runs' \in 0 .. MaxRuns
      /\ UNCHANGED <<reach, folder, sealed, runs>> /\ Goto(p, r)
  BY TypedForms DEF CustodyTyped, StoreCurrent
<1>2. s.key \in Keys /\ s.job = "adopt"
  BY <1>1 DEF RunIsTyped, KeyIsKnown, JobIsKnown
<1>3. r \in Runs /\ r.pc = "record" /\ r.job = s.job /\ r.key = s.key
  BY <1>1 DEF Runs, RunPcs
<1>4. slots' \in Slots
  BY <1>1, <1>2 DEF StoreCurrent, Slots, MaybeKey
<1>5. clobbered' \in SUBSET Keys
  BY <1>1 DEF StoreCurrent
<1> HIDE DEF r, s
<1>6. RunIsTyped(r)
  BY <1>2, <1>3 DEF RunIsTyped, JobIsKnown, KeyIsKnown
<1> QED BY <1>1, <1>4, <1>5, <1>6, TypedForms, GotoTyped

LEMMA RemoveRetiredTyped ==
  ASSUME CustodyTyped, NEW p \in Resolvers, RemoveRetired(p) PROVE CustodyTyped'
<1>1. /\ slots \in Slots /\ runs' \in 0 .. MaxRuns /\ Goto(p, Down)
      /\ UNCHANGED <<reach, folder, sealed, runs, clobbered>>
  BY TypedForms DEF RemoveRetired
<1>2. slots' \in Slots
  <2> DEFINE file == IF run[p].src = "file" THEN NoKey ELSE slots.file
             legacy == IF run[p].src = "legacy" THEN NoKey ELSE slots.legacy
  <2>1. file \in MaybeKey \cup {Corrupt} /\ legacy \in MaybeKey \cup {Corrupt}
    BY <1>1 DEF Slots, MaybeKey
  <2>2. slots' = slots \/ slots' = [slots EXCEPT !.file = file, !.legacy = legacy]
    BY DEF RemoveRetired
  <2> HIDE DEF file, legacy
  <2> QED BY <1>1, <2>1, <2>2 DEF Slots
<1> QED BY <1>1, <1>2, DownTyped, TypedForms, GotoTyped

LEMMA UseTyped ==
  ASSUME CustodyTyped, (\E p \in Resolvers : Seal(p)) \/ SetEnv \/ Lock PROVE CustodyTyped'
<1>1. run' = run /\ runs' = runs /\ folder' = folder /\ clobbered' = clobbered
  BY DEF Seal, SetEnv, Lock
<1>2. sealed' \in SUBSET Keys
  BY TypedForms DEF Seal, SetEnv, Lock, CustodyTyped, RunIsTyped, KeyIsKnown
<1>3. slots' \in Slots
  <2>1. CASE SetEnv
    BY <2>1, TypedForms DEF SetEnv, Slots
  <2> QED BY <2>1, TypedForms DEF Seal, Lock
<1>4. reach' \in BOOLEAN
  BY TypedForms DEF Seal, SetEnv, Lock
<1>5. \A p \in Resolvers : RunIsTyped(run[p])'
  BY <1>1 DEF CustodyTyped, RunIsTyped, JobIsKnown, KeyIsKnown
<1> QED BY <1>1, <1>2, <1>3, <1>4, <1>5, TypedForms DEF CustodyTyped, CustodyTypeOK

LEMMA CustodyInitTyped == CustodyInit => CustodyTyped
<1> SUFFICES ASSUME CustodyInit PROVE CustodyTyped
  OBVIOUS
<1>1. slots \in Slots /\ reach \in BOOLEAN /\ runs = 0 /\ clobbered = {}
      /\ run = [p \in Resolvers |-> Down]
      /\ folder = [record |-> NoKey, index |-> [k \in Keys |-> "none"], copies |-> {}]
  BY DEF CustodyInit
<1>2. folder \in Folders
  BY <1>1 DEF Folders, MaybeKey
<1>3. sealed \in SUBSET Keys
  BY DEF CustodyInit
<1>4. run \in [Resolvers -> Runs]
  BY <1>1, DownTyped DEF RunIsTyped
<1>5. CustodyTypeOK
  BY <1>1, <1>2, <1>3, <1>4, CustodyBounds DEF CustodyTypeOK
<1> QED BY <1>1, <1>5, DownTyped DEF CustodyTyped

LEMMA CustodyNextTyped ==
  ASSUME CustodyTyped, [CustodyNext]_custodyVars PROVE CustodyTyped'
<1>1. CASE UNCHANGED custodyVars
  BY <1>1 DEF custodyVars, CustodyTyped, CustodyTypeOK, RunIsTyped, JobIsKnown, KeyIsKnown
<1>2. CASE CustodyNext
  BY <1>2, LadderTyped, SeedTyped, SettleTyped, RetireTyped, RecordTyped, CommandsTyped,
     StoreCurrentTyped, RemoveRetiredTyped, UseTyped DEF CustodyNext
<1> QED BY <1>1, <1>2

\* The state of custody has its type through every start, command and stop, however
\* many processes resolve at once.
THEOREM CustodyTypeCorrect == CustodySpec => []CustodyTypeOK
<1>1. CustodyTyped => CustodyTypeOK
  BY DEF CustodyTyped
<1>2. CustodyTyped /\ [CustodyNext]_custodyVars => CustodyTyped'
  BY CustodyNextTyped
<1> QED BY <1>1, <1>2, CustodyInitTyped, PTL DEF CustodySpec

-----------------------------------------------------------------------------
(* The inductive invariant.                                                  *)

SlotKeys == {slots.keychain, slots.file, slots.legacy} \cap Keys

\* The index names only keys whose material was written, and before a key is
\* recorded the folder is sealed under one.
IndexedHasCopy == \A k \in Indexed : <<k, folder.index[k]>> \in folder.copies
FirstSealed == folder.record = NoKey => \A a, b \in sealed : a = b
FolderIsSound == IndexedHasCopy /\ RecordIsHeld /\ NothingOrphaned /\ FirstSealed

\* What a resolution or command knows, step by step.
KeyIsHeld(r) ==
    /\ r.pc \in {"settle", "record"} => r.key \in Held
    /\ r.job = "resolve" /\ r.pc \in {"retire", "index", "up"} => r.key \in Held
\* Where the ladder found its key: whoever looks there next finds the same one.
FoundIn(r) ==
    IF r.src = "env" THEN slots.env = r.key
    ELSE /\ slots.env = NoKey
         /\ \/ reach /\ slots.keychain = r.key
            \/ AllowFile /\ slots.file = r.key /\ (reach => slots.keychain \in {NoKey, r.key})
IsChosen(r) ==
    /\ Seeding(r) => /\ slots.env = NoKey /\ r.src # "env"
                     /\ Existing \in Keys => r.key = Existing
    /\ r.pc = "store" => reach /\ slots.keychain \in {NoKey, r.key}
    /\ r.pc = "verify" => slots.keychain = r.key
    /\ r.pc = "publish" => AllowFile /\ (reach => slots.keychain \in {NoKey, r.key})
    /\ r.pc = "settle" => FoundIn(r)
    /\ r.pc = "record" /\ r.job = "resolve" /\ sealed = {} /\ folder.record = NoKey => FoundIn(r)
\* The record may have been written since it was read: then by one that chose alike.
Writes(r) == (r.pc \in {"retire", "index"} /\ r.writes) \/ r.pc = "record"
Climbs(r) == Seeding(r) \/ r.pc = "settle"
RecordIsRead(r) ==
    r.job = "resolve" =>
        /\ r.pc \notin {"down", "up"} => r.rec \in {NoKey, folder.record}
        /\ r.pc = "up" => r.key = folder.record
        /\ r.pc \in {"retire", "index"} /\ ~ r.writes => r.key = r.rec
        /\ Writes(r) => r.rec = NoKey
        /\ Writes(r) /\ folder.record # NoKey => r.key = folder.record
        /\ Writes(r) /\ folder.record = NoKey =>
             r.key \in sealed \/ (r.pc = "record" /\ sealed = {})
        /\ Climbs(r) /\ r.rec = NoKey /\ folder.record # NoKey =>
             /\ sealed \subseteq {folder.record}
             /\ sealed = {} => r.key = folder.record
KeepsTheVault(r) ==
    r.job = "resolve" /\ r.pc \in {"retire", "index", "record", "up"} =>
        /\ r.saw => Indexed \subseteq {r.key} \cup r.keep \cup SlotKeys
        /\ r.pc \in {"retire", "index"} => r.todo \subseteq r.keep /\ r.todo \subseteq SlotKeys
CopyIsWritten(r) == r.pc = "index" => r.one \in r.todo /\ <<r.one, r.place>> \in folder.copies
RetiresFirst(r) ==
    /\ r.job = "adopt" /\ r.pc \in {"retire", "index"} =>
         (Persistent \cup RecordedCurrent) \ {r.key} \subseteq r.todo \cup Indexed
    /\ r.pc = "install" => (Persistent \cup RecordedCurrent) \ {r.key} \subseteq Indexed
    /\ r.job = "retire" /\ r.pc \in {"retire", "index", "remove"} =>
         /\ r.src = "file" => slots.file = r.key
         /\ r.src = "legacy" => slots.legacy = r.key
RunIsSound(r) ==
    /\ KeyIsHeld(r) /\ IsChosen(r) /\ RecordIsRead(r) /\ KeepsTheVault(r)
    /\ CopyIsWritten(r) /\ RetiresFirst(r)

\* A command runs with everything stopped.
CommandsAlone ==
    \A p, q \in Resolvers :
        p # q /\ run[p].pc # "down" /\ run[p].job # "resolve" => run[q].pc = "down"

CustodyInv == /\ CustodyTyped /\ CommandsAlone /\ FolderIsSound
              /\ \A p \in Resolvers : RunIsSound(run[p])

-----------------------------------------------------------------------------
(* Keys that are held, and runs that agree.                                  *)

LEMMA HeldForms ==
  ASSUME CustodyTyped, IndexedHasCopy
  PROVE  /\ Held \subseteq Keys /\ Indexed \subseteq Held /\ Candidates \subseteq Held
         /\ Loaded \subseteq Indexed /\ Live \subseteq Held /\ (reach => Indexed \subseteq Loaded)
         /\ Held = SlotKeys \cup EnvKeys \cup Indexed
<1>1. slots \in Slots /\ Loaded \subseteq Indexed
  BY TypedForms
<1>2. Held \subseteq Keys
  BY CustodyBounds DEF Held, Indexed
<1>3. Indexed \subseteq Held /\ Held = SlotKeys \cup EnvKeys \cup Indexed
  BY DEF Held, IndexedHasCopy, Indexed, SlotKeys
<1>5. Live \subseteq Held
  <2>1. slots.env \in Keys => slots.env \in EnvKeys
    BY <1>1, CustodyBounds DEF Slots
  <2> QED BY <2>1 DEF Live, Held
<1>6. reach => Indexed \subseteq Loaded
  BY DEF IndexedHasCopy, Loaded
<1> QED BY <1>1, <1>2, <1>3, <1>5, <1>6 DEF Candidates

LEMMA DownIsSound == ASSUME NEW r, r.pc = "down" PROVE RunIsSound(r)
  BY DEF RunIsSound, KeyIsHeld, IsChosen, RecordIsRead, KeepsTheVault, CopyIsWritten,
         RetiresFirst, Seeding, Writes, Climbs

\* The ladders that seed hold one key: what exists, or what they made alike.
LEMMA SeedersAgree ==
  ASSUME CustodyInv, MakersAgree, NEW p \in Resolvers, NEW q \in Resolvers,
         Seeding(run[p]), Seeding(run[q])
  PROVE  run[p].key = run[q].key
<1>1. IsChosen(run[p]) /\ IsChosen(run[q])
  BY DEF CustodyInv, RunIsSound
<1>2. run[p].key \in Keys /\ run[q].key \in Keys
  BY DEF CustodyInv, CustodyTyped, RunIsTyped, KeyIsKnown, Seeding
<1>3. CASE Existing \in Keys
  BY <1>1, <1>3 DEF IsChosen
<1>4. CASE Existing \notin Keys
  BY <1>2, <1>4 DEF MakersAgree, Makes
<1> QED BY <1>3, <1>4

\* And so do all that climb while nothing is sealed.
LEMMA FoundAgree ==
  ASSUME NEW r, NEW s, r.key \in Keys, s.key \in Keys, FoundIn(r), FoundIn(s)
  PROVE  r.key = s.key
  BY CustodyBounds DEF FoundIn

LEMMA SeedIsFound ==
  ASSUME NEW r, NEW s, r.key \in Keys, s.key \in Keys, Seeding(r), IsChosen(r), FoundIn(s)
  PROVE  r.key = s.key
<1>1. slots.env = NoKey /\ s.src # "env"
  BY CustodyBounds DEF IsChosen, FoundIn
<1>2. CASE reach /\ slots.keychain = s.key
  BY <1>2, CustodyBounds DEF IsChosen, Seeding
<1>3. CASE AllowFile /\ slots.file = s.key
  BY <1>3 DEF IsChosen, Existing
<1> QED BY <1>1, <1>2, <1>3 DEF FoundIn

LEMMA FirstsAgree ==
  ASSUME CustodyInv, MakersAgree, NEW p \in Resolvers, NEW q \in Resolvers, sealed = {},
         folder.record = NoKey, run[p].job = "resolve", run[q].job = "resolve",
         Climbs(run[p]) \/ run[p].pc = "record", Climbs(run[q]) \/ run[q].pc = "record"
  PROVE  run[p].key = run[q].key
<1>1. IsChosen(run[p]) /\ IsChosen(run[q])
  BY DEF CustodyInv, RunIsSound
<1>2. run[p].key \in Keys /\ run[q].key \in Keys
  BY DEF CustodyInv, CustodyTyped, RunIsTyped, KeyIsKnown, Seeding, Climbs
<1>3. /\ Seeding(run[p]) \/ FoundIn(run[p])
      /\ Seeding(run[q]) \/ FoundIn(run[q])
  BY <1>1 DEF IsChosen, Climbs
<1>4. CASE Seeding(run[p]) /\ Seeding(run[q])
  BY <1>4, SeedersAgree
<1>5. CASE Seeding(run[p]) /\ FoundIn(run[q])
  BY <1>1, <1>2, <1>5, SeedIsFound
<1>6. CASE FoundIn(run[p]) /\ Seeding(run[q])
  BY <1>1, <1>2, <1>6, SeedIsFound
<1>7. CASE FoundIn(run[p]) /\ FoundIn(run[q])
  BY <1>2, <1>7, FoundAgree
<1> QED BY <1>3, <1>4, <1>5, <1>6, <1>7

-----------------------------------------------------------------------------
(* Steps. What a step asks of the resolutions that do not move.              *)

\* A step keeps commands alone: a run goes on with its job or stops, a resolution
\* starts beside others, and a command only when all are down.
Allowed(p, r) ==
    \/ r.pc = "down"
    \/ run[p].pc # "down" /\ r.job = run[p].job
    \/ r.job = "resolve" /\ Starts(p)
    \/ Commands(p)

LEMMA GotoInv ==
  ASSUME CustodyInv, CustodyTyped', NEW p \in Resolvers, NEW r, Goto(p, r), Allowed(p, r),
         FolderIsSound', RunIsSound(run[p])',
         \A q \in Resolvers : q # p => RunIsSound(run[q])'
  PROVE  CustodyInv'
<1>1. /\ run'[p] = r
      /\ \A q \in Resolvers : q # p => run'[q] = run[q]
  BY TypedForms DEF CustodyInv, Goto
<1>2. \A q \in Resolvers : RunIsSound(run[q])'
  OBVIOUS
<1>3. CommandsAlone'
  <2> SUFFICES ASSUME NEW a \in Resolvers, NEW b \in Resolvers, a # b, run'[a].pc # "down",
                      run'[a].job # "resolve"
               PROVE  run'[b].pc = "down"
    BY DEF CommandsAlone
  <2>1. CASE a = p
    <3>1. (run[p].pc # "down" /\ run[p].job # "resolve") \/ Commands(p)
      BY <1>1, <2>1 DEF Allowed
    <3> QED BY <1>1, <2>1, <3>1 DEF CustodyInv, CommandsAlone, Commands
  <2>2. CASE a # p
    <3>1. run[a].pc # "down" /\ run[a].job # "resolve"
      BY <1>1, <2>2
    <3>2. run[p].pc = "down" /\ ~ Starts(p)
      BY <2>2, <3>1 DEF CustodyInv, CommandsAlone, Starts
    <3>3. r.pc = "down"
      BY <3>2 DEF Allowed, Commands
    <3>4. CASE b = p
      BY <1>1, <3>3, <3>4
    <3>5. CASE b # p
      BY <1>1, <3>1, <3>5 DEF CustodyInv, CommandsAlone
    <3> QED BY <3>4, <3>5
  <2> QED BY <2>1, <2>2
<1> QED BY <1>2, <1>3 DEF CustodyInv

LEMMA GotoValue ==
  ASSUME CustodyInv, NEW p \in Resolvers, NEW r, Goto(p, r)
  PROVE  run'[p] = r /\ \A q \in Resolvers : q # p => run'[q] = run[q]
  BY TypedForms DEF CustodyInv, Goto

\* What holds of a run depends on the shared state only.
LEMMA SameShared ==
  ASSUME UNCHANGED <<slots, reach, folder, sealed>>
  PROVE  /\ Held' = Held /\ Indexed' = Indexed /\ Persistent' = Persistent
         /\ RecordedCurrent' = RecordedCurrent /\ SlotKeys' = SlotKeys /\ Existing' = Existing
  BY DEF Held, Indexed, Persistent, RecordedCurrent, Live, SlotKeys, Existing

LEMMA SoundStays ==
  ASSUME UNCHANGED <<slots, reach, folder, sealed>>, NEW p \in Resolvers, NEW r, run'[p] = r,
         RunIsSound(r)
  PROVE  RunIsSound(run[p])'
<1>1. KeyIsHeld(run[p])'
  BY SameShared DEF RunIsSound, KeyIsHeld
<1>2. IsChosen(run[p])'
  BY SameShared DEF RunIsSound, IsChosen, FoundIn, Seeding
<1>3. RecordIsRead(run[p])'
  BY SameShared DEF RunIsSound, RecordIsRead, Writes, Climbs, Seeding
<1>4. KeepsTheVault(run[p])'
  BY SameShared DEF RunIsSound, KeepsTheVault
<1>5. CopyIsWritten(run[p])'
  BY DEF RunIsSound, CopyIsWritten
<1>6. RetiresFirst(run[p])'
  BY SameShared DEF RunIsSound, RetiresFirst
<1> QED BY <1>1, <1>2, <1>3, <1>4, <1>5, <1>6 DEF RunIsSound

LEMMA FolderStays ==
  ASSUME FolderIsSound, UNCHANGED <<slots, reach, folder, sealed, clobbered>>
  PROVE  FolderIsSound'
  BY SameShared DEF FolderIsSound, IndexedHasCopy, RecordIsHeld, NothingOrphaned, FirstSealed

\* A step that changes nothing but what the resolution does.
LEMMA MoveInv ==
  ASSUME CustodyInv, CustodyTyped', NEW p \in Resolvers, NEW r, Goto(p, r), Allowed(p, r),
         UNCHANGED <<slots, reach, folder, sealed, clobbered>>, RunIsSound(r)
  PROVE  CustodyInv'
<1>1. run'[p] = r /\ \A q \in Resolvers : q # p => run'[q] = run[q]
  BY GotoValue
<1>2. FolderIsSound'
  BY FolderStays DEF CustodyInv
<1>3. RunIsSound(run[p])'
  BY <1>1, SoundStays
<1>4. ASSUME NEW q \in Resolvers, q # p PROVE RunIsSound(run[q])'
  <2>1. RunIsSound(run[q]) /\ run'[q] = run[q]
    BY <1>1, <1>4 DEF CustodyInv
  <2> QED BY <2>1, SoundStays
<1> QED BY <1>2, <1>3, <1>4, GotoInv

\* A step of a command: all others are down.
LEMMA AloneInv ==
  ASSUME CustodyInv, CustodyTyped', NEW p \in Resolvers, NEW r, Goto(p, r), Allowed(p, r),
         FolderIsSound', RunIsSound(run[p])', run[p].pc # "down", run[p].job # "resolve"
  PROVE  CustodyInv'
<1>1. \A q \in Resolvers : q # p => run'[q].pc = "down"
  BY GotoValue DEF CustodyInv, CommandsAlone
<1>2. \A q \in Resolvers : q # p => RunIsSound(run[q])'
  BY <1>1 DEF RunIsSound, KeyIsHeld, IsChosen, RecordIsRead, KeepsTheVault, CopyIsWritten,
              RetiresFirst, Seeding, Writes, Climbs
<1> QED BY <1>2, GotoInv

\* A step after which all that was held still is.
LEMMA HeldGrows ==
  ASSUME FolderIsSound, Held \subseteq Held', folder'.record = folder.record,
         sealed' = sealed, clobbered \subseteq clobbered', IndexedHasCopy'
  PROVE  FolderIsSound'
  BY DEF FolderIsSound, RecordIsHeld, NothingOrphaned, FirstSealed

-----------------------------------------------------------------------------
(* The ladder.                                                               *)

LEMMA ResolvingIsSound ==
  ASSUME CustodyInv, NEW r, r.job = "resolve", r.rec = folder.record,
         Climbs(r) \/ r.pc = "refused", r.pc = "settle" => r.key \in Held, IsChosen(r)
  PROVE  RunIsSound(r)
<1>1. r.pc \in {"store", "verify", "publish", "refused", "settle"}
  BY DEF Climbs, Seeding
<1>2. RecordIsRead(r)
  BY <1>1 DEF RecordIsRead, Writes
<1> QED BY <1>1, <1>2 DEF RunIsSound, KeyIsHeld, KeepsTheVault, CopyIsWritten, RetiresFirst

LEMMA LadderInv ==
  ASSUME CustodyInv, CustodyTyped', NEW p \in Resolvers,
         LadderEnv(p) \/ LadderSeed(p) \/ LadderFile(p) \/ LadderRefuses(p)
  PROVE  CustodyInv'
<1>1. Starts(p) /\ UNCHANGED <<slots, reach, folder, sealed, clobbered>>
  BY DEF LadderEnv, LadderSeed, LadderFile, LadderRefuses
<1>2. /\ Seeds \subseteq Keys /\ Keys \subseteq MaybeKey /\ NoKey \in MaybeKey
      /\ \A k \in Seeds : Existing \in Keys => k = Existing
  BY TypedForms DEF CustodyInv, MaybeKey, Seeds
<1>3. slots.env \in Keys => slots.env \in Held
  BY TypedForms, CustodyBounds DEF CustodyInv, Slots, Held
<1>4. slots.file \in Keys => slots.file \in Held
  BY DEF Held
<1>5. ASSUME NEW key \in MaybeKey, NEW src \in {"env", "keychain", "file", "legacy", "none"},
             NEW pc \in {"store", "publish", "refused", "settle"},
             Goto(p, Resolving(key, src, pc)), pc = "settle" => key \in Held,
             pc \in {"store", "publish"} => /\ slots.env = NoKey /\ src # "env"
                                            /\ Existing \in Keys => key = Existing,
             pc = "store" => reach /\ slots.keychain = NoKey,
             pc = "publish" => AllowFile /\ ~ reach,
             pc = "settle" => \/ src = "env" /\ slots.env = key
                              \/ /\ src # "env" /\ slots.env = NoKey /\ AllowFile
                                 /\ slots.file = key /\ ~ reach
      PROVE  CustodyInv'
  <2> DEFINE r == Resolving(key, src, pc)
  <2>1. /\ r \in Runs /\ r.pc = pc /\ r.key = key /\ r.src = src /\ r.job = "resolve"
        /\ r.rec = folder.record
    BY <1>5, ResolvingForms DEF CustodyInv
  <2> HIDE DEF r
  <2>2. IsChosen(r)
    BY <1>5, <2>1 DEF IsChosen, FoundIn, Seeding
  <2>3. Climbs(r) \/ r.pc = "refused"
    BY <1>5, <2>1 DEF Climbs, Seeding
  <2>4. RunIsSound(r)
    BY <1>5, <2>1, <2>2, <2>3, ResolvingIsSound
  <2>5. Goto(p, r) /\ Allowed(p, r)
    BY <1>1, <1>5, <2>1 DEF Allowed, r
  <2> QED BY <1>1, <2>4, <2>5, MoveInv
<1>6. CASE LadderEnv(p)
  BY <1>2, <1>3, <1>5, <1>6 DEF LadderEnv
<1>7. CASE LadderSeed(p)
  <2>1. PICK k \in Seeds : Goto(p, Resolving(k, "keychain", "store"))
    BY <1>7 DEF LadderSeed
  <2>2. slots.env = NoKey /\ reach /\ slots.keychain = NoKey
    BY <1>7 DEF LadderSeed
  <2> QED BY <1>2, <1>5, <2>1, <2>2
<1>8. CASE LadderFile(p)
  <2>1. slots.env = NoKey /\ ~ reach /\ AllowFile
    BY <1>8 DEF LadderFile
  <2>2. CASE slots.file \in Keys
    BY <1>2, <1>4, <1>5, <1>8, <2>1, <2>2 DEF LadderFile
  <2>3. CASE slots.file \notin Keys
    <3>1. PICK k \in Seeds : Goto(p, Resolving(k, "file", "publish"))
      BY <1>8, <2>3 DEF LadderFile
    <3> QED BY <1>2, <1>5, <2>1, <3>1
  <2> QED BY <2>2, <2>3
<1>9. CASE LadderRefuses(p)
  BY <1>2, <1>5, <1>9 DEF LadderRefuses
<1> QED BY <1>6, <1>7, <1>8, <1>9

\* A slot that takes a key: those that climb or have climbed find what they found.
LEMMA FoundStays ==
  ASSUME NEW r, r.key \in Keys, FoundIn(r), reach' = reach, slots'.env = slots.env,
         slots'.keychain \in {slots.keychain, r.key}, slots'.file = slots.file \/ slots.file = NoKey
  PROVE  FoundIn(r)'
<1>1. slots.file = r.key => slots'.file = r.key
  BY CustodyBounds
<1> QED BY <1>1 DEF FoundIn

LEMMA SlotsCalm ==
  ASSUME UNCHANGED <<reach, folder, sealed>>, NEW q \in Resolvers, NEW r, run'[q] = r,
         RunIsSound(r), RunIsTyped(r), r.job = "resolve",
         slots'.env = slots.env, slots'.file = slots.file \/ slots.file = NoKey,
         SlotKeys \subseteq SlotKeys', Held \subseteq Held',
         Seeding(r) /\ Existing' \in Keys => r.key = Existing',
         Seeding(r) \/ FoundIn(r) => slots'.keychain \in {slots.keychain, r.key}
  PROVE  RunIsSound(run[q])'
<1>1. KeyIsHeld(run[q])'
  BY DEF RunIsSound, KeyIsHeld
<1>2. r.pc \in {"store", "verify", "publish", "settle", "record"} => r.key \in Keys
  BY DEF RunIsTyped, KeyIsKnown
<1>3. r.pc \in {"settle", "record"} => (FoundIn(r) => FoundIn(r)')
  BY <1>2, FoundStays
<1>4. IsChosen(run[q])'
  <2>1. Seeding(r) => slots'.env = NoKey /\ r.src # "env"
    BY DEF RunIsSound, IsChosen
  <2>2. r.pc = "store" => reach' /\ slots'.keychain \in {NoKey, r.key}
    BY DEF RunIsSound, IsChosen, Seeding
  <2>3. r.pc = "verify" => slots'.keychain = r.key
    BY DEF RunIsSound, IsChosen, Seeding
  <2>4. r.pc = "publish" => AllowFile /\ (reach' => slots'.keychain \in {NoKey, r.key})
    BY DEF RunIsSound, IsChosen, Seeding
  <2>5. r.pc = "settle" => FoundIn(r)'
    BY <1>3 DEF RunIsSound, IsChosen
  <2>6. r.pc = "record" /\ r.job = "resolve" /\ sealed' = {} /\ folder'.record = NoKey => FoundIn(r)'
    BY <1>3 DEF RunIsSound, IsChosen
  <2>7. FoundIn(r)' => FoundIn(run[q])'
    BY DEF FoundIn
  <2> QED BY <2>1, <2>2, <2>3, <2>4, <2>5, <2>6, <2>7 DEF IsChosen, Seeding
<1>5. RecordIsRead(run[q])'
  BY DEF RunIsSound, RecordIsRead, Writes, Climbs, Seeding
<1>6. Indexed' = Indexed
  BY DEF Indexed
<1>7. KeepsTheVault(run[q])'
  BY <1>6 DEF RunIsSound, KeepsTheVault
<1>8. CopyIsWritten(run[q])'
  BY DEF RunIsSound, CopyIsWritten
<1>9. r.pc # "install"
  BY DEF RunIsTyped, JobIsKnown
<1>10. RetiresFirst(run[q])'
  BY <1>9 DEF RetiresFirst
<1> QED BY <1>1, <1>4, <1>5, <1>7, <1>8, <1>10 DEF RunIsSound

\* Removing a legacy file that holds what the keychain holds loses nothing.
LEMMA MatchingLegacyGoes ==
  ASSUME CustodyTyped, FolderIsSound, slots.keychain \in Keys,
         slots' = WithoutMatchingLegacy(slots.keychain), UNCHANGED <<folder, sealed, clobbered>>
  PROVE  /\ Held' = Held /\ SlotKeys' = SlotKeys /\ FolderIsSound'
         /\ slots'.env = slots.env /\ slots'.keychain = slots.keychain /\ slots'.file = slots.file
         /\ Existing' \in Keys => Existing' = Existing
<1>1. /\ slots'.keychain = slots.keychain /\ slots'.file = slots.file /\ slots'.env = slots.env
      /\ \/ slots'.legacy = slots.legacy
         \/ slots'.legacy = NoKey /\ slots.legacy = slots.keychain
  BY MatchingLegacyTyped
<1>2. SlotKeys' = SlotKeys
  <2>1. CASE slots'.legacy = slots.legacy
    BY <1>1, <2>1 DEF SlotKeys
  <2>2. CASE slots'.legacy = NoKey /\ slots.legacy = slots.keychain
    <3>1. SlotKeys' = {slots.keychain, slots.file} \cap Keys
      BY <1>1, <2>2, CustodyBounds DEF SlotKeys
    <3> QED BY <2>2, <3>1 DEF SlotKeys
  <2> QED BY <1>1, <2>1, <2>2
<1>3. Indexed' = Indexed /\ IndexedHasCopy'
  BY DEF Indexed, IndexedHasCopy, FolderIsSound
<1>4. Held' = Held
  BY <1>2, <1>3 DEF Held, SlotKeys
<1>5. FolderIsSound'
  BY <1>3, <1>4, HeldGrows
<1>6. Existing' \in Keys => Existing' = Existing
  BY <1>1, CustodyBounds DEF Existing
<1> QED BY <1>1, <1>2, <1>4, <1>5, <1>6

\* A start, or a ladder, that removes such a file.
LEMMA LegacyGoesInv ==
  ASSUME CustodyInv, CustodyTyped', NEW p \in Resolvers, NEW r, Goto(p, r), Allowed(p, r),
         r.job = "resolve", r.rec \in {NoKey, folder.record}, r.pc = "settle", r.src # "env",
         r.key = slots.keychain, slots.keychain \in Keys, slots.env = NoKey, reach,
         r.rec = NoKey /\ folder.record # NoKey =>
           sealed \subseteq {folder.record} /\ (sealed = {} => r.key = folder.record),
         slots' = WithoutMatchingLegacy(slots.keychain),
         UNCHANGED <<reach, folder, sealed, clobbered>>,
         \A q \in Resolvers : q # p => run[q].pc = "down" \/ run[q].job = "resolve"
  PROVE  CustodyInv'
<1>1. /\ Held' = Held /\ SlotKeys' = SlotKeys /\ FolderIsSound'
      /\ slots'.env = slots.env /\ slots'.keychain = slots.keychain /\ slots'.file = slots.file
      /\ Existing' \in Keys => Existing' = Existing
  BY MatchingLegacyGoes DEF CustodyInv
<1>2. run'[p] = r /\ \A q \in Resolvers : q # p => run'[q] = run[q]
  BY GotoValue
<1>3. RunIsSound(run[p])'
  <2>1. KeyIsHeld(run[p])'
    BY <1>1, <1>2 DEF KeyIsHeld, Held
  <2>2. IsChosen(run[p])'
    BY <1>1, <1>2 DEF IsChosen, FoundIn, Seeding
  <2>3. RecordIsRead(run[p])'
    BY <1>2 DEF RecordIsRead, Writes, Climbs, Seeding
  <2>4. KeepsTheVault(run[p])' /\ CopyIsWritten(run[p])' /\ RetiresFirst(run[p])'
    BY <1>2 DEF KeepsTheVault, CopyIsWritten, RetiresFirst
  <2> QED BY <2>1, <2>2, <2>3, <2>4 DEF RunIsSound
<1>4. ASSUME NEW q \in Resolvers, q # p PROVE RunIsSound(run[q])'
  <2>1. run'[q] = run[q] /\ RunIsSound(run[q]) /\ RunIsTyped(run[q])
    BY <1>2, <1>4 DEF CustodyInv, CustodyTyped
  <2>2. CASE run[q].pc = "down"
    BY <2>1, <2>2 DEF RunIsSound, KeyIsHeld, IsChosen, RecordIsRead, KeepsTheVault, CopyIsWritten,
                      RetiresFirst, Seeding, Writes, Climbs
  <2>3. CASE run[q].job = "resolve"
    <3>1. Seeding(run[q]) /\ Existing' \in Keys => run[q].key = Existing'
      BY <1>1, <2>1 DEF RunIsSound, IsChosen
    <3> QED BY <1>1, <2>1, <2>3, <3>1, SlotsCalm
  <2> QED BY <1>4, <2>2, <2>3
<1> QED BY <1>1, <1>3, <1>4, GotoInv

LEMMA LadderKeychainInv ==
  ASSUME CustodyInv, CustodyTyped', NEW p \in Resolvers, LadderKeychain(p) PROVE CustodyInv'
<1> DEFINE r == Resolving(slots.keychain, "keychain", "settle")
<1>1. slots.keychain \in Keys /\ slots.keychain \in MaybeKey /\ slots.env = NoKey /\ reach
      /\ Starts(p) /\ UNCHANGED <<reach, folder, sealed, clobbered>>
      /\ slots' = WithoutMatchingLegacy(slots.keychain) /\ Goto(p, r)
  BY DEF LadderKeychain, MaybeKey
<1>2. /\ r.pc = "settle" /\ r.key = slots.keychain /\ r.job = "resolve"
      /\ r.rec = folder.record /\ r.src = "keychain"
  BY <1>1, ResolvingForms DEF CustodyInv
<1> HIDE DEF r
<1>3. Allowed(p, r)
  BY <1>1, <1>2 DEF Allowed
<1>4. \A q \in Resolvers : q # p => run[q].pc = "down" \/ run[q].job = "resolve"
  BY <1>1 DEF Starts
<1> QED BY <1>1, <1>2, <1>3, <1>4, LegacyGoesInv

\* What a seeding ladder knows of itself and of the others.
LEMMA SeedForms ==
  ASSUME CustodyInv, NEW p \in Resolvers, Seeding(run[p])
  PROVE  /\ RunIsSound(run[p]) /\ run[p] \in Runs /\ run[p].job = "resolve" /\ run[p].key \in Keys
         /\ run[p].rec \in {NoKey, folder.record} /\ slots.env = NoKey /\ run[p].src # "env"
         /\ Existing \in Keys => run[p].key = Existing
         /\ run[p].rec = NoKey /\ folder.record # NoKey =>
              sealed \subseteq {folder.record} /\ (sealed = {} => run[p].key = folder.record)
         /\ \A q \in Resolvers : q # p => run[q].pc = "down" \/ run[q].job = "resolve"
<1>1. RunIsSound(run[p]) /\ RunIsTyped(run[p])
  BY DEF CustodyInv, CustodyTyped
<1>2. run[p].job = "resolve" /\ run[p].key \in Keys /\ run[p] \in Runs /\ run[p].pc # "down"
  BY <1>1 DEF RunIsTyped, JobIsKnown, KeyIsKnown, Seeding
<1>3. slots.env = NoKey /\ run[p].src # "env" /\ (Existing \in Keys => run[p].key = Existing)
  BY <1>1 DEF RunIsSound, IsChosen
<1>4. /\ run[p].rec \in {NoKey, folder.record}
      /\ run[p].rec = NoKey /\ folder.record # NoKey =>
           sealed \subseteq {folder.record} /\ (sealed = {} => run[p].key = folder.record)
  BY <1>1, <1>2 DEF RunIsSound, RecordIsRead, Climbs, Seeding
<1>5. \A q \in Resolvers : q # p => run[q].pc = "down" \/ run[q].job = "resolve"
  BY <1>2 DEF CustodyInv, CommandsAlone
<1> QED BY <1>1, <1>2, <1>3, <1>4, <1>5

\* A seeding ladder that goes on with its key, or with the one it finds published.
LEMMA SeedMoves ==
  ASSUME CustodyInv, CustodyTyped', NEW p \in Resolvers, Seeding(run[p]), NEW r, Goto(p, r),
         r.job = "resolve", r.rec = run[p].rec, r.key = run[p].key, r.src # "env",
         Climbs(r) \/ r.pc = "refused", r.pc = "settle" => r.key \in Held, IsChosen(r),
         UNCHANGED <<slots, reach, folder, sealed, clobbered>>
  PROVE  CustodyInv'
<1>1. /\ run[p].job = "resolve" /\ run[p].rec \in {NoKey, folder.record}
      /\ run[p].rec = NoKey /\ folder.record # NoKey =>
           sealed \subseteq {folder.record} /\ (sealed = {} => run[p].key = folder.record)
  BY SeedForms
<1>2. r.pc \in {"store", "verify", "publish", "refused", "settle"} /\ run[p].pc # "down"
  BY DEF Climbs, Seeding
<1>3. RecordIsRead(r)
  BY <1>1, <1>2 DEF RecordIsRead, Writes
<1>4. RunIsSound(r)
  BY <1>2, <1>3 DEF RunIsSound, KeyIsHeld, KeepsTheVault, CopyIsWritten, RetiresFirst
<1>5. Allowed(p, r)
  BY <1>1, <1>2 DEF Allowed
<1> QED BY <1>4, <1>5, MoveInv

\* A slot that takes the key of a seeding ladder.
LEMMA SeedTaken ==
  ASSUME CustodyInv, CustodyTyped', MakersAgree, NEW p \in Resolvers, Seeding(run[p]), NEW r,
         Goto(p, r), r.job = "resolve", r.rec = run[p].rec, r.key = run[p].key, r.src # "env",
         r.pc \in {"verify", "settle"}, slots'.env = slots.env,
         r.pc = "verify" => slots'.keychain = r.key,
         r.pc = "settle" => /\ AllowFile /\ slots'.file = r.key
                            /\ reach => slots'.keychain \in {NoKey, r.key},
         slots'.keychain \in {slots.keychain, r.key},
         slots'.keychain = slots.keychain \/ slots.keychain \in {NoKey, r.key},
         slots'.legacy = slots.legacy,
         slots'.file = slots.file \/ (slots.file = NoKey /\ slots'.file = r.key),
         r.key \in {slots'.keychain, slots'.file}, UNCHANGED <<reach, folder, sealed, clobbered>>
  PROVE  CustodyInv'
<1>1. /\ RunIsSound(run[p]) /\ run[p].job = "resolve" /\ r.key \in Keys
      /\ r.rec \in {NoKey, folder.record} /\ slots.env = NoKey
      /\ Existing \in Keys => r.key = Existing
      /\ r.rec = NoKey /\ folder.record # NoKey =>
           sealed \subseteq {folder.record} /\ (sealed = {} => r.key = folder.record)
      /\ \A q \in Resolvers : q # p => run[q].pc = "down" \/ run[q].job = "resolve"
  BY SeedForms
<1>2. run'[p] = r /\ \A q \in Resolvers : q # p => run'[q] = run[q]
  BY GotoValue
<1>3. SlotKeys \subseteq SlotKeys' /\ r.key \in SlotKeys'
  BY <1>1, CustodyBounds DEF SlotKeys
<1>4. Indexed' = Indexed /\ IndexedHasCopy'
  BY DEF CustodyInv, FolderIsSound, IndexedHasCopy, Indexed
<1>5. Held \subseteq Held' /\ r.key \in Held'
  BY <1>3, <1>4 DEF Held, SlotKeys
<1>6. FolderIsSound'
  BY <1>4, <1>5, HeldGrows DEF CustodyInv
<1>7. Existing' \in Keys => r.key = Existing'
  BY <1>1 DEF Existing
<1>8. RunIsSound(run[p])'
  <2>1. KeyIsHeld(run[p])'
    BY <1>2, <1>5 DEF KeyIsHeld
  <2>2. IsChosen(run[p])'
    BY <1>1, <1>2, <1>7 DEF IsChosen, FoundIn, Seeding
  <2>3. RecordIsRead(run[p])'
    BY <1>1, <1>2 DEF RecordIsRead, Writes, Climbs, Seeding
  <2>4. KeepsTheVault(run[p])' /\ CopyIsWritten(run[p])' /\ RetiresFirst(run[p])'
    BY <1>2 DEF KeepsTheVault, CopyIsWritten, RetiresFirst
  <2> QED BY <2>1, <2>2, <2>3, <2>4 DEF RunIsSound
<1>9. ASSUME NEW q \in Resolvers, q # p PROVE RunIsSound(run[q])'
  <2>1. run'[q] = run[q] /\ RunIsSound(run[q]) /\ RunIsTyped(run[q])
    BY <1>2, <1>9 DEF CustodyInv, CustodyTyped
  <2>2. CASE run[q].pc = "down"
    BY <2>1, <2>2 DEF RunIsSound, KeyIsHeld, IsChosen, RecordIsRead, KeepsTheVault, CopyIsWritten,
                      RetiresFirst, Seeding, Writes, Climbs
  <2>3. CASE run[q].job = "resolve" /\ run[q].pc # "down"
    <3>1. Seeding(run[q]) => run[q].key = r.key
      BY SeedersAgree
    <3>2. run[q].pc \in {"settle", "record"} /\ FoundIn(run[q]) => run[q].key = r.key
      <4>1. run[q].pc \in {"settle", "record"} => run[q].key \in Keys
        BY <2>1 DEF RunIsTyped, KeyIsKnown
      <4>2. IsChosen(run[p])
        BY <1>1 DEF RunIsSound
      <4> QED BY <1>1, <4>1, <4>2, SeedIsFound
    <3>3. CASE Seeding(run[q]) \/ run[q].pc \in {"settle", "record"}
      <4>1. Seeding(run[q]) \/ FoundIn(run[q]) => run[q].key = r.key
        BY <3>1, <3>2, <3>3 DEF Seeding
      <4>2. Seeding(run[q]) \/ FoundIn(run[q]) => slots'.keychain \in {slots.keychain, run[q].key}
        BY <4>1
      <4>3. Seeding(run[q]) /\ Existing' \in Keys => run[q].key = Existing'
        BY <1>7, <4>1
      <4> QED BY <1>3, <1>5, <2>1, <2>3, <4>2, <4>3, SlotsCalm
    <3>4. CASE run[q].pc \in {"refused", "retire", "index", "up"}
      <4>1. KeyIsHeld(run[q])'
        BY <1>5, <2>1 DEF RunIsSound, KeyIsHeld
      <4>2. IsChosen(run[q])'
        BY <2>1, <3>4 DEF IsChosen, Seeding
      <4>3. RecordIsRead(run[q])'
        BY <2>1 DEF RunIsSound, RecordIsRead, Writes, Climbs, Seeding
      <4>4. KeepsTheVault(run[q])'
        BY <1>3, <1>4, <2>1 DEF RunIsSound, KeepsTheVault
      <4>5. CopyIsWritten(run[q])'
        BY <2>1 DEF RunIsSound, CopyIsWritten
      <4>6. RetiresFirst(run[q])'
        BY <2>1, <2>3, <3>4 DEF RetiresFirst
      <4> QED BY <4>1, <4>2, <4>3, <4>4, <4>5, <4>6 DEF RunIsSound
    <3>5. run[q].pc \in {"store", "verify", "publish", "settle", "record", "refused", "retire",
                         "index", "up"}
      BY <2>1, <2>3 DEF RunIsTyped, JobIsKnown, Runs, RunPcs
    <3> QED BY <3>3, <3>4, <3>5 DEF Seeding
  <2> QED BY <1>1, <1>9, <2>2, <2>3
<1>10. Allowed(p, r)
  BY <1>1 DEF Allowed, Seeding
<1> QED BY <1>6, <1>8, <1>9, <1>10, GotoInv

LEMMA SeedInv ==
  ASSUME CustodyInv, CustodyTyped', MakersAgree, NEW p \in Resolvers,
         StoreSeed(p) \/ StoreSeedFails(p) \/ VerifySeed(p) \/ Publish(p)
  PROVE  CustodyInv'
<1> DEFINE s == run[p]
<1>1. Seeding(s) /\ UNCHANGED <<reach, folder, sealed, clobbered>>
  BY DEF StoreSeed, StoreSeedFails, VerifySeed, Publish, Seeding
<1>2. /\ RunIsSound(s) /\ s \in Runs /\ s.job = "resolve" /\ s.key \in Keys /\ slots.env = NoKey
      /\ s.src # "env" /\ (Existing \in Keys => s.key = Existing) /\ slots \in Slots
      /\ s.rec \in {NoKey, folder.record}
      /\ s.rec = NoKey /\ folder.record # NoKey =>
           sealed \subseteq {folder.record} /\ (sealed = {} => s.key = folder.record)
      /\ \A q \in Resolvers : q # p => run[q].pc = "down" \/ run[q].job = "resolve"
  BY <1>1, SeedForms, TypedForms DEF CustodyInv
<1>3. IsChosen(s)
  BY <1>2 DEF RunIsSound
<1>4. \A pc \in RunPcs : LET r == [s EXCEPT !.pc = pc] IN
        r.pc = pc /\ r.job = "resolve" /\ r.rec = s.rec /\ r.key = s.key /\ r.src = s.src
  BY <1>2 DEF Runs
<1>5. CASE StoreSeed(p)
  <2> DEFINE r == [s EXCEPT !.pc = "verify"]
  <2>1. r.pc = "verify" /\ r.job = "resolve" /\ r.rec = s.rec /\ r.key = s.key /\ r.src = s.src
    BY <1>4 DEF RunPcs
  <2>2. s.pc = "store" /\ slots' = [slots EXCEPT !.keychain = s.key] /\ Goto(p, r)
    BY <1>5 DEF StoreSeed
  <2>3. slots.keychain \in {NoKey, s.key}
    BY <1>3, <2>2 DEF IsChosen
  <2>4. /\ slots'.keychain = s.key /\ slots'.file = slots.file /\ slots'.legacy = slots.legacy
        /\ slots'.env = slots.env
    BY <1>2, <2>2 DEF Slots
  <2> HIDE DEF r
  <2> QED BY <1>1, <1>2, <2>1, <2>2, <2>3, <2>4, SeedTaken
<1>6. CASE StoreSeedFails(p)
  <2> DEFINE pc == IF AllowFile THEN "publish" ELSE "refused"
             r == [s EXCEPT !.src = "file", !.pc = pc]
  <2>1. /\ r.job = "resolve" /\ r.rec = s.rec /\ r.key = s.key /\ r.src = "file"
        /\ AllowFile => r.pc = "publish"
        /\ ~ AllowFile => r.pc = "refused"
    BY <1>2 DEF Runs
  <2>2. Goto(p, r) /\ UNCHANGED slots /\ s.pc = "store"
    BY <1>6 DEF StoreSeedFails
  <2>3. reach /\ slots.keychain \in {NoKey, s.key}
    BY <1>3, <2>2 DEF IsChosen
  <2> HIDE DEF r
  <2>4. Climbs(r) \/ r.pc = "refused"
    BY <2>1 DEF Climbs, Seeding
  <2>5. IsChosen(r)
    BY <1>2, <2>1, <2>3 DEF IsChosen, Seeding
  <2>6. r.pc # "settle"
    BY <2>1
  <2> QED BY <1>1, <2>1, <2>2, <2>4, <2>5, <2>6, SeedMoves
<1>7. CASE VerifySeed(p)
  <2>1. CASE reach /\ slots.keychain = s.key
    <3> DEFINE r == [s EXCEPT !.pc = "settle"]
    <3>1. r.pc = "settle" /\ r.job = "resolve" /\ r.rec = s.rec /\ r.key = s.key /\ r.src = s.src
      BY <1>4 DEF RunPcs
    <3>2. slots' = WithoutMatchingLegacy(slots.keychain) /\ Goto(p, r)
      BY <1>7, <2>1 DEF VerifySeed
    <3> HIDE DEF r
    <3>3. Allowed(p, r)
      BY <1>1, <1>2, <3>1 DEF Allowed, Seeding
    <3> QED BY <1>1, <1>2, <2>1, <3>1, <3>2, <3>3, LegacyGoesInv
  <2>2. CASE ~ (reach /\ slots.keychain = s.key)
    <3> DEFINE r == [s EXCEPT !.pc = "refused"]
    <3>1. r.pc = "refused" /\ r.job = "resolve" /\ r.rec = s.rec /\ r.key = s.key /\ r.src = s.src
      BY <1>4 DEF RunPcs
    <3>2. Goto(p, r) /\ UNCHANGED slots
      BY <1>7, <2>2 DEF VerifySeed
    <3> HIDE DEF r
    <3>3. IsChosen(r)
      BY <3>1 DEF IsChosen, Seeding
    <3> QED BY <1>1, <1>2, <3>1, <3>2, <3>3, SeedMoves
  <2> QED BY <2>1, <2>2
<1>8. CASE Publish(p)
  <2>1. AllowFile /\ (reach => slots.keychain \in {NoKey, s.key}) /\ s.pc = "publish"
    BY <1>3, <1>8 DEF IsChosen, Publish
  <2> DEFINE r == [s EXCEPT !.pc = "settle"]
  <2>2. r.pc = "settle" /\ r.job = "resolve" /\ r.rec = s.rec /\ r.key = s.key /\ r.src = s.src
    BY <1>4 DEF RunPcs
  <2>3. CASE slots.file = NoKey
    <3>1. slots' = [slots EXCEPT !.file = s.key] /\ Goto(p, r)
      BY <1>8, <2>3 DEF Publish
    <3>2. /\ slots'.keychain = slots.keychain /\ slots'.file = s.key
          /\ slots'.legacy = slots.legacy /\ slots'.env = slots.env
      BY <1>2, <3>1 DEF Slots
    <3> HIDE DEF r
    <3> QED BY <1>1, <1>2, <2>1, <2>2, <2>3, <3>1, <3>2, SeedTaken
  <2>4. CASE slots.file = Corrupt
    <3> DEFINE t == [s EXCEPT !.pc = "refused"]
    <3>1. t.pc = "refused" /\ t.job = "resolve" /\ t.rec = s.rec /\ t.key = s.key /\ t.src = s.src
      BY <1>4 DEF RunPcs
    <3>2. Goto(p, t) /\ UNCHANGED slots
      BY <1>8, <2>4, CustodyBounds DEF Publish
    <3> HIDE DEF t
    <3>3. IsChosen(t)
      BY <3>1 DEF IsChosen, Seeding
    <3> QED BY <1>1, <1>2, <3>1, <3>2, <3>3, SeedMoves
  <2>5. CASE slots.file \notin {NoKey, Corrupt}
    <3>1. slots.file \in Keys /\ slots.file \in Held
      BY <1>2, <2>5 DEF Slots, MaybeKey, Held
    <3>2. s.key = slots.file
      BY <1>2, <2>1, <3>1 DEF Existing
    <3> DEFINE t == [s EXCEPT !.pc = "settle", !.key = slots.file]
    <3>3. t.pc = "settle" /\ t.job = "resolve" /\ t.rec = s.rec /\ t.key = s.key /\ t.src = s.src
      BY <1>2, <3>2 DEF Runs
    <3>4. Goto(p, t) /\ UNCHANGED slots
      BY <1>8, <2>5 DEF Publish
    <3> HIDE DEF t
    <3>5. IsChosen(t) /\ Climbs(t)
      BY <1>2, <2>1, <3>2, <3>3 DEF IsChosen, Seeding, FoundIn, Climbs
    <3> QED BY <1>1, <1>2, <3>1, <3>2, <3>3, <3>4, <3>5, SeedMoves
  <2> QED BY <2>3, <2>4, <2>5
<1> QED BY <1>5, <1>6, <1>7, <1>8

-----------------------------------------------------------------------------
(* The key against the record.                                               *)

\* A resolution that comes up, or records its key first.
LEMMA UpIsSound ==
  ASSUME CustodyInv, NEW r, r.job = "resolve", r.pc \in {"up", "record"}, r.key \in Held,
         r.keep = Loaded \ {r.key}, r.saw = reach, r.pc = "up" => r.key = folder.record,
         r.pc = "record" =>
           /\ r.rec = NoKey
           /\ folder.record # NoKey => r.key = folder.record
           /\ folder.record = NoKey => r.key \in sealed \/ (sealed = {} /\ FoundIn(r))
  PROVE  RunIsSound(r)
<1>1. r.saw => Indexed \subseteq {r.key} \cup r.keep
  BY HeldForms DEF CustodyInv, FolderIsSound
<1>2. IsChosen(r)
  BY DEF IsChosen, Seeding
<1>3. RecordIsRead(r)
  BY DEF RecordIsRead, Writes, Climbs, Seeding
<1> QED BY <1>1, <1>2, <1>3 DEF RunIsSound, KeyIsHeld, KeepsTheVault, CopyIsWritten, RetiresFirst

\* What a resolution that has a key, or was refused one, knows.
LEMMA SettleForms ==
  ASSUME CustodyInv, NEW p \in Resolvers, run[p].pc \in {"refused", "settle"}
  PROVE  /\ RunIsSound(run[p]) /\ run[p] \in Runs /\ run[p].job = "resolve"
         /\ run[p].rec \in {NoKey, folder.record}
         /\ run[p].pc = "settle" =>
              /\ run[p].key \in Keys /\ run[p].key \in Held /\ FoundIn(run[p])
              /\ run[p].src # "env" => run[p].key \in SlotKeys
              /\ run[p].rec = NoKey /\ folder.record # NoKey =>
                   sealed \subseteq {folder.record} /\ (sealed = {} => run[p].key = folder.record)
         /\ Candidates \subseteq Held /\ Held \subseteq Keys /\ Loaded \subseteq Keys
         /\ reach => Indexed \subseteq Loaded
<1>1. /\ RunIsSound(run[p]) /\ RunIsTyped(run[p]) /\ Candidates \subseteq Held /\ Held \subseteq Keys
      /\ Loaded \subseteq Keys /\ (reach => Indexed \subseteq Loaded)
  BY HeldForms, TypedForms DEF CustodyInv, CustodyTyped, FolderIsSound
<1>2. run[p].job = "resolve" /\ run[p] \in Runs /\ (run[p].pc = "settle" => run[p].key \in Keys)
  BY <1>1 DEF RunIsTyped, JobIsKnown, KeyIsKnown
<1>3. run[p].rec \in {NoKey, folder.record}
  BY <1>1, <1>2 DEF RunIsSound, RecordIsRead
<1>4. CASE run[p].pc = "settle"
  <2>1. run[p].key \in Held /\ FoundIn(run[p])
    BY <1>1, <1>4 DEF RunIsSound, KeyIsHeld, IsChosen
  <2>2. run[p].src # "env" => run[p].key \in SlotKeys
    BY <1>2, <1>4, <2>1 DEF FoundIn, SlotKeys
  <2>3. run[p].rec = NoKey /\ folder.record # NoKey =>
          sealed \subseteq {folder.record} /\ (sealed = {} => run[p].key = folder.record)
    BY <1>1, <1>2, <1>4 DEF RunIsSound, RecordIsRead, Climbs
  <2> QED BY <1>1, <1>2, <1>3, <1>4, <2>1, <2>2, <2>3
<1> QED BY <1>1, <1>2, <1>3, <1>4

\* A candidate that replaces the key the ladder found.
LEMMA ReplaceInv ==
  ASSUME CustodyInv, CustodyTyped', NEW p \in Resolvers, run[p].pc = "settle", NEW k \in Candidates,
         NEW w \in BOOLEAN, ~ w => k = run[p].rec,
         w => /\ run[p].rec = NoKey
              /\ folder.record # NoKey => k = folder.record
              /\ folder.record = NoKey => k \in sealed,
         Goto(p, Replace(p, k, w)), UNCHANGED <<slots, reach, folder, sealed, runs, clobbered>>
  PROVE  CustodyInv'
<1>1. /\ run[p].job = "resolve" /\ run[p].rec \in {NoKey, folder.record} /\ run[p].key \in Keys
      /\ run[p].src # "env" => run[p].key \in SlotKeys
      /\ k \in Held /\ k \in Keys /\ (reach => Indexed \subseteq Loaded)
  BY SettleForms
<1> DEFINE r == Replace(p, k, w)
<1>2. /\ r.pc = "retire" /\ r.key = k /\ r.keep = (Loaded \ {k}) \cup {run[p].key}
      /\ (run[p].src = "env" => r.todo = {}) /\ (run[p].src # "env" => r.todo = {run[p].key})
      /\ r.saw = reach /\ r.job = run[p].job /\ r.rec = run[p].rec
  BY <1>1, ReplaceForms DEF CustodyInv
<1>3. r.writes = w
  <2>1. CustodyTyped /\ run[p].key \in Keys /\ k \in Keys
    BY <1>1 DEF CustodyInv
  <2> QED BY <2>1, ReplaceWrites
<1> HIDE DEF r
<1>4. RecordIsRead(r)
  BY <1>1, <1>2, <1>3 DEF RecordIsRead, Writes, Climbs, Seeding
<1>5. KeepsTheVault(r)
  <2>1. r.saw => Indexed \subseteq {r.key} \cup r.keep
    BY <1>1, <1>2
  <2>2. r.todo \subseteq r.keep /\ r.todo \subseteq SlotKeys
    BY <1>1, <1>2
  <2> QED BY <2>1, <2>2 DEF KeepsTheVault
<1>6. KeyIsHeld(r) /\ IsChosen(r) /\ CopyIsWritten(r) /\ RetiresFirst(r)
  BY <1>1, <1>2 DEF KeyIsHeld, IsChosen, CopyIsWritten, RetiresFirst, Seeding
<1>7. Allowed(p, r)
  BY <1>2 DEF Allowed
<1> QED BY <1>4, <1>5, <1>6, <1>7, MoveInv DEF r, RunIsSound

LEMMA SettleInv ==
  ASSUME CustodyInv, CustodyTyped', NEW p \in Resolvers,
         \/ Recover(p) \/ SettleRecorded(p) \/ SettleMismatch(p) \/ SettleFirst(p)
  PROVE  CustodyInv'
<1>1. UNCHANGED <<slots, reach, folder, sealed, runs, clobbered>>
      /\ run[p].pc \in {"refused", "settle"}
  BY DEF Recover, SettleRecorded, SettleMismatch, SettleFirst
<1>2. /\ RunIsSound(run[p]) /\ run[p] \in Runs /\ run[p].job = "resolve"
      /\ run[p].rec \in {NoKey, folder.record}
      /\ run[p].pc = "settle" =>
           /\ run[p].key \in Keys /\ run[p].key \in Held /\ FoundIn(run[p])
           /\ run[p].rec = NoKey /\ folder.record # NoKey =>
                sealed \subseteq {folder.record} /\ (sealed = {} => run[p].key = folder.record)
      /\ Candidates \subseteq Held /\ Held \subseteq Keys
  BY <1>1, SettleForms
<1>3. ASSUME NEW k \in Held, Goto(p, Use(p, k)), k = run[p].rec PROVE CustodyInv'
  <2>1. k \in Keys /\ k = folder.record
    BY <1>2, <1>3, CustodyBounds
  <2> DEFINE u == Use(p, k)
  <2>2. u.pc = "up" /\ u.key = k /\ u.keep = Loaded \ {k} /\ u.saw = reach /\ u.job = "resolve"
    BY <1>2, <2>1, UseForms DEF CustodyInv
  <2> HIDE DEF u
  <2>3. RunIsSound(u)
    BY <1>3, <2>1, <2>2, UpIsSound
  <2>4. Allowed(p, u)
    BY <1>1, <1>2, <2>2 DEF Allowed
  <2> QED BY <1>1, <1>3, <2>3, <2>4, MoveInv DEF u
<1>4. CASE Recover(p)
  BY <1>2, <1>3, <1>4 DEF Recover
<1>5. CASE SettleRecorded(p)
  BY <1>2, <1>3, <1>5 DEF SettleRecorded
<1>6. CASE SettleMismatch(p)
  <2>1. run[p].pc = "settle" /\ run[p].rec \in Candidates /\ Goto(p, Replace(p, run[p].rec, FALSE))
    BY <1>6 DEF SettleMismatch
  <2> QED BY <1>1, <2>1, ReplaceInv
<1>7. CASE SettleFirst(p)
  <2>1. run[p].pc = "settle" /\ run[p].rec = NoKey
    BY <1>7 DEF SettleFirst
  <2>2. PICK sample \in Samples :
          \/ /\ sample = {} \/ run[p].key \in sample
             /\ Goto(p, [Use(p, run[p].key) EXCEPT !.pc = "record"])
          \/ /\ sample # {} /\ run[p].key \notin sample
             /\ \E k \in Candidates \cap sample : Goto(p, Replace(p, k, TRUE))
    BY <1>7 DEF SettleFirst
  <2>3. sample \subseteq sealed /\ (sample = {} => sealed = {})
    <3>1. CASE sealed = {}
      BY <3>1 DEF Samples
    <3>2. CASE sealed # {}
      <4>1. Samples = (SUBSET sealed) \ {{}}
        BY <3>2 DEF Samples
      <4>2. sample \in SUBSET sealed /\ sample # {}
        BY <4>1, Zenon
      <4> QED BY <4>2
    <3> QED BY <3>1, <3>2
  <2>4. CASE /\ sample = {} \/ run[p].key \in sample
             /\ Goto(p, [Use(p, run[p].key) EXCEPT !.pc = "record"])
    <3> DEFINE u == Use(p, run[p].key)
               r == [u EXCEPT !.pc = "record"]
    <3>1. /\ u \in Runs /\ u.key = run[p].key /\ u.keep = Loaded \ {run[p].key} /\ u.saw = reach
          /\ u.job = "resolve" /\ u.rec = run[p].rec /\ u.src = run[p].src
      BY <1>2, <2>1, UseForms DEF CustodyInv
    <3> HIDE DEF u
    <3>2. /\ r.pc = "record" /\ r.key = run[p].key /\ r.keep = Loaded \ {run[p].key}
          /\ r.saw = reach /\ r.job = "resolve" /\ r.rec = run[p].rec /\ r.src = run[p].src
      BY <3>1 DEF Runs
    <3>3. Goto(p, r)
      BY <2>4 DEF u
    <3> HIDE DEF r
    <3>4. FoundIn(r)
      BY <1>2, <2>1, <3>2 DEF FoundIn
    <3>5. sealed = {} \/ run[p].key \in sealed
      BY <2>3, <2>4
    <3>6. folder.record # NoKey => run[p].key = folder.record
      BY <1>2, <2>1, <3>5
    <3>7. RunIsSound(r)
      BY <1>2, <2>1, <3>2, <3>4, <3>5, <3>6, UpIsSound
    <3>8. Allowed(p, r)
      BY <1>1, <1>2, <3>2 DEF Allowed
    <3> QED BY <1>1, <3>3, <3>7, <3>8, MoveInv
  <2>5. ASSUME NEW k \in Candidates \cap sample, Goto(p, Replace(p, k, TRUE)) PROVE CustodyInv'
    <3>1. k \in sealed
      BY <2>3
    <3>2. folder.record # NoKey => k = folder.record
      BY <1>2, <2>1, <3>1
    <3> QED BY <1>1, <2>1, <2>5, <3>1, <3>2, ReplaceInv
  <2> QED BY <2>2, <2>4, <2>5
<1> QED BY <1>4, <1>5, <1>6, <1>7

LEMMA ResolverStopInv ==
  ASSUME CustodyInv, CustodyTyped', NEW p \in Resolvers, GiveUp(p) \/ Stop(p) PROVE CustodyInv'
<1>1. Goto(p, Down) /\ UNCHANGED <<slots, reach, folder, sealed, clobbered>>
  BY DEF GiveUp, Stop
<1>2. Allowed(p, Down) /\ RunIsSound(Down)
  BY DownTyped, DownIsSound DEF Allowed
<1> QED BY <1>1, <1>2, MoveInv

-----------------------------------------------------------------------------
(* Retiring keys.                                                            *)

\* What a retirement knows of the key it is about to retire.
LEMMA RetireForms ==
  ASSUME CustodyInv, NEW p \in Resolvers, run[p].pc \in {"retire", "index"}
  PROVE  /\ RunIsSound(run[p]) /\ RunIsTyped(run[p]) /\ run[p] \in Runs
         /\ FolderIsSound /\ folder \in Folders
         /\ folder.index \in [Keys -> Custodies \cup {"none"}]
         /\ run[p].todo \subseteq Keys /\ run[p].writes \in BOOLEAN
         /\ run[p].job \in {"resolve", "adopt", "retire"}
  BY TypedForms DEF CustodyInv, CustodyTyped, Runs

\* A run that goes on to retire: only its step, its list and its one key change.
LEMMA RetireMoves ==
  ASSUME CustodyInv, NEW p \in Resolvers, run[p].pc \in {"retire", "index"}, NEW r,
         r.pc \in {"retire", "index"}, r.job = run[p].job, r.key = run[p].key,
         r.src = run[p].src, r.rec = run[p].rec, r.keep = run[p].keep,
         r.writes = run[p].writes, r.saw = run[p].saw
  PROVE  KeyIsHeld(r) /\ IsChosen(r) /\ RecordIsRead(r) /\ Allowed(p, r)
<1>1. RunIsSound(run[p])
  BY RetireForms
<1>2. KeyIsHeld(r) /\ IsChosen(r) /\ Allowed(p, r)
  BY <1>1 DEF RunIsSound, KeyIsHeld, IsChosen, Seeding, Allowed
<1>3. (r.writes <=> run[p].writes)
  BY Zenon
<1>4. RecordIsRead(r)
  BY <1>1, <1>3 DEF RunIsSound, RecordIsRead, Writes, Climbs, Seeding
<1> QED BY <1>2, <1>4

LEMMA RetireInv ==
  ASSUME CustodyInv, CustodyTyped', NEW p \in Resolvers, RetireCopy(p) PROVE CustodyInv'
<1> DEFINE s == run[p]
<1>1. s.pc = "retire" /\ UNCHANGED <<slots, reach, sealed, clobbered>>
  BY DEF RetireCopy
<1>2. /\ RunIsSound(s) /\ s \in Runs /\ FolderIsSound /\ folder \in Folders
      /\ s.todo \subseteq Keys /\ s.writes \in BOOLEAN
  BY <1>1, RetireForms
<1>3. PICK k \in s.todo \ Indexed : \E c \in Custodies :
        /\ folder' = [folder EXCEPT !.copies = @ \cup {<<k, c>>}]
        /\ Goto(p, [s EXCEPT !.pc = "index", !.one = k, !.place = c])
  BY DEF RetireCopy
<1>4. PICK c \in Custodies :
        /\ folder' = [folder EXCEPT !.copies = @ \cup {<<k, c>>}]
        /\ Goto(p, [s EXCEPT !.pc = "index", !.one = k, !.place = c])
  BY <1>3
<1>5. /\ folder'.record = folder.record /\ folder'.index = folder.index
      /\ folder.copies \subseteq folder'.copies /\ <<k, c>> \in folder'.copies
  BY <1>2, <1>4 DEF Folders
<1> DEFINE r == [s EXCEPT !.pc = "index", !.one = k, !.place = c]
<1>6. /\ r.pc = "index" /\ r.one = k /\ r.place = c /\ r.job = s.job
      /\ r.key = s.key /\ r.src = s.src /\ r.rec = s.rec /\ r.keep = s.keep /\ r.todo = s.todo
      /\ r.writes = s.writes /\ r.saw = s.saw
  BY <1>2 DEF Runs
<1> HIDE DEF r
<1>7. run'[p] = r /\ \A q \in Resolvers : q # p => run'[q] = run[q]
  BY <1>4, GotoValue DEF r
<1>8. /\ Indexed' = Indexed /\ Persistent' = Persistent /\ RecordedCurrent' = RecordedCurrent
      /\ SlotKeys' = SlotKeys /\ Existing' = Existing
  BY <1>1, <1>5 DEF Indexed, Persistent, RecordedCurrent, Live, SlotKeys, Existing
<1>9. Held \subseteq Held' /\ IndexedHasCopy'
  BY <1>1, <1>2, <1>5, <1>8 DEF Held, FolderIsSound, IndexedHasCopy
<1>10. FolderIsSound'
  BY <1>1, <1>2, <1>5, <1>9, HeldGrows
\* What held before holds of a run that is where it was, or has one key copied.
<1>11. ASSUME NEW q \in Resolvers, NEW t, run'[q] = t, KeyIsHeld(t), IsChosen(t), RecordIsRead(t),
              KeepsTheVault(t), RetiresFirst(t),
              t.pc = "index" => t.one \in t.todo /\ <<t.one, t.place>> \in folder'.copies
       PROVE  RunIsSound(run[q])'
  <2>1. KeyIsHeld(run[q])'
    BY <1>9, <1>11 DEF KeyIsHeld
  <2>2. IsChosen(run[q])'
    BY <1>1, <1>5, <1>8, <1>11 DEF IsChosen, FoundIn, Seeding
  <2>3. RecordIsRead(run[q])'
    BY <1>1, <1>5, <1>11 DEF RecordIsRead, Writes, Climbs, Seeding
  <2>4. KeepsTheVault(run[q])' /\ CopyIsWritten(run[q])'
    BY <1>8, <1>11 DEF KeepsTheVault, CopyIsWritten
  <2>5. RetiresFirst(run[q])'
    BY <1>1, <1>8, <1>11 DEF RetiresFirst
  <2> QED BY <2>1, <2>2, <2>3, <2>4, <2>5 DEF RunIsSound
<1>12. KeyIsHeld(r) /\ IsChosen(r) /\ RecordIsRead(r) /\ Allowed(p, r)
  BY <1>1, <1>6, RetireMoves
<1>13. KeepsTheVault(r) /\ RetiresFirst(r)
  BY <1>1, <1>2, <1>6 DEF RunIsSound, KeepsTheVault, RetiresFirst
<1>14. RunIsSound(run[p])'
  BY <1>3, <1>5, <1>6, <1>7, <1>11, <1>12, <1>13
<1>15. ASSUME NEW q \in Resolvers, q # p PROVE RunIsSound(run[q])'
  <2>1. run'[q] = run[q] /\ RunIsSound(run[q])
    BY <1>7, <1>15 DEF CustodyInv
  <2> QED BY <1>5, <1>11, <2>1 DEF RunIsSound, CopyIsWritten
<1> QED BY <1>4, <1>10, <1>12, <1>14, <1>15, GotoInv DEF r

LEMMA IndexInv ==
  ASSUME CustodyInv, CustodyTyped', NEW p \in Resolvers, RetireIndex(p) PROVE CustodyInv'
<1> DEFINE s == run[p]
           rest == s.todo \ {s.one}
           r == [s EXCEPT !.pc = "retire", !.todo = rest]
<1>1. s.pc = "index" /\ UNCHANGED <<slots, reach, sealed, clobbered>> /\ Goto(p, r)
      /\ folder' = [folder EXCEPT !.index = [@ EXCEPT ![s.one] = s.place]]
  BY DEF RetireIndex
<1>2. /\ RunIsSound(s) /\ s \in Runs /\ FolderIsSound /\ folder \in Folders
      /\ folder.index \in [Keys -> Custodies \cup {"none"}]
      /\ s.todo \subseteq Keys /\ s.writes \in BOOLEAN
  BY <1>1, RetireForms
<1>3. s.one \in s.todo /\ <<s.one, s.place>> \in folder.copies /\ s.place \in Custodies
  BY <1>1, <1>2 DEF RunIsSound, CopyIsWritten, Runs
<1>4. /\ r.pc = "retire" /\ r.job = s.job /\ r.key = s.key /\ r.src = s.src
      /\ r.rec = s.rec /\ r.keep = s.keep /\ r.todo = rest /\ r.writes = s.writes /\ r.saw = s.saw
  <2> HIDE DEF rest
  <2> QED BY <1>2 DEF Runs
<1>5. /\ folder'.record = folder.record /\ folder'.copies = folder.copies
      /\ folder'.index = [folder.index EXCEPT ![s.one] = s.place]
  BY <1>1, <1>2 DEF Folders
<1> HIDE DEF r, s, rest
<1>6. run'[p] = r /\ \A q \in Resolvers : q # p => run'[q] = run[q]
  BY <1>1, GotoValue
<1>7. Indexed' = Indexed \cup {s.one}
  BY <1>2, <1>3, <1>5 DEF Indexed, Custodies
<1>8. IndexedHasCopy'
  BY <1>2, <1>3, <1>5, <1>7 DEF IndexedHasCopy, FolderIsSound, Indexed
<1>9. Held \subseteq Held'
  BY <1>1, <1>2, <1>5, <1>7, <1>8 DEF Held, IndexedHasCopy
<1>10. FolderIsSound'
  BY <1>1, <1>2, <1>5, <1>8, <1>9, HeldGrows
<1>11. /\ Persistent' = Persistent /\ RecordedCurrent' = RecordedCurrent
       /\ SlotKeys' = SlotKeys /\ Existing' = Existing
  BY <1>1, <1>5 DEF Persistent, RecordedCurrent, Live, SlotKeys, Existing
<1>12. ASSUME NEW q \in Resolvers, NEW t, run'[q] = t, KeyIsHeld(t), IsChosen(t), RecordIsRead(t),
              KeepsTheVault(t), CopyIsWritten(t),
              t.job = "resolve" /\ t.pc \in {"retire", "index", "record", "up"} =>
                s.one \in {t.key} \cup t.keep \cup SlotKeys,
              RetiresFirst(t)
       PROVE  RunIsSound(run[q])'
  <2>1. KeyIsHeld(run[q])'
    BY <1>9, <1>12 DEF KeyIsHeld
  <2>2. IsChosen(run[q])'
    BY <1>1, <1>5, <1>11, <1>12 DEF IsChosen, FoundIn, Seeding
  <2>3. RecordIsRead(run[q])'
    BY <1>1, <1>5, <1>12 DEF RecordIsRead, Writes, Climbs, Seeding
  <2>4. KeepsTheVault(run[q])'
    BY <1>7, <1>11, <1>12 DEF KeepsTheVault
  <2>5. CopyIsWritten(run[q])'
    BY <1>5, <1>12 DEF CopyIsWritten
  <2>6. RetiresFirst(run[q])'
    BY <1>1, <1>7, <1>11, <1>12 DEF RetiresFirst
  <2> QED BY <2>1, <2>2, <2>3, <2>4, <2>5, <2>6 DEF RunIsSound
<1>13. KeyIsHeld(r) /\ IsChosen(r) /\ RecordIsRead(r) /\ Allowed(p, r)
  BY <1>1, <1>4, RetireMoves DEF s
<1>14. KeepsTheVault(r)
  BY <1>1, <1>2, <1>4 DEF RunIsSound, KeepsTheVault, rest
<1>15. CopyIsWritten(r)
  BY <1>4 DEF CopyIsWritten
<1>16. RunIsSound(run[p])'
  <2>1. r.job = "resolve" => s.one \in r.keep
    BY <1>1, <1>2, <1>3, <1>4 DEF RunIsSound, KeepsTheVault
  <2>2. KeyIsHeld(run[p])'
    BY <1>6, <1>9, <1>13 DEF KeyIsHeld
  <2>3. IsChosen(run[p])'
    BY <1>1, <1>5, <1>6, <1>11, <1>13 DEF IsChosen, FoundIn, Seeding
  <2>4. RecordIsRead(run[p])'
    BY <1>1, <1>5, <1>6, <1>13 DEF RecordIsRead, Writes, Climbs, Seeding
  <2>5. KeepsTheVault(run[p])'
    BY <1>6, <1>7, <1>11, <1>14, <2>1 DEF KeepsTheVault
  <2>6. CopyIsWritten(run[p])'
    BY <1>4, <1>6 DEF CopyIsWritten
  <2>7. RetiresFirst(run[p])'
    <3>1. r.job = "adopt" => (Persistent \cup RecordedCurrent) \ {r.key} \subseteq r.todo \cup Indexed'
      BY <1>1, <1>2, <1>4, <1>7 DEF RunIsSound, RetiresFirst, rest
    <3>2. r.job = "retire" => /\ r.src = "file" => slots.file = r.key
                              /\ r.src = "legacy" => slots.legacy = r.key
      BY <1>1, <1>2, <1>4 DEF RunIsSound, RetiresFirst
    <3> QED BY <1>1, <1>4, <1>6, <1>11, <3>1, <3>2 DEF RetiresFirst
  <2> QED BY <2>2, <2>3, <2>4, <2>5, <2>6, <2>7 DEF RunIsSound
<1>17. CASE s.job # "resolve"
  <2>1. run[p].pc # "down" /\ run[p].job # "resolve"
    BY <1>1, <1>17 DEF s
  <2> QED BY <1>1, <1>10, <1>13, <1>16, <2>1, AloneInv
\* What a resolution retires is still in its slot.
<1>18. CASE s.job = "resolve"
  <2>1. s.one \in SlotKeys
    BY <1>1, <1>2, <1>3, <1>18 DEF RunIsSound, KeepsTheVault
  <2>2. ASSUME NEW q \in Resolvers, q # p PROVE RunIsSound(run[q])'
    <3>1. run'[q] = run[q] /\ RunIsSound(run[q])
      BY <1>6, <2>2 DEF CustodyInv
    <3> QED BY <1>12, <2>1, <3>1 DEF RunIsSound
  <2> QED BY <1>1, <1>10, <1>13, <1>16, <2>2, GotoInv
<1> QED BY <1>17, <1>18

LEMMA SkipInv ==
  ASSUME CustodyInv, CustodyTyped', NEW p \in Resolvers, RetireSkips(p) PROVE CustodyInv'
<1> DEFINE s == run[p]
<1>1. s.pc = "retire" /\ UNCHANGED <<slots, reach, folder, sealed, clobbered>>
  BY DEF RetireSkips
<1>2. RunIsSound(s) /\ s \in Runs /\ s.todo \subseteq Keys
  BY <1>1, RetireForms
<1>3. PICK k \in s.todo :
        Goto(p, IF k \in Indexed \/ s.job = "resolve" THEN [s EXCEPT !.todo = @ \ {k}] ELSE Down)
  BY DEF RetireSkips
<1> DEFINE rest == s.todo \ {k}
           r == [s EXCEPT !.todo = rest]
<1>4. /\ r.pc = "retire" /\ r.job = s.job /\ r.key = s.key /\ r.src = s.src
      /\ r.rec = s.rec /\ r.keep = s.keep /\ r.todo = rest
      /\ r.writes = s.writes /\ r.saw = s.saw
  <2> HIDE DEF rest
  <2> QED BY <1>1, <1>2 DEF Runs
<1> HIDE DEF r
<1>5. CASE k \in Indexed \/ s.job = "resolve"
  <2>1. KeyIsHeld(r) /\ IsChosen(r) /\ RecordIsRead(r) /\ Allowed(p, r)
    BY <1>1, <1>4, RetireMoves
  <2>2. KeepsTheVault(r)
    BY <1>1, <1>2, <1>4 DEF RunIsSound, KeepsTheVault
  <2>3. CopyIsWritten(r)
    BY <1>4 DEF CopyIsWritten
  <2>4. RetiresFirst(r)
    BY <1>1, <1>2, <1>4, <1>5 DEF RunIsSound, RetiresFirst
  <2> QED BY <1>1, <1>3, <1>5, <2>1, <2>2, <2>3, <2>4, MoveInv DEF r, RunIsSound
<1>6. CASE ~ (k \in Indexed \/ s.job = "resolve")
  <2>1. Allowed(p, Down) /\ RunIsSound(Down)
    BY DownTyped, DownIsSound DEF Allowed
  <2> QED BY <1>1, <1>3, <1>6, <2>1, MoveInv
<1> QED BY <1>5, <1>6

LEMMA RetiredInv ==
  ASSUME CustodyInv, CustodyTyped', NEW p \in Resolvers, Retired(p) PROVE CustodyInv'
<1> DEFINE s == run[p]
           pc == CASE s.job = "adopt" -> "install" [] s.job = "retire" -> "remove"
                   [] OTHER -> IF s.writes THEN "record" ELSE "up"
           r == [s EXCEPT !.pc = pc]
<1>1. /\ s.pc = "retire" /\ s.todo = {} /\ Goto(p, r)
      /\ UNCHANGED <<slots, reach, folder, sealed, clobbered>>
  BY DEF Retired
<1>2. /\ RunIsSound(s) /\ RunIsTyped(s) /\ s \in Runs /\ s.writes \in BOOLEAN
      /\ s.job \in {"resolve", "adopt", "retire"}
  BY <1>1, RetireForms
<1>3. /\ s.job = "adopt" => pc = "install"
      /\ s.job = "retire" => pc = "remove"
      /\ s.job = "resolve" => pc = IF s.writes THEN "record" ELSE "up"
  <2> HIDE DEF s
  <2>1. CASE s.job = "adopt"
    BY <2>1
  <2>2. CASE s.job = "retire"
    BY <2>2
  <2>3. CASE s.job = "resolve"
    BY <2>3
  <2> QED BY <1>2, <2>1, <2>2, <2>3
<1> HIDE DEF pc
<1>4. /\ r.pc = pc /\ r.job = s.job /\ r.key = s.key /\ r.src = s.src
      /\ r.rec = s.rec /\ r.keep = s.keep /\ r.todo = s.todo
      /\ r.writes = s.writes /\ r.saw = s.saw
  BY <1>2 DEF Runs
<1>5. s.job # "retire" => s.key \in Keys
  BY <1>1, <1>2 DEF RunIsTyped, KeyIsKnown
<1> HIDE DEF r
<1>6. KeyIsHeld(r)
  BY <1>1, <1>2, <1>3, <1>4 DEF RunIsSound, KeyIsHeld
<1>7. /\ s.job = "resolve" /\ s.writes =>
           /\ s.rec = NoKey
           /\ folder.record # NoKey => s.key = folder.record
           /\ folder.record = NoKey => s.key \in sealed
      /\ s.job = "resolve" /\ ~ s.writes => s.key = folder.record
  BY <1>1, <1>2, <1>5, CustodyBounds DEF RunIsSound, RecordIsRead, Writes
<1>8. IsChosen(r)
  BY <1>2, <1>3, <1>4, <1>7 DEF IsChosen, Seeding
<1>9. RecordIsRead(r)
  BY <1>2, <1>3, <1>4, <1>7 DEF RecordIsRead, Writes, Climbs, Seeding
<1>10. KeepsTheVault(r) /\ CopyIsWritten(r)
  BY <1>1, <1>2, <1>3, <1>4 DEF RunIsSound, KeepsTheVault, CopyIsWritten
<1>11. RetiresFirst(r)
  BY <1>1, <1>2, <1>3, <1>4 DEF RunIsSound, RetiresFirst
<1>12. Allowed(p, r)
  BY <1>1, <1>4 DEF Allowed
<1> QED BY <1>1, <1>6, <1>8, <1>9, <1>10, <1>11, <1>12, MoveInv DEF RunIsSound

\* The record names a key that is held, and whoever else is about to write it
\* writes the same one.
LEMMA RecordInv ==
  ASSUME CustodyInv, CustodyTyped', MakersAgree, NEW p \in Resolvers, Record(p) PROVE CustodyInv'
<1> DEFINE s == run[p]
           r == [s EXCEPT !.pc = "up"]
<1>1. /\ s.pc = "record" /\ UNCHANGED <<slots, reach, sealed, clobbered>>
      /\ folder' = [folder EXCEPT !.record = s.key]
      /\ Goto(p, IF s.job = "resolve" THEN r ELSE Down)
  BY DEF Record
<1>2. /\ RunIsSound(s) /\ RunIsTyped(s) /\ s \in Runs /\ folder \in Folders /\ FolderIsSound
  BY TypedForms DEF CustodyInv, CustodyTyped
<1>3. s.key \in Held /\ s.key \in Keys /\ s.key # NoKey
  BY <1>1, <1>2, CustodyBounds DEF RunIsSound, KeyIsHeld, RunIsTyped, KeyIsKnown
<1>4. /\ folder'.record = s.key /\ folder'.copies = folder.copies /\ folder'.index = folder.index
  BY <1>1, <1>2 DEF Folders
<1>5. /\ r.pc = "up" /\ r.job = s.job /\ r.key = s.key /\ r.keep = s.keep /\ r.saw = s.saw
  BY <1>2 DEF Runs
<1> HIDE DEF r
<1>6. Held' = Held /\ Indexed' = Indexed /\ SlotKeys' = SlotKeys /\ Existing' = Existing
  BY <1>1, <1>4 DEF Held, Indexed, SlotKeys, Existing
<1>7. FolderIsSound'
  BY <1>1, <1>2, <1>3, <1>4, <1>6
     DEF FolderIsSound, IndexedHasCopy, RecordIsHeld, NothingOrphaned, FirstSealed
<1>8. CASE s.job # "resolve"
  <2>1. run'[p] = Down
    BY <1>1, <1>8, GotoValue
  <2>2. RunIsSound(run[p])'
    BY <2>1, DownTyped DEF RunIsSound, KeyIsHeld, IsChosen, RecordIsRead, KeepsTheVault,
       CopyIsWritten, RetiresFirst, Seeding, Writes, Climbs
  <2>3. Allowed(p, Down)
    BY DownTyped DEF Allowed
  <2> QED BY <1>1, <1>7, <1>8, <2>2, <2>3, AloneInv
<1>9. CASE s.job = "resolve"
  <2>1. run'[p] = r /\ \A q \in Resolvers : q # p => run'[q] = run[q]
    BY <1>1, <1>9, GotoValue
  <2>2. /\ s.rec = NoKey
        /\ folder.record # NoKey => s.key = folder.record
        /\ folder.record = NoKey => s.key \in sealed \/ sealed = {}
    BY <1>1, <1>2, <1>9 DEF RunIsSound, RecordIsRead, Writes
  <2>3. RunIsSound(run[p])'
    <3>1. KeyIsHeld(run[p])' /\ IsChosen(run[p])' /\ RecordIsRead(run[p])'
      BY <1>3, <1>4, <1>5, <1>6, <2>1
         DEF KeyIsHeld, IsChosen, RecordIsRead, Writes, Climbs, Seeding
    <3>2. KeepsTheVault(run[p])'
      BY <1>1, <1>2, <1>5, <1>6, <1>9, <2>1 DEF RunIsSound, KeepsTheVault
    <3>3. CopyIsWritten(run[p])' /\ RetiresFirst(run[p])'
      BY <1>5, <1>9, <2>1 DEF CopyIsWritten, RetiresFirst
    <3> QED BY <3>1, <3>2, <3>3 DEF RunIsSound
  <2>4. ASSUME NEW q \in Resolvers, q # p PROVE RunIsSound(run[q])'
    <3> DEFINE t == run[q]
    <3>1. run'[q] = t /\ RunIsSound(t) /\ RunIsTyped(t)
      BY <2>1, <2>4 DEF CustodyInv, CustodyTyped
    <3>2. t.pc = "down" \/ t.job = "resolve"
      BY <1>1, <1>9 DEF CustodyInv, CommandsAlone
    <3>3. KeyIsHeld(run[q])'
      BY <1>6, <3>1 DEF RunIsSound, KeyIsHeld
    <3>4. IsChosen(run[q])'
      BY <1>1, <1>3, <1>4, <1>6, <3>1 DEF RunIsSound, IsChosen, FoundIn, Seeding
    <3>5. KeepsTheVault(run[q])' /\ CopyIsWritten(run[q])'
      BY <1>4, <1>6, <3>1 DEF RunIsSound, KeepsTheVault, CopyIsWritten
    <3>6. RetiresFirst(run[q])'
      BY <3>1, <3>2 DEF RunIsTyped, JobIsKnown, RetiresFirst
    <3>7. RecordIsRead(run[q])'
      <4>1. CASE folder.record # NoKey
        <5>1. folder'.record = folder.record
          BY <1>4, <2>2, <4>1
        <5> QED BY <1>1, <3>1, <5>1 DEF RunIsSound, RecordIsRead, Writes, Climbs, Seeding
      <4>2. CASE folder.record = NoKey /\ t.job = "resolve" /\ t.pc # "down"
        <5>1. t.pc # "up"
          <6>1. t.pc = "up" => t.key \in Keys /\ t.key = folder.record
            BY <3>1, <4>2 DEF RunIsSound, RecordIsRead, RunIsTyped, KeyIsKnown
          <6> QED BY <4>2, <6>1, CustodyBounds
        <5>2. t.rec = NoKey
          BY <3>1, <4>2, <5>1 DEF RunIsSound, RecordIsRead
        <5>3. ~ (t.pc \in {"retire", "index"} /\ ~ t.writes)
          <6>1. t.pc \in {"retire", "index"} /\ ~ t.writes => t.key \in Keys /\ t.key = t.rec
            BY <3>1, <4>2 DEF RunIsSound, RecordIsRead, RunIsTyped, KeyIsKnown
          <6> QED BY <5>2, <6>1, CustodyBounds
        <5>4. \A a, b \in sealed : a = b
          BY <1>2, <4>2 DEF FolderIsSound, FirstSealed
        <5>5. sealed = {} /\ (Climbs(t) \/ t.pc = "record") => t.key = s.key
          BY <1>1, <1>9, <4>2, FirstsAgree
        <5>6. Writes(t) => t.key = s.key
          <6>1. Writes(t) => t.key \in sealed \/ (t.pc = "record" /\ sealed = {})
            BY <3>1, <4>2 DEF RunIsSound, RecordIsRead
          <6> QED BY <2>2, <4>2, <5>4, <5>5, <6>1
        <5>7. Climbs(t) => sealed \subseteq {s.key} /\ (sealed = {} => t.key = s.key)
          BY <2>2, <4>2, <5>4, <5>5
        <5> QED BY <1>1, <1>3, <1>4, <3>1, <5>1, <5>2, <5>3, <5>6, <5>7
                DEF RecordIsRead, Writes, Climbs, Seeding
      <4>3. CASE t.pc = "down"
        BY <3>1, <4>3 DEF RecordIsRead, Writes, Climbs, Seeding
      <4> QED BY <3>2, <4>1, <4>2, <4>3
    <3> QED BY <3>3, <3>4, <3>5, <3>6, <3>7 DEF RunIsSound
  <2>5. Allowed(p, r)
    BY <1>1, <1>5 DEF Allowed
  <2> QED BY <1>1, <1>7, <1>9, <2>3, <2>4, <2>5, GotoInv
<1> QED BY <1>8, <1>9

-----------------------------------------------------------------------------
(* The commands.                                                             *)

\* A command that starts, with the keys it retires first.
LEMMA CommandInv ==
  ASSUME CustodyInv, CustodyTyped', NEW p \in Resolvers, Commands(p), NEW r, Goto(p, r),
         UNCHANGED <<slots, reach, folder, sealed, clobbered>>,
         r.pc = "retire", r.job \in {"adopt", "retire"},
         r.job = "adopt" => (Persistent \cup RecordedCurrent) \ {r.key} \subseteq r.todo,
         r.job = "retire" => /\ r.src = "file" => slots.file = r.key
                             /\ r.src = "legacy" => slots.legacy = r.key
  PROVE  CustodyInv'
<1>1. RunIsSound(r)
  BY DEF RunIsSound, KeyIsHeld, IsChosen, RecordIsRead, KeepsTheVault, CopyIsWritten,
         RetiresFirst, Seeding
<1>2. Allowed(p, r)
  BY DEF Allowed
<1> QED BY <1>1, <1>2, MoveInv

LEMMA InstallInv ==
  ASSUME CustodyInv, CustodyTyped', NEW p \in Resolvers, Commands(p), NEW k \in Keys,
         NEW extra \in SUBSET Keys, Install(p, k, extra),
         UNCHANGED <<slots, reach, folder, sealed, clobbered>>
  PROVE  CustodyInv'
<1> DEFINE todo == (Persistent \cup RecordedCurrent \cup extra) \ {k}
           r == [Down EXCEPT !.pc = "retire", !.job = "adopt", !.key = k, !.todo = todo]
<1>1. Goto(p, r)
  BY DEF Install
<1>2. r.pc = "retire" /\ r.job = "adopt" /\ r.key = k /\ r.todo = todo
  BY InstallForms DEF CustodyInv
<1>3. (Persistent \cup RecordedCurrent) \ {k} \subseteq todo
  OBVIOUS
<1> HIDE DEF r, todo
<1> QED BY <1>1, <1>2, <1>3, CommandInv

LEMMA CommandsInv ==
  ASSUME CustodyInv, CustodyTyped', NEW p \in Resolvers, Adopt(p) \/ Import(p) \/ RetireKey(p)
  PROVE  CustodyInv'
<1>1. Commands(p) /\ UNCHANGED <<slots, reach, folder, sealed, clobbered>>
  BY DEF Adopt, Import, RetireKey
<1>2. CASE Adopt(p)
  BY <1>1, <1>2, InstallInv, TypedForms DEF Adopt, CustodyInv
<1>3. CASE Import(p)
  <2>1. PICK k \in Keys : \E extra \in SUBSET (Keys \ {k}) :
          \/ Goto(p, [Down EXCEPT !.pc = "retire", !.job = "retire", !.todo = extra])
          \/ Install(p, k, extra)
    BY <1>3 DEF Import
  <2>2. PICK extra \in SUBSET (Keys \ {k}) :
          \/ Goto(p, [Down EXCEPT !.pc = "retire", !.job = "retire", !.todo = extra])
          \/ Install(p, k, extra)
    BY <2>1
  <2>3. extra \in SUBSET Keys
    OBVIOUS
  <2>4. CASE Install(p, k, extra)
    BY <1>1, <2>3, <2>4, InstallInv
  <2>5. CASE Goto(p, [Down EXCEPT !.pc = "retire", !.job = "retire", !.todo = extra])
    <3> DEFINE r == [Down EXCEPT !.pc = "retire", !.job = "retire", !.todo = extra]
    <3>1. r.pc = "retire" /\ r.job = "retire" /\ r.src = "none"
      BY <2>3, ImportForms DEF CustodyInv
    <3> HIDE DEF r
    <3> QED BY <1>1, <2>5, <3>1, CommandInv DEF r
  <2> QED BY <2>2, <2>4, <2>5
<1>4. CASE RetireKey(p)
  <2>1. PICK k \in Live :
          Goto(p, [Down EXCEPT !.pc = "retire", !.job = "retire", !.key = k,
                               !.src = FirstSlot(k), !.todo = {k}])
    BY <1>4 DEF RetireKey
  <2> DEFINE r == [Down EXCEPT !.pc = "retire", !.job = "retire", !.key = k,
                               !.src = FirstSlot(k), !.todo = {k}]
  <2>2. /\ r.pc = "retire" /\ r.job = "retire" /\ r.key = k
        /\ r.src = "file" => slots.file = k
        /\ r.src = "legacy" => slots.legacy = k
    BY RetireKeyForms DEF CustodyInv
  <2> HIDE DEF r
  <2> QED BY <1>1, <2>1, <2>2, CommandInv DEF r
<1> QED BY <1>2, <1>3, <1>4

\* The key that is overwritten has been retired.
LEMMA StoreCurrentInv ==
  ASSUME CustodyInv, CustodyTyped', NEW p \in Resolvers, StoreCurrent(p) PROVE CustodyInv'
<1> DEFINE s == run[p]
           r == [s EXCEPT !.pc = "record"]
           taken == IF reach THEN {slots.file} \cap Keys ELSE {}
<1>1. /\ RunIsSound(s) /\ RunIsTyped(s) /\ s \in Runs /\ s.pc = "install" /\ FolderIsSound
      /\ slots \in Slots /\ UNCHANGED <<reach, folder, sealed, runs>> /\ Goto(p, r)
  BY TypedForms DEF CustodyInv, CustodyTyped, StoreCurrent
<1>2. s.job = "adopt" /\ s.key \in Keys
  BY <1>1 DEF RunIsTyped, JobIsKnown, KeyIsKnown
<1>3. (Persistent \cup RecordedCurrent) \ {s.key} \subseteq Indexed
  BY <1>1 DEF RunIsSound, RetiresFirst
<1>4. \/ /\ reach /\ slots' = [slots EXCEPT !.keychain = s.key] /\ clobbered' = clobbered
      \/ /\ slots' = [slots EXCEPT !.file = s.key] /\ clobbered' = clobbered \cup taken
  BY DEF StoreCurrent
<1>5. r.pc = "record" /\ r.job = "adopt" /\ r.key = s.key
  BY <1>1, <1>2 DEF Runs
<1> HIDE DEF r, s
<1>6. Indexed' = Indexed /\ IndexedHasCopy' /\ Indexed \subseteq Held'
  BY <1>1 DEF Indexed, IndexedHasCopy, FolderIsSound, Held
<1>7. ASSUME clobbered \subseteq clobbered', s.key \in Held', Held \subseteq Held' \cup clobbered',
             folder.record \in Held => folder.record \in Held'
      PROVE  CustodyInv'
  <2>1. FolderIsSound'
    BY <1>1, <1>6, <1>7 DEF FolderIsSound, RecordIsHeld, NothingOrphaned, FirstSealed
  <2>2. run'[p] = r
    BY <1>1, GotoValue
  <2>3. RunIsSound(run[p])'
    BY <1>5, <1>7, <2>2
       DEF RunIsSound, KeyIsHeld, IsChosen, RecordIsRead, KeepsTheVault, CopyIsWritten,
           RetiresFirst, Seeding
  <2>4. Allowed(p, r) /\ run[p].pc # "down" /\ run[p].job # "resolve"
    BY <1>1, <1>2, <1>5 DEF Allowed, s
  <2> QED BY <1>1, <2>1, <2>3, <2>4, AloneInv
<1>8. CASE reach /\ slots' = [slots EXCEPT !.keychain = s.key] /\ clobbered' = clobbered
  <2>1. slots'.keychain = s.key /\ slots'.file = slots.file /\ slots'.legacy = slots.legacy
    BY <1>1, <1>8 DEF Slots
  <2>2. slots.keychain \in Keys \ {s.key} => slots.keychain \in Indexed
    BY <1>3, <1>8 DEF Persistent
  <2>3. s.key \in Held' /\ Held \subseteq Held'
    BY <1>1, <1>2, <1>6, <2>1, <2>2 DEF Held, Indexed
  <2> QED BY <1>7, <1>8, <2>3
<1>9. CASE slots' = [slots EXCEPT !.file = s.key] /\ clobbered' = clobbered \cup taken
  <2>1. slots'.keychain = slots.keychain /\ slots'.file = s.key /\ slots'.legacy = slots.legacy
    BY <1>1, <1>9 DEF Slots
  <2>2. slots.file \in Keys \ {s.key} => slots.file \in Indexed \cup taken
    BY <1>3 DEF Persistent
  <2>3. s.key \in Held' /\ Held \subseteq Held' \cup taken
    BY <1>1, <1>2, <1>6, <2>1, <2>2 DEF Held, Indexed
\* A recorded key in the key file is a live one, and was retired.
  <2>4. folder.record \in Held => folder.record \in Held'
    <3>1. CASE folder.record = slots.file
      BY <1>1, <1>3, <1>6, <2>1, <2>3, <3>1 DEF RecordedCurrent, Live, Held
    <3>2. CASE folder.record # slots.file
      BY <1>1, <1>6, <2>1, <3>2 DEF Held, Indexed
    <3> QED BY <3>1, <3>2
  <2> QED BY <1>7, <1>9, <2>3, <2>4
<1> QED BY <1>4, <1>8, <1>9

\* A slot is emptied only when the vault gives its key back.
LEMMA RemoveRetiredInv ==
  ASSUME CustodyInv, CustodyTyped', NEW p \in Resolvers, RemoveRetired(p) PROVE CustodyInv'
<1> DEFINE s == run[p]
<1>1. /\ RunIsSound(s) /\ RunIsTyped(s) /\ s.pc = "remove" /\ FolderIsSound /\ slots \in Slots
      /\ Goto(p, Down) /\ UNCHANGED <<reach, folder, sealed, runs, clobbered>>
  BY TypedForms DEF CustodyInv, CustodyTyped, RemoveRetired
<1>2. s.job = "retire"
  BY <1>1 DEF RunIsTyped, JobIsKnown
<1>3. (s.src = "file" => slots.file = s.key) /\ (s.src = "legacy" => slots.legacy = s.key)
  BY <1>1, <1>2 DEF RunIsSound, RetiresFirst
<1>4. Indexed' = Indexed /\ IndexedHasCopy'
  BY <1>1 DEF Indexed, IndexedHasCopy, FolderIsSound
<1>5. Held \subseteq Held'
  <2>1. CASE s.key \notin Loaded
    BY <1>1, <1>4, <2>1 DEF RemoveRetired, Held, Indexed
  <2>2. CASE s.key \in Loaded
    <3> DEFINE file == IF s.src = "file" THEN NoKey ELSE slots.file
               legacy == IF s.src = "legacy" THEN NoKey ELSE slots.legacy
    <3>1. slots' = [slots EXCEPT !.file = file, !.legacy = legacy]
      BY <2>2 DEF RemoveRetired
    <3>2. /\ file = slots.file \/ slots.file = s.key
          /\ legacy = slots.legacy \/ slots.legacy = s.key
      BY <1>3
    <3> HIDE DEF file, legacy
    <3>3. slots'.keychain = slots.keychain /\ slots'.file = file /\ slots'.legacy = legacy
      BY <1>1, <3>1 DEF Slots
    <3>4. s.key \in Held'
      BY <1>1, <1>4, <2>2 DEF Held, Loaded, Indexed, IndexedHasCopy
    <3> QED BY <1>1, <1>4, <3>2, <3>3, <3>4 DEF Held, Indexed
  <2> QED BY <2>1, <2>2
<1>6. FolderIsSound'
  BY <1>1, <1>4, <1>5, HeldGrows
<1>7. run'[p] = Down
  BY <1>1, GotoValue
<1>8. RunIsSound(run[p])'
  BY <1>7, DownTyped DEF RunIsSound, KeyIsHeld, IsChosen, RecordIsRead, KeepsTheVault,
     CopyIsWritten, RetiresFirst, Seeding, Writes, Climbs
<1>9. Allowed(p, Down) /\ run[p].pc # "down" /\ run[p].job # "resolve"
  BY <1>1, <1>2, DownTyped DEF Allowed
<1> QED BY <1>1, <1>6, <1>8, <1>9, AloneInv

-----------------------------------------------------------------------------
(* The processes that use the key, and the environment.                      *)

LEMMA SealInv ==
  ASSUME CustodyInv, CustodyTyped', NEW p \in Resolvers, Seal(p) PROVE CustodyInv'
<1>1. /\ run[p].pc = "up" /\ sealed' = sealed \cup {run[p].key}
      /\ UNCHANGED <<slots, reach, folder, run, runs, clobbered>>
  BY DEF Seal
<1>2. RunIsSound(run[p]) /\ RunIsTyped(run[p]) /\ FolderIsSound
  BY DEF CustodyInv, CustodyTyped
<1>3. run[p].job = "resolve" /\ run[p].key \in Keys
  BY <1>1, <1>2 DEF RunIsTyped, JobIsKnown, KeyIsKnown
<1>4. run[p].key \in Held /\ run[p].key = folder.record /\ folder.record # NoKey
  BY <1>1, <1>2, <1>3, CustodyBounds DEF RunIsSound, KeyIsHeld, RecordIsRead
<1>5. /\ Held' = Held /\ Indexed' = Indexed /\ Persistent' = Persistent
      /\ RecordedCurrent' = RecordedCurrent /\ SlotKeys' = SlotKeys /\ Existing' = Existing
  BY <1>1 DEF Held, Indexed, Persistent, RecordedCurrent, Live, SlotKeys, Existing
<1>6. FolderIsSound'
  BY <1>1, <1>2, <1>4, <1>5
     DEF FolderIsSound, IndexedHasCopy, RecordIsHeld, NothingOrphaned, FirstSealed
<1>7. ASSUME NEW q \in Resolvers PROVE RunIsSound(run[q])'
  <2>1. run'[q] = run[q] /\ RunIsSound(run[q])
    BY <1>1 DEF CustodyInv
  <2>2. KeyIsHeld(run[q])' /\ KeepsTheVault(run[q])' /\ CopyIsWritten(run[q])'
    BY <1>1, <1>5, <2>1 DEF RunIsSound, KeyIsHeld, KeepsTheVault, CopyIsWritten
  <2>3. IsChosen(run[q])'
    BY <1>1, <1>4, <1>5, <2>1 DEF RunIsSound, IsChosen, FoundIn, Seeding
  <2>4. RecordIsRead(run[q])'
    BY <1>1, <1>4, <2>1 DEF RunIsSound, RecordIsRead, Writes, Climbs, Seeding
  <2>5. RetiresFirst(run[q])'
    BY <1>1, <1>5, <2>1 DEF RunIsSound, RetiresFirst
  <2> QED BY <2>2, <2>3, <2>4, <2>5 DEF RunIsSound
<1>8. CommandsAlone'
  BY <1>1 DEF CustodyInv, CommandsAlone
<1> QED BY <1>6, <1>7, <1>8 DEF CustodyInv

LEMMA SetEnvInv == ASSUME CustodyInv, CustodyTyped', SetEnv PROVE CustodyInv'
<1>1. PICK e \in EnvKeys \cup {NoKey} : slots' = [slots EXCEPT !.env = e]
  BY DEF SetEnv
<1>2. /\ UNCHANGED <<reach, folder, sealed, run, runs, clobbered>>
      /\ \A p \in Resolvers : run[p].pc = "down"
  BY DEF SetEnv
<1>3. /\ slots'.keychain = slots.keychain /\ slots'.file = slots.file
      /\ slots'.legacy = slots.legacy
  BY <1>1, TypedForms DEF CustodyInv, Slots
<1>4. Held' = Held /\ Indexed' = Indexed
  BY <1>2, <1>3 DEF Held, Indexed
<1>5. FolderIsSound'
  BY <1>2, <1>4 DEF CustodyInv, FolderIsSound, IndexedHasCopy, RecordIsHeld, NothingOrphaned,
                    FirstSealed
<1>6. \A q \in Resolvers : RunIsSound(run[q])'
  BY <1>2 DEF RunIsSound, KeyIsHeld, IsChosen, RecordIsRead, KeepsTheVault, CopyIsWritten,
              RetiresFirst, Seeding, Writes, Climbs
<1>7. CommandsAlone'
  BY <1>2 DEF CommandsAlone
<1> QED BY <1>5, <1>6, <1>7 DEF CustodyInv

LEMMA LockInv == ASSUME CustodyInv, CustodyTyped', Lock PROVE CustodyInv'
<1>1. /\ UNCHANGED <<slots, folder, sealed, run, runs, clobbered>>
      /\ \A p \in Resolvers : run[p].pc \in {"down", "up", "verify"}
  BY DEF Lock, Quiet
<1>2. Held' = Held /\ Indexed' = Indexed /\ SlotKeys' = SlotKeys /\ Existing' = Existing
  BY <1>1 DEF Held, Indexed, SlotKeys, Existing
<1>3. FolderIsSound'
  BY <1>1, <1>2 DEF CustodyInv, FolderIsSound, IndexedHasCopy, RecordIsHeld, NothingOrphaned,
                    FirstSealed
<1>4. ASSUME NEW q \in Resolvers PROVE RunIsSound(run[q])'
  <2>1. run'[q] = run[q] /\ RunIsSound(run[q]) /\ run[q].pc \in {"down", "up", "verify"}
    BY <1>1 DEF CustodyInv
  <2>2. KeyIsHeld(run[q])' /\ KeepsTheVault(run[q])' /\ CopyIsWritten(run[q])'
    BY <1>1, <1>2, <2>1 DEF RunIsSound, KeyIsHeld, KeepsTheVault, CopyIsWritten
  <2>3. IsChosen(run[q])'
    BY <1>1, <1>2, <2>1 DEF RunIsSound, IsChosen, Seeding
  <2>4. RecordIsRead(run[q])'
    BY <1>1, <2>1 DEF RunIsSound, RecordIsRead, Writes, Climbs, Seeding
  <2>5. RetiresFirst(run[q])'
    BY <2>1 DEF RetiresFirst
  <2> QED BY <2>2, <2>3, <2>4, <2>5 DEF RunIsSound
<1>5. CommandsAlone'
  BY <1>1 DEF CustodyInv, CommandsAlone
<1> QED BY <1>3, <1>4, <1>5 DEF CustodyInv

-----------------------------------------------------------------------------
(* The theorems.                                                             *)

LEMMA CustodyInitInv == CustodyInit => CustodyInv
<1> SUFFICES ASSUME CustodyInit PROVE CustodyInv
  OBVIOUS
<1>1. /\ run = [p \in Resolvers |-> Down]
      /\ folder = [record |-> NoKey, index |-> [k \in Keys |-> "none"], copies |-> {}]
      /\ sealed \in {{}} \cup {{k} : k \in {slots.keychain, slots.file, slots.legacy} \cap Keys}
  BY DEF CustodyInit
<1>2. Indexed = {} /\ folder.record = NoKey
  BY <1>1 DEF Indexed
<1>3. sealed \subseteq {slots.keychain, slots.file, slots.legacy} \cap Keys
      /\ \A a, b \in sealed : a = b
  BY <1>1
<1>4. FolderIsSound
  BY <1>2, <1>3 DEF FolderIsSound, IndexedHasCopy, RecordIsHeld, NothingOrphaned, Held, FirstSealed
<1>5. \A p \in Resolvers : run[p] = Down
  BY <1>1
<1>6. \A p \in Resolvers : RunIsSound(run[p])
  BY <1>5, DownTyped, DownIsSound
<1>7. CommandsAlone
  BY <1>5, DownTyped DEF CommandsAlone
<1> QED BY <1>4, <1>6, <1>7, CustodyInitTyped DEF CustodyInv

LEMMA CustodyNextInv ==
  ASSUME CustodyInv, MakersAgree, [CustodyNext]_custodyVars PROVE CustodyInv'
<1>1. CustodyTyped'
  BY CustodyNextTyped DEF CustodyInv
<1>2. CASE UNCHANGED custodyVars
  <2>1. UNCHANGED <<slots, reach, folder, sealed, clobbered, run>>
    BY <1>2 DEF custodyVars
  <2>2. FolderIsSound' /\ CommandsAlone'
    BY <2>1, FolderStays DEF CustodyInv, CommandsAlone
  <2>3. ASSUME NEW q \in Resolvers PROVE RunIsSound(run[q])'
    <3>1. run'[q] = run[q] /\ RunIsSound(run[q])
      BY <2>1 DEF CustodyInv
    <3> QED BY <2>1, <3>1, SoundStays
  <2> QED BY <1>1, <2>2, <2>3 DEF CustodyInv
<1>3. CASE CustodyNext
  BY <1>1, <1>3, LadderInv, LadderKeychainInv, SeedInv, SettleInv, ResolverStopInv, RetireInv, IndexInv,
     SkipInv, RetiredInv, RecordInv, CommandsInv, StoreCurrentInv, RemoveRetiredInv, SealInv,
     SetEnvInv, LockInv DEF CustodyNext
<1> QED BY <1>2, <1>3

\* The invariant gives what the run checks.
LEMMA SoundIsOpenable == CustodyInv => SealedStaysOpenable
<1> SUFFICES ASSUME CustodyInv PROVE SealedStaysOpenable
  OBVIOUS
<1>1. ASSUME NEW p \in Resolvers, run[p].pc = "up"
      PROVE  /\ run[p].key = folder.record
             /\ run[p].saw => Indexed \subseteq {run[p].key} \cup run[p].keep \cup SlotKeys
  <2>1. RunIsSound(run[p]) /\ RunIsTyped(run[p])
    BY DEF CustodyInv, CustodyTyped
  <2>2. run[p].job = "resolve"
    BY <1>1, <2>1 DEF RunIsTyped, JobIsKnown
  <2> QED BY <1>1, <2>1, <2>2 DEF RunIsSound, RecordIsRead, KeepsTheVault
<1>2. UpUsesRecord
  BY <1>1 DEF UpUsesRecord
<1>3. sealed \subseteq Held \cup clobbered /\ Held = SlotKeys \cup EnvKeys \cup Indexed
  BY HeldForms DEF CustodyInv, FolderIsSound, NothingOrphaned
<1>4. UpOpensAll
  BY <1>1, <1>3 DEF UpOpensAll, SlotKeys
<1> QED BY <1>2, <1>4 DEF CustodyInv, FolderIsSound, SealedStaysOpenable

\* What is sealed stays openable, whatever processes resolve at once, however they
\* and the commands stop: no replacement, removal or stop between two writes of
\* install_current, resolve or retire_with loses the key of a value. One condition
\* is left: that ladders that make a key at once do not make two.
THEOREM SealedIsNeverLost == CustodySpec /\ []MakersAgree => []SealedStaysOpenable
<1>1. CustodyInv /\ MakersAgree /\ [CustodyNext]_custodyVars => CustodyInv'
  BY CustodyNextInv
<1> QED BY <1>1, CustodyInitInv, SoundIsOpenable, PTL DEF CustodySpec

\* A folder that has been used makes no key: its ladders seed with what exists.
InUse == sealed # {} \/ folder.record # NoKey
InUseInv == InUse /\ \A p, q \in Resolvers :
                     Seeding(run[p]) /\ Seeding(run[q]) => run[p].key = run[q].key

LEMMA InUseStays ==
  ASSUME CustodyInv, InUse, [CustodyNext]_custodyVars PROVE InUse'
<1>1. /\ \A p \in Resolvers : RunIsTyped(run[p])
      /\ folder \in Folders
  BY TypedForms DEF CustodyInv, CustodyTyped
<1>2. sealed \subseteq sealed'
  <2>1. ASSUME NEW p \in Resolvers,
               \/ LadderEnv(p) \/ LadderKeychain(p) \/ LadderSeed(p) \/ LadderFile(p)
               \/ LadderRefuses(p) \/ StoreSeed(p) \/ StoreSeedFails(p) \/ VerifySeed(p)
               \/ Publish(p)
        PROVE  sealed' = sealed
    BY <2>1 DEF LadderEnv, LadderKeychain, LadderSeed, LadderFile, LadderRefuses, StoreSeed,
       StoreSeedFails, VerifySeed, Publish
  <2>2. ASSUME NEW p \in Resolvers,
               \/ Recover(p) \/ SettleRecorded(p) \/ SettleMismatch(p) \/ SettleFirst(p)
               \/ GiveUp(p) \/ RetireCopy(p) \/ RetireIndex(p) \/ RetireSkips(p) \/ Retired(p)
        PROVE  sealed' = sealed
    BY <2>2 DEF Recover, SettleRecorded, SettleMismatch, SettleFirst, GiveUp, RetireCopy,
       RetireIndex, RetireSkips, Retired
  <2>3. ASSUME NEW p \in Resolvers,
               \/ Record(p) \/ Adopt(p) \/ Import(p) \/ StoreCurrent(p) \/ RetireKey(p)
               \/ RemoveRetired(p) \/ Stop(p)
        PROVE  sealed' = sealed
    BY <2>3 DEF Record, Adopt, Import, StoreCurrent, RetireKey, RemoveRetired, Stop
  <2>4. (\E p \in Resolvers : Seal(p)) => sealed \subseteq sealed'
    BY DEF Seal
  <2>5. SetEnv \/ Lock \/ UNCHANGED custodyVars => sealed' = sealed
    BY DEF SetEnv, Lock, custodyVars
  <2> QED BY <2>1, <2>2, <2>3, <2>4, <2>5 DEF CustodyNext
<1>3. CASE \E p \in Resolvers : Record(p)
  <2>1. PICK p \in Resolvers : Record(p)
    BY <1>3
  <2>2. run[p].key \in Keys /\ folder'.record = run[p].key
    BY <1>1, <2>1 DEF Record, RunIsTyped, KeyIsKnown, Folders
  <2> QED BY <2>2, CustodyBounds DEF InUse
<1>4. CASE \E p \in Resolvers : RetireCopy(p) \/ RetireIndex(p)
  <2>1. folder'.record = folder.record
    BY <1>1, <1>4 DEF RetireCopy, RetireIndex, Folders
  <2> QED BY <1>2, <2>1 DEF InUse
<1>5. CASE UNCHANGED folder
  BY <1>2, <1>5 DEF InUse
<1>6. \/ \E p \in Resolvers : Record(p) \/ RetireCopy(p) \/ RetireIndex(p)
      \/ UNCHANGED folder
  <2>1. ASSUME NEW p \in Resolvers,
               \/ LadderEnv(p) \/ LadderKeychain(p) \/ LadderSeed(p) \/ LadderFile(p)
               \/ LadderRefuses(p) \/ StoreSeed(p) \/ StoreSeedFails(p) \/ VerifySeed(p)
               \/ Publish(p)
        PROVE  UNCHANGED folder
    BY <2>1 DEF LadderEnv, LadderKeychain, LadderSeed, LadderFile, LadderRefuses, StoreSeed,
       StoreSeedFails, VerifySeed, Publish
  <2>2. ASSUME NEW p \in Resolvers,
               \/ Recover(p) \/ SettleRecorded(p) \/ SettleMismatch(p) \/ SettleFirst(p)
               \/ GiveUp(p) \/ RetireSkips(p) \/ Retired(p)
        PROVE  UNCHANGED folder
    BY <2>2 DEF Recover, SettleRecorded, SettleMismatch, SettleFirst, GiveUp, RetireSkips, Retired
  <2>3. ASSUME NEW p \in Resolvers,
               \/ Adopt(p) \/ Import(p) \/ StoreCurrent(p) \/ RetireKey(p)
               \/ RemoveRetired(p) \/ Seal(p) \/ Stop(p)
        PROVE  UNCHANGED folder
    BY <2>3 DEF Adopt, Import, StoreCurrent, RetireKey, RemoveRetired, Seal, Stop
  <2>4. SetEnv \/ Lock \/ UNCHANGED custodyVars => UNCHANGED folder
    BY DEF SetEnv, Lock, custodyVars
  <2> QED BY <2>1, <2>2, <2>3, <2>4 DEF CustodyNext
<1> QED BY <1>3, <1>4, <1>5, <1>6

\* A ladder that goes on to seed has the key it had, or what exists.
SeedsAlike(p) ==
    Seeding(run[p])' => \/ Seeding(run[p]) /\ run'[p].key = run[p].key
                        \/ Existing \in Keys /\ run'[p].key = Existing

LEMMA GotoElsewhere ==
  ASSUME CustodyInv, NEW p \in Resolvers, NEW r, Goto(p, r), r.pc \notin {"store", "verify", "publish"}
  PROVE  SeedsAlike(p)
  BY GotoValue DEF SeedsAlike, Seeding

LEMMA LadderAlike ==
  ASSUME CustodyInv, InUse, NEW p \in Resolvers,
         LadderEnv(p) \/ LadderKeychain(p) \/ LadderSeed(p) \/ LadderFile(p) \/ LadderRefuses(p)
  PROVE  SeedsAlike(p)
<1>1. \A k \in Seeds : Existing \in Keys /\ k = Existing /\ k \in MaybeKey
  BY DEF InUse, MayGenerate, Seeds, MaybeKey
<1>2. ASSUME NEW key \in MaybeKey, NEW src \in {"env", "keychain", "file", "legacy", "none"},
             NEW pc \in {"store", "publish", "refused", "settle"},
             Goto(p, Resolving(key, src, pc)),
             pc \in {"store", "publish"} => Existing \in Keys /\ key = Existing
      PROVE  SeedsAlike(p)
  <2> DEFINE r == Resolving(key, src, pc)
  <2>1. r.pc = pc /\ r.key = key
    BY ResolvingForms DEF CustodyInv
  <2>2. Goto(p, r)
    BY <1>2
  <2> HIDE DEF r
  <2>3. run'[p] = r
    BY <2>2, GotoValue
  <2> QED BY <1>2, <2>1, <2>3 DEF SeedsAlike, Seeding
<1>3. Keys \subseteq MaybeKey /\ NoKey \in MaybeKey
  BY DEF MaybeKey
<1>4. CASE LadderEnv(p)
  BY <1>2, <1>3, <1>4 DEF LadderEnv
<1>5. CASE LadderKeychain(p)
  BY <1>2, <1>3, <1>5 DEF LadderKeychain
<1>6. CASE LadderSeed(p)
  BY <1>1, <1>2, <1>6 DEF LadderSeed
<1>7. CASE LadderFile(p)
  BY <1>1, <1>2, <1>3, <1>7 DEF LadderFile
<1>8. CASE LadderRefuses(p)
  BY <1>2, <1>3, <1>8 DEF LadderRefuses
<1> QED BY <1>4, <1>5, <1>6, <1>7, <1>8

LEMMA SeedAlike ==
  ASSUME CustodyInv, NEW p \in Resolvers,
         StoreSeed(p) \/ StoreSeedFails(p) \/ VerifySeed(p) \/ Publish(p)
  PROVE  SeedsAlike(p)
<1> DEFINE s == run[p]
<1>1. Seeding(s) /\ s \in Runs
  BY TypedForms DEF CustodyInv, StoreSeed, StoreSeedFails, VerifySeed, Publish, Seeding
<1> DEFINE stored == [s EXCEPT !.pc = "verify"]
           failed == [s EXCEPT !.src = "file", !.pc = IF AllowFile THEN "publish" ELSE "refused"]
           settled == [s EXCEPT !.pc = "settle"]
           refused == [s EXCEPT !.pc = "refused"]
           theirs == [s EXCEPT !.pc = "settle", !.key = slots.file]
<1>2. stored.key = s.key /\ failed.key = s.key
  BY <1>1 DEF Runs
<1>3. settled.pc = "settle" /\ refused.pc = "refused" /\ theirs.pc = "settle"
  BY <1>1 DEF Runs
<1>4. ASSUME NEW r, Goto(p, r), r.key = s.key PROVE SeedsAlike(p)
  BY <1>1, <1>4, GotoValue DEF SeedsAlike
<1>5. StoreSeed(p) => Goto(p, stored)
  BY DEF StoreSeed
<1>6. StoreSeedFails(p) => Goto(p, failed)
  BY DEF StoreSeedFails
<1>7. VerifySeed(p) => Goto(p, settled) \/ Goto(p, refused)
  BY DEF VerifySeed
<1>8. Publish(p) => Goto(p, settled) \/ Goto(p, refused) \/ Goto(p, theirs)
  BY DEF Publish
<1> HIDE DEF stored, failed, settled, refused, theirs
<1> QED BY <1>2, <1>3, <1>4, <1>5, <1>6, <1>7, <1>8, GotoElsewhere

LEMMA SettleAlike ==
  ASSUME CustodyInv, NEW p \in Resolvers,
         \/ Recover(p) \/ SettleRecorded(p) \/ SettleMismatch(p) \/ SettleFirst(p) \/ GiveUp(p)
         \/ Stop(p)
  PROVE  SeedsAlike(p)
<1>1. Candidates \subseteq Keys /\ CustodyTyped
  BY TypedForms DEF CustodyInv
<1>2. ASSUME NEW k \in Keys, Goto(p, Use(p, k)) PROVE SeedsAlike(p)
  <2>1. Use(p, k).pc = "up"
    BY <1>1, UseForms
  <2> QED BY <1>2, <2>1, GotoElsewhere
<1>3. run[p].pc = "settle" => run[p].key \in Keys
  BY SettleForms
<1>4. ASSUME NEW k \in Keys, NEW w \in BOOLEAN, run[p].pc = "settle", Goto(p, Replace(p, k, w))
      PROVE  SeedsAlike(p)
  <2>1. Replace(p, k, w).pc = "retire"
    BY <1>1, <1>3, <1>4, ReplaceForms
  <2> QED BY <1>4, <2>1, GotoElsewhere
<1>5. CASE Recover(p)
  BY <1>1, <1>2, <1>5 DEF Recover
<1>6. CASE SettleRecorded(p)
  BY <1>2, <1>3, <1>6 DEF SettleRecorded
<1>7. CASE SettleMismatch(p)
  BY <1>1, <1>4, <1>7 DEF SettleMismatch
<1>8. CASE SettleFirst(p)
  <2>1. run[p].pc = "settle"
    BY <1>8 DEF SettleFirst
  <2>2. CASE Goto(p, [Use(p, run[p].key) EXCEPT !.pc = "record"])
    <3> DEFINE u == Use(p, run[p].key)
               r == [u EXCEPT !.pc = "record"]
    <3>1. u \in Runs
      BY <1>1, <1>3, <2>1, UseForms
    <3> HIDE DEF u
    <3>2. r.pc = "record"
      BY <3>1 DEF Runs
    <3>3. Goto(p, r)
      BY <2>2 DEF u
    <3> HIDE DEF r
    <3> QED BY <3>2, <3>3, GotoElsewhere
  <2>3. ASSUME NEW k \in Candidates, Goto(p, Replace(p, k, TRUE)) PROVE SeedsAlike(p)
    BY <1>1, <1>4, <2>1, <2>3
  <2> QED BY <1>8, <2>2, <2>3 DEF SettleFirst
<1>9. CASE GiveUp(p) \/ Stop(p)
  BY <1>9, DownTyped, GotoElsewhere DEF GiveUp, Stop
<1> QED BY <1>5, <1>6, <1>7, <1>8, <1>9

LEMMA RestAlike ==
  ASSUME CustodyInv, NEW p \in Resolvers,
         \/ RetireCopy(p) \/ RetireIndex(p) \/ RetireSkips(p) \/ Retired(p) \/ Record(p)
         \/ Adopt(p) \/ Import(p) \/ StoreCurrent(p) \/ RetireKey(p) \/ RemoveRetired(p)
  PROVE  SeedsAlike(p)
<1>1. run[p] \in Runs /\ Candidates \subseteq Keys /\ CustodyTyped
  BY TypedForms DEF CustodyInv
<1>2. CASE RetireCopy(p)
  <2>1. PICK k \in run[p].todo, c \in Custodies :
          Goto(p, [run[p] EXCEPT !.pc = "index", !.one = k, !.place = c])
    BY <1>2 DEF RetireCopy
  <2> DEFINE r == [run[p] EXCEPT !.pc = "index", !.one = k, !.place = c]
  <2>2. r.pc = "index"
    BY <1>1 DEF Runs
  <2>3. Goto(p, r)
    BY <2>1
  <2> HIDE DEF r
  <2> QED BY <2>2, <2>3, GotoElsewhere
<1>3. CASE RetireIndex(p)
  <2> DEFINE r == [run[p] EXCEPT !.pc = "retire", !.todo = @ \ {run[p].one}]
  <2>1. r.pc = "retire"
    BY <1>1 DEF Runs
  <2>2. Goto(p, r)
    BY <1>3 DEF RetireIndex
  <2> HIDE DEF r
  <2> QED BY <2>1, <2>2, GotoElsewhere
<1>4. CASE RetireSkips(p)
  <2>1. PICK r : Goto(p, r) /\ r.pc \in {"retire", "down"}
    BY <1>1, <1>4, DownTyped DEF RetireSkips, Runs
  <2> QED BY <2>1, GotoElsewhere
<1>5. CASE Retired(p)
  <2> DEFINE pc == CASE run[p].job = "adopt" -> "install" [] run[p].job = "retire" -> "remove"
                     [] OTHER -> IF run[p].writes THEN "record" ELSE "up"
  <2>1. Goto(p, [run[p] EXCEPT !.pc = pc])
    BY <1>5 DEF Retired
  <2>2. pc \notin {"store", "verify", "publish"}
    OBVIOUS
  <2> HIDE DEF pc
  <2>3. [run[p] EXCEPT !.pc = pc].pc = pc
    BY <1>1 DEF Runs
  <2> QED BY <2>1, <2>2, <2>3, GotoElsewhere
<1>6. CASE Record(p)
  <2>1. PICK r : Goto(p, r) /\ r.pc \in {"up", "down"}
    BY <1>1, <1>6, DownTyped DEF Record, Runs
  <2> QED BY <2>1, GotoElsewhere
<1>7. ASSUME NEW k \in Keys, NEW extra \in SUBSET Keys, Install(p, k, extra) PROVE SeedsAlike(p)
  <2> DEFINE todo == (Persistent \cup RecordedCurrent \cup extra) \ {k}
             r == [Down EXCEPT !.pc = "retire", !.job = "adopt", !.key = k, !.todo = todo]
  <2>1. Goto(p, r) /\ r.pc = "retire"
    BY <1>1, <1>7, InstallForms DEF Install
  <2> HIDE DEF r
  <2> QED BY <2>1, GotoElsewhere
<1>8. CASE Adopt(p)
  BY <1>1, <1>7, <1>8 DEF Adopt
<1>9. CASE Import(p)
  <2>1. PICK k \in Keys : \E extra \in SUBSET (Keys \ {k}) :
          \/ Goto(p, [Down EXCEPT !.pc = "retire", !.job = "retire", !.todo = extra])
          \/ Install(p, k, extra)
    BY <1>9 DEF Import
  <2>2. PICK extra \in SUBSET (Keys \ {k}) :
          \/ Goto(p, [Down EXCEPT !.pc = "retire", !.job = "retire", !.todo = extra])
          \/ Install(p, k, extra)
    BY <2>1
  <2>3. extra \in SUBSET Keys
    OBVIOUS
  <2>4. [Down EXCEPT !.pc = "retire", !.job = "retire", !.todo = extra].pc = "retire"
    BY <1>1, <2>3, ImportForms
  <2>5. CASE Goto(p, [Down EXCEPT !.pc = "retire", !.job = "retire", !.todo = extra])
    BY <2>4, <2>5, GotoElsewhere
  <2> QED BY <1>7, <2>2, <2>3, <2>5
<1>10. CASE StoreCurrent(p)
  <2>1. PICK r : Goto(p, r) /\ r.pc = "record"
    BY <1>1, <1>10 DEF StoreCurrent, Runs
  <2> QED BY <2>1, GotoElsewhere
<1>11. CASE RetireKey(p)
  <2>1. PICK k \in Live :
          Goto(p, [Down EXCEPT !.pc = "retire", !.job = "retire", !.key = k,
                               !.src = FirstSlot(k), !.todo = {k}])
    BY <1>11 DEF RetireKey
  <2>2. [Down EXCEPT !.pc = "retire", !.job = "retire", !.key = k,
                     !.src = FirstSlot(k), !.todo = {k}].pc = "retire"
    BY <1>1, RetireKeyForms
  <2> QED BY <2>1, <2>2, GotoElsewhere
<1>12. CASE RemoveRetired(p)
  BY <1>12, DownTyped, GotoElsewhere DEF RemoveRetired
<1> QED BY <1>2, <1>3, <1>4, <1>5, <1>6, <1>8, <1>9, <1>10, <1>11, <1>12

\* A new ladder has the existing key, and so has each that is on its way.
LEMMA UsedSeedersAgree ==
  ASSUME CustodyInv, InUseInv, NEW p \in Resolvers, SeedsAlike(p), InUse',
         \A q \in Resolvers : q # p => run'[q] = run[q]
  PROVE  InUseInv'
<1> SUFFICES ASSUME NEW a \in Resolvers, NEW b \in Resolvers,
                    Seeding(run'[a]), Seeding(run'[b])
             PROVE  run'[a].key = run'[b].key
  BY DEF InUseInv
<1>1. ASSUME NEW q \in Resolvers, Seeding(run'[q])
      PROVE  \/ Seeding(run[q]) /\ run'[q].key = run[q].key
             \/ Existing \in Keys /\ run'[q].key = Existing
  BY <1>1 DEF SeedsAlike
<1>2. ASSUME NEW q \in Resolvers, Seeding(run[q]), Existing \in Keys
      PROVE  run[q].key = Existing
  BY <1>2 DEF CustodyInv, RunIsSound, IsChosen
<1> QED BY <1>1, <1>2 DEF InUseInv

LEMMA InUseStep ==
  ASSUME CustodyInv, InUseInv, [CustodyNext]_custodyVars PROVE InUseInv'
<1>1. InUse /\ InUse'
  BY InUseStays DEF InUseInv
<1>2. ASSUME NEW p \in Resolvers, SeedsAlike(p), NEW r, Goto(p, r) PROVE InUseInv'
  BY <1>1, <1>2, GotoValue, UsedSeedersAgree
<1>3. ASSUME UNCHANGED run PROVE InUseInv'
  BY <1>1, <1>3 DEF InUseInv
<1>4. ASSUME NEW p \in Resolvers,
             \/ LadderEnv(p) \/ LadderKeychain(p) \/ LadderSeed(p) \/ LadderFile(p)
             \/ LadderRefuses(p)
      PROVE  InUseInv'
  <2>1. \E r : Goto(p, r)
    BY <1>4 DEF LadderEnv, LadderKeychain, LadderSeed, LadderFile, LadderRefuses
  <2> QED BY <1>1, <1>2, <1>4, <2>1, LadderAlike
<1>5. ASSUME NEW p \in Resolvers,
             StoreSeed(p) \/ StoreSeedFails(p) \/ VerifySeed(p) \/ Publish(p)
      PROVE  InUseInv'
  <2>1. \E r : Goto(p, r)
    BY <1>5 DEF StoreSeed, StoreSeedFails, VerifySeed, Publish
  <2> QED BY <1>2, <1>5, <2>1, SeedAlike
<1>6. ASSUME NEW p \in Resolvers,
             \/ Recover(p) \/ SettleRecorded(p) \/ SettleMismatch(p) \/ SettleFirst(p)
             \/ GiveUp(p) \/ Stop(p)
      PROVE  InUseInv'
  <2>1. \E r : Goto(p, r)
    BY <1>6 DEF Recover, SettleRecorded, SettleMismatch, SettleFirst, GiveUp, Stop
  <2> QED BY <1>2, <1>6, <2>1, SettleAlike
<1>7. ASSUME NEW p \in Resolvers,
             \/ RetireCopy(p) \/ RetireIndex(p) \/ RetireSkips(p) \/ Retired(p) \/ Record(p)
             \/ Adopt(p) \/ Import(p) \/ StoreCurrent(p) \/ RetireKey(p) \/ RemoveRetired(p)
      PROVE  InUseInv'
  <2>1. \E r : Goto(p, r)
    BY <1>7 DEF RetireCopy, RetireIndex, RetireSkips, Retired, Record, Adopt, Import, Install,
       StoreCurrent, RetireKey, RemoveRetired
  <2> QED BY <1>2, <1>7, <2>1, RestAlike
<1>8. (\E p \in Resolvers : Seal(p)) \/ SetEnv \/ Lock \/ UNCHANGED custodyVars => UNCHANGED run
  BY DEF Seal, SetEnv, Lock, custodyVars
<1> QED BY <1>3, <1>4, <1>5, <1>6, <1>7, <1>8 DEF CustodyNext

\* The same without a hypothesis on the makers, for a folder that is in use: what
\* is sealed in it before this version's first start stays openable, whatever
\* number of processes climb the ladder together. None of them may generate, so
\* that those who seed an empty keychain seed it with the one key there is.
THEOREM UsedFolderIsNeverLost == CustodySpec /\ sealed # {} => []SealedStaysOpenable
<1>1. CustodyInit /\ sealed # {} => CustodyInv /\ InUseInv
  <2> SUFFICES ASSUME CustodyInit, sealed # {} PROVE InUseInv
    BY CustodyInitInv
  <2>1. \A p \in Resolvers : ~Seeding(run[p])
    BY DownTyped DEF CustodyInit, Seeding
  <2> QED BY <2>1 DEF InUseInv, InUse
<1>2. CustodyInv /\ InUseInv => MakersAgree
  BY DEF InUseInv, MakersAgree, Makes
<1>3. CustodyInv /\ InUseInv /\ [CustodyNext]_custodyVars => (CustodyInv /\ InUseInv)'
  BY <1>2, CustodyNextInv, InUseStep
<1> QED BY <1>1, <1>3, SoundIsOpenable, PTL DEF CustodySpec

(*****************************************************************************)
(* PluginSecrets: a start that comes up opens every secret.                  *)
(*****************************************************************************)

OldKeys == {OldMailKey(m) : m \in Masters} \cup {NoSealKey}
SecretValue == [form : {"none", PlainForm, MasterForm, PluginForm},
                key : SealKeys \cup OldKeys, place : {NoPlace}, text : SecretTexts \cup {NoText}]
MailCipher == [form : {PluginForm}, key : SealKeys \cup {NoSealKey}, retired : SUBSET SealKeys]
StartState == [at : {"down", "create", "fill", "pin", "open", "reconcile", "up"},
               cipher : MailCipher, old : OldKeys,
               content : {"none", "compat", "unhealthy", "sealing"}]

SecretsShape ==
    /\ rootFile \in {NoFile, Stub, OwnRoot}
    /\ pinned \in SealKeys \cup {NoSealKey} /\ recorded \in SealKeys \cup {NoSealKey}
    /\ secrets \in [SecretSlots -> SecretValue]
    /\ lastText \in [SecretSlots -> SecretTexts \cup {NoText}]
    /\ process \in StartState
    /\ spent_ps \in [starts : 0..MaxStartups, writes : 0..MaxSecretWrites]
\* A stored secret holds the text it was last given, in whatever form.
HoldsLastText ==
    \A s \in HeldSecrets : secrets[s].text = lastText[s] /\ secrets[s].form # "none"
\* Once up with a key, every secret is of the current form under a key it holds.
UpHoldsItsKeys ==
    process.at = "up" /\ CanSeal =>
        \A s \in HeldSecrets : IsCurrent(secrets[s]) /\ secrets[s].key \in KeysHeld(process.cipher)

SecretsInv == SecretsShape /\ HoldsLastText /\ UpHoldsItsKeys

LEMMA SecretsInvTyped == SecretsInv => SecretsTypeOK
<1> SUFFICES ASSUME SecretsInv PROVE SecretsTypeOK
  OBVIOUS
<1> USE DEF SecretsInv, SecretsShape
<1>1. ASSUME NEW s \in SecretSlots
      PROVE  /\ secrets[s].form \in {"none", PlainForm, MasterForm, PluginForm}
             /\ secrets[s].text \in SecretTexts \cup {NoText}
             /\ lastText[s] \in SecretTexts \cup {NoText}
  BY DEF SecretValue
<1>2. process.at \in {"down", "create", "fill", "pin", "open", "reconcile", "up"}
  BY DEF StartState
<1>3. process.cipher.key \in SealKeys \cup {NoSealKey}
  BY DEF StartState, MailCipher
<1> QED BY <1>1, <1>2, <1>3 DEF SecretsTypeOK

LEMMA CurrentOpens ==
    ASSUME NEW v, IsCurrent(v)
    PROVE  OpenSecret(v) = Decrypted(process.cipher, v, NoPlace)
<1>1. v.form = "encp:v1"
  BY DEF IsCurrent, PluginForm
<1>2. OpenSecret(v) = PluginOpen(process.cipher, v)
  BY <1>1 DEF OpenSecret, PluginForm, MasterForm
<1>3. PluginOpen(process.cipher, v) = Decrypted(process.cipher, v, NoPlace)
  BY <1>1 DEF PluginOpen, PluginForm, MasterForm
<1> QED BY <1>2, <1>3

LEMMA SecretsInvSuffices == SecretsInv => SecretsOpen
<1> SUFFICES ASSUME SecretsInv, process.at = "up", CanSeal, NEW s \in HeldSecrets
             PROVE  /\ IsCurrent(secrets[s])
                    /\ OpenSecret(secrets[s])
                         = OpenedAs(lastText[s], secrets[s].key # process.cipher.key)
  BY DEF SecretsOpen
<1>1. IsCurrent(secrets[s]) /\ secrets[s].key \in KeysHeld(process.cipher)
      /\ secrets[s].text = lastText[s]
  BY DEF SecretsInv, UpHoldsItsKeys, HoldsLastText
<1>2. secrets[s].place = NoPlace
  BY DEF SecretsInv, SecretsShape, SecretValue, HeldSecrets
<1>3. OpenSecret(secrets[s]) = Decrypted(process.cipher, secrets[s], NoPlace)
  BY <1>1, CurrentOpens
<1> QED BY <1>1, <1>2, <1>3 DEF Decrypted

LEMMA SecretsInitInv == SecretsInit => SecretsInv
<1> SUFFICES ASSUME SecretsInit PROVE SecretsInv
  OBVIOUS
<1>1. PICK m \in Masters, old \in [SecretSlots -> {"none", "plain", "sealed"}], t \in SecretTexts :
         /\ secrets = [s \in SecretSlots |->
              CASE old[s] = "plain" -> Plaintext(t)
                [] old[s] = "sealed" -> Envelope(MasterForm, OldMailKey(m), NoPlace, t)
                [] OTHER -> Empty]
         /\ lastText = [s \in SecretSlots |-> IF old[s] = "none" THEN NoText ELSE t]
  BY DEF SecretsInit
<1>2. /\ Plaintext(t) \in SecretValue /\ Empty \in SecretValue
      /\ Envelope(MasterForm, OldMailKey(m), NoPlace, t) \in SecretValue
  BY DEF Plaintext, Empty, Envelope, SecretValue, OldKeys, PlainForm, MasterForm, PluginForm
<1>3. secrets \in [SecretSlots -> SecretValue] /\ lastText \in [SecretSlots -> SecretTexts \cup {NoText}]
  <2>1. ASSUME NEW s \in SecretSlots PROVE secrets[s] \in SecretValue
    <3>1. old[s] \in {"none", "plain", "sealed"}
      OBVIOUS
    <3> HIDE DEF SecretValue, Plaintext, Empty, Envelope
    <3> QED BY <1>1, <1>2, <3>1
  <2> QED BY <1>1, <2>1
<1>4. process \in StartState
  BY DEF SecretsInit, Stopped, CipherOf, StartState, MailCipher, OldKeys
<1>5. SecretsShape
  BY <1>3, <1>4, SecretsAssumption DEF SecretsInit, SecretsShape
<1>6. HoldsLastText
  <2> SUFFICES ASSUME NEW s \in SecretSlots, secrets[s] # Empty
               PROVE  secrets[s].text = lastText[s] /\ secrets[s].form # "none"
    BY DEF HoldsLastText, HeldSecrets
  <2>1. old[s] \in {"none", "plain", "sealed"}
    OBVIOUS
  <2> QED BY <1>1, <2>1 DEF Plaintext, Envelope, Empty, PlainForm, MasterForm
<1>7. UpHoldsItsKeys
  BY DEF SecretsInit, Stopped, UpHoldsItsKeys
<1> QED BY <1>5, <1>6, <1>7 DEF SecretsInv

\* A step that changes no secret and does not come up.
LEMMA NotUpKeepsSecrets ==
    ASSUME SecretsInv, UNCHANGED <<secrets, lastText>>, SecretsShape', process'.at # "up"
    PROVE  SecretsInv'
  BY DEF SecretsInv, HoldsLastText, HeldSecrets, UpHoldsItsKeys

LEMMA StartsInv ==
    ASSUME SecretsInv, NEW e \in Environments,
           StartDelivered(e) \/ StartMaster(e) \/ StartCompat(e) \/ StartOwnRoot(e)
    PROVE  SecretsInv'
<1>1. OldReader(e) \in OldKeys /\ NoSealKey \in OldKeys
  BY DEF Environments, OldReader, OldKeys
<1>2. \A m \in Masters \cup {OwnRoot} : Subkey(m) \in SealKeys
  BY DEF SealKeys, SubkeysOf
<1>3. SubkeysOf(e.retired) \subseteq SealKeys
  BY DEF Environments, SealKeys, SubkeysOf
<1>4. PICK at \in {"create", "pin", "open"}, key \in SealKeys \cup {NoSealKey},
           retired \in SUBSET SealKeys, old \in OldKeys :
         Starting(Keyed(at, key, retired, old))
  <2>1. CASE StartDelivered(e)
    <3>1. e.delivered \in Masters
      BY <2>1 DEF StartDelivered, Delivers, Environments
    <3> QED BY <1>1, <1>2, <1>3, <2>1, <3>1 DEF StartDelivered
  <2>2. CASE StartMaster(e)
    <3>1. e.master \in Masters
      BY <2>2 DEF StartMaster, Environments
    <3> QED BY <1>1, <1>2, <2>2, <3>1 DEF StartMaster
  <2>3. CASE StartCompat(e)
    BY <1>1, <2>3 DEF StartCompat
  <2>4. CASE StartOwnRoot(e)
    BY <1>1, <1>2, <2>4 DEF StartOwnRoot
  <2> QED BY <2>1, <2>2, <2>3, <2>4
<1>5. Keyed(at, key, retired, old) \in StartState /\ Keyed(at, key, retired, old).at # "up"
  BY DEF Keyed, CipherOf, StartState, MailCipher
<1>6. process' = Keyed(at, key, retired, old) /\ StorageSame
      /\ spent_ps' = [spent_ps EXCEPT !.starts = @ + 1] /\ spent_ps.starts < MaxStartups
  BY <1>4 DEF Starting
<1>7. spent_ps' \in [starts : 0..MaxStartups, writes : 0..MaxSecretWrites]
  BY <1>6, SecretsAssumption DEF SecretsInv, SecretsShape
<1>8. SecretsShape'
  BY <1>5, <1>6, <1>7 DEF SecretsInv, SecretsShape, StorageSame
<1> QED BY <1>5, <1>6, <1>8, NotUpKeepsSecrets DEF StorageSame

\* The process moves to `at', or stops.
LEMMA ContinueOrRefuse ==
    ASSUME SecretsInv, NEW at \in {"fill", "pin", "open", "up"}, Continue(at) \/ Refuse
    PROVE  process' \in StartState /\ process'.at \in {at, "down"}
<1>1. process \in StartState /\ Stopped \in StartState /\ Stopped.at = "down"
  BY DEF SecretsInv, SecretsShape, Stopped, CipherOf, StartState, MailCipher, OldKeys
<1> QED BY <1>1 DEF Continue, Refuse, StartState

LEMMA BeforeOpenInv ==
    ASSUME SecretsInv, CreateRoot \/ FillRoot \/ PinKcv \/ StopProcess PROVE SecretsInv'
<1>1. SecretsShape /\ process.cipher.key \in SealKeys \cup {NoSealKey}
  BY DEF SecretsInv, SecretsShape, StartState, MailCipher
<1>2. PICK at \in {"fill", "pin", "open"} : Continue(at) \/ Refuse
  BY DEF CreateRoot, FillRoot, PinKcv, StopProcess
<1>3. process' \in StartState /\ process'.at # "up"
  BY <1>2, ContinueOrRefuse
<1>4. UNCHANGED <<recorded, secrets, lastText, spent_ps>>
  BY DEF CreateRoot, FillRoot, PinKcv, StopProcess, StorageSame
<1>5. rootFile' \in {NoFile, Stub, OwnRoot} /\ pinned' \in SealKeys \cup {NoSealKey}
  BY <1>1 DEF SecretsShape, CreateRoot, FillRoot, PinKcv, StopProcess, StorageSame
<1>6. SecretsShape'
  BY <1>1, <1>3, <1>4, <1>5 DEF SecretsShape
<1> QED BY <1>3, <1>4, <1>6, NotUpKeepsSecrets

LEMMA OpenMailDbInv == ASSUME SecretsInv, OpenMailDb PROVE SecretsInv'
<1>1. SecretsShape /\ process.cipher.key \in SealKeys \cup {NoSealKey}
  BY DEF SecretsInv, SecretsShape, StartState, MailCipher
<1>2. recorded' \in SealKeys \cup {NoSealKey}
      /\ \/ Refuse
         \/ \E content \in {"compat", "unhealthy", "sealing"} :
              process' = [process EXCEPT !.at = "reconcile", !.content = content]
  <2>1. CASE ~CanSeal
    BY <1>1, <2>1 DEF OpenMailDb, SecretsShape
  <2>2. CASE CanSeal /\ recorded \in {NoSealKey} \cup KeysHeld(process.cipher)
    BY <1>1, <2>2 DEF OpenMailDb, SecretsShape
  <2>3. CASE CanSeal /\ recorded \notin {NoSealKey} \cup KeysHeld(process.cipher)
    BY <1>1, <2>3 DEF OpenMailDb, SecretsShape
  <2> QED BY <2>1, <2>2, <2>3
<1>3. process' \in StartState /\ process'.at # "up"
  <2>1. CASE Refuse
    BY <2>1, ContinueOrRefuse
  <2>2. ASSUME NEW content \in {"compat", "unhealthy", "sealing"},
               process' = [process EXCEPT !.at = "reconcile", !.content = content]
        PROVE  process' \in StartState /\ process'.at # "up"
    BY <1>1, <2>2 DEF SecretsShape, StartState
  <2> QED BY <1>2, <2>1, <2>2
<1>4. SecretsShape'
  BY <1>1, <1>2, <1>3 DEF OpenMailDb, SecretsShape
<1> QED BY <1>3, <1>4, NotUpKeepsSecrets DEF OpenMailDb

\* What a secret that opens is resealed to: its own text, under the current key.
LEMMA ReconciledKeepsText ==
    ASSUME SecretsInv, CanSeal, NEW s \in HeldSecrets, OpenSecret(secrets[s]).ok
    PROVE  LET v == Reconciled(secrets[s]) IN
           /\ v \in SecretValue /\ v # Empty
           /\ v.text = lastText[s] /\ IsCurrent(v) /\ v.key \in KeysHeld(process.cipher)
<1> DEFINE v == secrets[s]
<1>1. v \in SecretValue /\ v.text = lastText[s] /\ v.form # "none" /\ v.place = NoPlace
  BY DEF SecretsInv, SecretsShape, SecretValue, HoldsLastText, HeldSecrets
<1>2. process.cipher \in MailCipher /\ process.old \in OldKeys
  BY DEF SecretsInv, SecretsShape, StartState
<1>3. CASE IsCurrent(v)
  <2>1. v.key \in KeysHeld(process.cipher)
    BY <1>3, CurrentOpens DEF Decrypted, Refused
  <2>2. v # Empty
    BY <1>1 DEF Empty, Envelope
  <2> QED BY <1>1, <1>3, <2>1, <2>2 DEF Reconciled
<1>4. CASE ~IsCurrent(v)
  <2>1. OpenSecret(v).text = v.text
    <3>1. CASE v.form = MasterForm /\ process.old # NoSealKey
      BY <3>1 DEF OpenSecret, FieldOpen, Decrypted, Refused, OpenedAs, PluginForm, MasterForm
    <3>2. CASE v.form = MasterForm /\ process.old = NoSealKey
      BY <3>2 DEF OpenSecret, Refused, LooksSealed, Sealed, PluginForm, MasterForm
    <3>3. CASE v.form = PlainForm
      BY <3>3 DEF OpenSecret, LooksSealed, Sealed, Verbatim, OpenedAs, PluginForm, MasterForm,
                  TenantForm, ComponentForm, ContentForm, CloudForm, PlainForm
    <3> QED BY <1>1, <1>4, <3>1, <3>2, <3>3 DEF SecretValue, IsCurrent
  <2>2. Reconciled(v) = Envelope(PluginForm, process.cipher.key, NoPlace, lastText[s])
    BY <1>1, <1>2, <1>4, <2>1 DEF Reconciled, SealWith, MailCipher
  <2>3. process.cipher.key \in SealKeys
    BY <1>2 DEF CanSeal, MailCipher
  <2>4. lastText[s] \in SecretTexts \cup {NoText}
    BY DEF SecretsInv, SecretsShape, HeldSecrets
  <2> QED BY <2>2, <2>3, <2>4 DEF Envelope, SecretValue, Empty, IsCurrent, KeysHeld, PluginForm
<1> QED BY <1>3, <1>4

LEMMA ReconcileInv == ASSUME SecretsInv, Reconcile PROVE SecretsInv'
<1>1. SecretsShape /\ HoldsLastText
  BY DEF SecretsInv
<1>2. UNCHANGED <<rootFile, pinned, recorded, lastText, spent_ps>>
  BY DEF Reconcile
<1>3. process' \in StartState /\ (Continue("up") \/ Refuse)
  BY ContinueOrRefuse DEF Reconcile
<1>4. CASE Refuse /\ secrets' = secrets
  <2>1. process'.at # "up"
    BY <1>4 DEF Refuse, Stopped
  <2>2. SecretsShape'
    BY <1>1, <1>2, <1>3, <1>4 DEF SecretsShape
  <2> QED BY <1>2, <1>4, <2>1, <2>2, NotUpKeepsSecrets
<1>5. CASE ~CanSeal /\ Continue("up") /\ secrets' = [s \in SecretSlots |-> secrets[s]]
  <2>1. secrets' = secrets
    BY <1>1, <1>5 DEF SecretsShape
  <2>2. SecretsShape'
    BY <1>1, <1>2, <1>3, <2>1 DEF SecretsShape
  <2>3. ~CanSeal'
    BY <1>1, <1>5 DEF CanSeal, Continue, SecretsShape, StartState
  <2> QED BY <1>1, <1>2, <2>1, <2>2, <2>3 DEF SecretsInv, HoldsLastText, HeldSecrets, UpHoldsItsKeys
<1>6. CASE /\ CanSeal /\ \A s \in HeldSecrets : OpenSecret(secrets[s]).ok
           /\ Continue("up")
           /\ secrets' = [s \in SecretSlots |->
                 IF s \in HeldSecrets THEN Reconciled(secrets[s]) ELSE secrets[s]]
  <2>1. ASSUME NEW s \in SecretSlots
        PROVE  /\ secrets'[s] \in SecretValue
               /\ s \in HeldSecrets <=> secrets'[s] # Empty
               /\ s \in HeldSecrets => /\ secrets'[s].text = lastText[s] /\ IsCurrent(secrets'[s])
                                       /\ secrets'[s].key \in KeysHeld(process.cipher)
    <3>1. CASE s \in HeldSecrets
      BY <1>6, <3>1, ReconciledKeepsText
    <3>2. CASE s \notin HeldSecrets
      BY <1>1, <1>6, <3>2 DEF HeldSecrets, SecretsShape
    <3> QED BY <3>1, <3>2
  <2>2. secrets' \in [SecretSlots -> SecretValue]
    BY <1>6, <2>1
  <2>3. SecretsShape'
    BY <1>1, <1>2, <1>3, <2>2 DEF SecretsShape
  <2>4. HoldsLastText'
    BY <1>2, <2>1 DEF HoldsLastText, HeldSecrets, IsCurrent, PluginForm
  <2>5. process'.cipher = process.cipher
    BY <1>1, <1>6 DEF Continue, SecretsShape, StartState
  <2>6. UpHoldsItsKeys'
    BY <2>1, <2>5 DEF UpHoldsItsKeys, HeldSecrets
  <2> QED BY <2>3, <2>4, <2>6 DEF SecretsInv
<1> QED BY <1>4, <1>5, <1>6 DEF Reconcile

LEMMA RequestsInv ==
    ASSUME SecretsInv, NEW s \in SecretSlots,
           DeleteSecret(s) \/ \E t \in SecretTexts : WriteSecret(s, t)
    PROVE  SecretsInv'
<1>1. SecretsShape /\ HoldsLastText /\ UpHoldsItsKeys
  BY DEF SecretsInv
<1>2. UNCHANGED <<rootFile, pinned, recorded, process>>
  BY DEF DeleteSecret, WriteSecret
<1>3. PICK v \in SecretValue, t \in SecretTexts \cup {NoText} :
        /\ secrets' = [secrets EXCEPT ![s] = v] /\ lastText' = [lastText EXCEPT ![s] = t]
        /\ v = Empty \/ (v.text = t /\ v.form = PluginForm /\ CanSeal
                         /\ v.key \in KeysHeld(process.cipher))
  <2>1. CASE DeleteSecret(s)
    <3>1. Empty \in SecretValue
      BY DEF Empty, Envelope, SecretValue, OldKeys
    <3> QED BY <2>1, <3>1 DEF DeleteSecret
  <2>2. ASSUME NEW t \in SecretTexts, WriteSecret(s, t)
        PROVE  LET v == SealWith(process.cipher, t) IN
               /\ v \in SecretValue /\ v.text = t /\ v.form = PluginForm
               /\ v.key \in KeysHeld(process.cipher) /\ CanSeal
               /\ secrets' = [secrets EXCEPT ![s] = v] /\ lastText' = [lastText EXCEPT ![s] = t]
    <3>1. process.cipher \in MailCipher
      BY <1>1 DEF SecretsShape, StartState
    <3>2. process.cipher.key \in SealKeys /\ process.cipher.form = PluginForm /\ CanSeal
      BY <2>2, <3>1 DEF WriteSecret, CanSeal, MailCipher
    <3> QED BY <2>2, <3>2 DEF WriteSecret, SealWith, Envelope, SecretValue, KeysHeld
  <2> QED BY <2>1, <2>2
<1>4. SecretsShape'
  <2>1. spent_ps' \in [starts : 0..MaxStartups, writes : 0..MaxSecretWrites]
    BY <1>1, SecretsAssumption DEF DeleteSecret, WriteSecret, SecretsShape
  <2> QED BY <1>1, <1>2, <1>3, <2>1 DEF SecretsShape
<1>5. /\ secrets'[s] = v /\ lastText'[s] = t
      /\ \A q \in SecretSlots \ {s} : secrets'[q] = secrets[q] /\ lastText'[q] = lastText[q]
  BY <1>1, <1>3 DEF SecretsShape
<1>6. HoldsLastText'
  BY <1>1, <1>3, <1>5 DEF HoldsLastText, HeldSecrets, PluginForm
<1>7. UpHoldsItsKeys'
  BY <1>1, <1>2, <1>3, <1>5 DEF UpHoldsItsKeys, HeldSecrets, IsCurrent, CanSeal
<1> QED BY <1>4, <1>6, <1>7 DEF SecretsInv

LEMMA SecretsStepInv == SecretsInv /\ [SecretsNext]_secretsVars => SecretsInv'
<1> SUFFICES ASSUME SecretsInv, [SecretsNext]_secretsVars PROVE SecretsInv'
  OBVIOUS
<1>1. CASE RecordMoves
  <2>1. process.cipher.key \in SealKeys \cup {NoSealKey}
    BY DEF SecretsInv, SecretsShape, StartState, MailCipher
  <2> QED BY <1>1, <2>1 DEF RecordMoves, SecretsInv, SecretsShape, HoldsLastText, UpHoldsItsKeys,
                            HeldSecrets, CanSeal
<1>2. CASE UNCHANGED secretsVars
  BY <1>2 DEF secretsVars, SecretsInv, SecretsShape, HoldsLastText, UpHoldsItsKeys, HeldSecrets, CanSeal
<1> QED BY <1>1, <1>2, StartsInv, BeforeOpenInv, OpenMailDbInv, ReconcileInv, RequestsInv DEF SecretsNext

LEMMA SecretsInductive == SecretsSpec => []SecretsInv
  BY SecretsInitInv, SecretsStepInv, PTL DEF SecretsSpec

\* Every variable of a start and of the stored secrets keeps its type.
THEOREM SecretsTypeCorrect == SecretsSpec => []SecretsTypeOK
  BY SecretsInvTyped, SecretsInductive, PTL

\* A process that came up with a key opens every stored secret to the text it was
\* last given, whatever keys, retired keys and exits came before
\* (MailStore::reconcile_sealed_secrets).
THEOREM SecretsAlwaysOpen == SecretsSpec => []SecretsOpen
  BY SecretsInvSuffices, SecretsInductive, PTL

(*****************************************************************************)
(* SharedStore: every process that opens a row opens the text it was given.  *)
(*****************************************************************************)

Escaped(t) == Envelope(EscapedForm, NoSealKey, NoPlace, t)
SealedRow(r, t) == Envelope(ContentForm, StoreKey(owner, "store"), r, t)

RowValue == [form : {"none", PlainForm, EscapedForm, ContentForm},
             key : {StoreKey(KeyHeldBy[p], "store") : p \in Openers} \cup {NoSealKey},
             place : RowIds \cup {NoPlace}, text : RowTexts \cup {NoText}]
SharedShape ==
    /\ owner \in {KeyHeldBy[p] : p \in Openers} \cup {NoSealKey}
    /\ item \in {"absent", "pending", "sealed"} /\ cursor \in 0..NumRows
    /\ rowsOf \in [RowIds -> RowValue]
    /\ rowText \in [RowIds -> RowTexts \cup {NoText}]
    /\ opener \in [Openers -> [at : {"down", "reopen", "migrate", "up"}, fresh : BOOLEAN,
                               seal : {"none", "compat", "sealing", "unhealthy"}]]
    /\ late \subseteq RowIds
    /\ usedOf \in [opens : 0..MaxOpens, writes : 0..MaxRowWrites]
\* A row is its text in plaintext, escaped, or sealed under the recorded key.
RowsHoldTheirText ==
    \A r \in RowIds :
        \/ rowsOf[r] \in {Blank, Plaintext(rowText[r]), Escaped(rowText[r])}
        \/ owner # NoSealKey /\ rowsOf[r] = SealedRow(r, rowText[r])
\* Only processes that hold the recorded key seal, and only they migrate.
SealersHoldTheRecordedKey ==
    \A p \in Openers :
        /\ opener[p].seal = "sealing" => KeyHeldBy[p] = owner /\ owner # NoSealKey
        /\ opener[p].at \in {"reopen", "migrate"} => opener[p].seal = "sealing"
\* The migration starts after the record; what it went past is sealed or late.
PassedRowsAreSealed ==
    /\ owner = NoSealKey => item = "absent" /\ cursor = 0
    /\ \A r \in RowIds : (item = "sealed" \/ r <= cursor) /\ Unsealed(rowsOf[r]) => r \in late

SharedInv == /\ SharedShape /\ RowsHoldTheirText
             /\ SealersHoldTheRecordedKey /\ PassedRowsAreSealed

LEMMA SharedInvTyped == SharedInv => SharedTypeOK
<1> SUFFICES ASSUME SharedInv PROVE SharedTypeOK
  OBVIOUS
<1>1. ASSUME NEW r \in RowIds
      PROVE  rowsOf[r].form \in {"none", PlainForm, EscapedForm, ContentForm}
  BY DEF SharedInv, SharedShape, RowValue
<1> QED BY <1>1 DEF SharedInv, SharedShape, SharedTypeOK

LEMMA RowValues ==
    ASSUME SharedShape, NEW r \in RowIds, NEW t \in RowTexts \cup {NoText}
    PROVE  /\ Blank \in RowValue /\ Plaintext(t) \in RowValue /\ Escaped(t) \in RowValue
           /\ owner # NoSealKey => SealedRow(r, t) \in RowValue
  BY DEF SharedShape, RowValue, Blank, Plaintext, Escaped, SealedRow, Envelope

\* What a process opens of a row, by the form of the row.
LEMMA OpenedRow ==
    ASSUME SharedInv, NEW p \in Openers, NEW r \in RowIds, rowsOf[r] # Blank
    PROVE  /\ opener[p].seal = "sealing" =>
                OpenRow(p, r) = OpenedAs(rowText[r], Unsealed(rowsOf[r]))
           /\ OpenRow(p, r).ok => OpenRow(p, r).text = rowText[r]
<1> DEFINE v == rowsOf[r]
<1> USE DEF PlainForm, EscapedForm, ContentForm, NewerForm
<1>1. CASE v = Plaintext(rowText[r])
  <2>1. v.form = "plain" /\ v.text = rowText[r] /\ Unsealed(v) = TRUE
    BY <1>1 DEF Plaintext, Envelope, Unsealed, Blank
  <2>2. OpenContent(CipherHeld(p), r, v) = Verbatim(v)
    BY <2>1 DEF OpenContent
  <2>3. OpenRow(p, r) = Verbatim(v)
    BY <2>1, <2>2 DEF OpenRow
  <2>4. Verbatim(v) = OpenedAs(rowText[r], TRUE)
    BY <2>1 DEF Verbatim
  <2>5. OpenRow(p, r) = OpenedAs(rowText[r], Unsealed(v))
    BY <2>1, <2>3, <2>4
  <2> QED BY <2>5 DEF OpenedAs
<1>2. CASE v = Escaped(rowText[r])
  <2>1. v.form = "encb:raw" /\ v.text = rowText[r] /\ Unsealed(v) = TRUE
    BY <1>2 DEF Escaped, Envelope, Unsealed, Blank
  <2>2. OpenRow(p, r) = OpenedAs(rowText[r], opener[p].seal = "sealing")
    BY <2>1 DEF OpenRow
  <2>3. opener[p].seal = "sealing" => OpenRow(p, r) = OpenedAs(rowText[r], Unsealed(v))
    BY <2>1, <2>2
  <2>4. OpenRow(p, r).text = rowText[r]
    BY <2>2 DEF OpenedAs
  <2> QED BY <2>3, <2>4
<1>3. CASE owner # NoSealKey /\ v = SealedRow(r, rowText[r])
  <2>1. /\ v.form = "encb:v1" /\ v.text = rowText[r] /\ Unsealed(v) = FALSE
        /\ v.key = StoreKey(owner, "store") /\ v.place = r
    BY <1>3 DEF SealedRow, Envelope, Unsealed
  <2>2. CASE opener[p].seal = "sealing"
    <3>1. CipherHeld(p).key = v.key
      BY <2>1, <2>2 DEF CipherHeld, ContentCipher, CipherOf, SharedInv, SealersHoldTheRecordedKey
    <3>2. OpenContent(CipherHeld(p), r, v) = Decrypted(CipherHeld(p), v, r)
      BY <2>1 DEF OpenContent
    <3>3. Decrypted(CipherHeld(p), v, r) = OpenedAs(rowText[r], FALSE)
      BY <2>1, <3>1 DEF Decrypted, KeysHeld
    <3>4. OpenRow(p, r) = OpenContent(CipherHeld(p), r, v)
      BY <2>1, <2>2 DEF OpenRow
    <3>5. OpenRow(p, r) = OpenedAs(rowText[r], Unsealed(v))
      BY <2>1, <3>2, <3>3, <3>4
    <3> QED BY <3>5 DEF OpenedAs
  <2>3. CASE opener[p].seal # "sealing"
    BY <2>1, <2>3 DEF OpenRow, Refused
  <2> QED BY <2>2, <2>3
<1> QED BY <1>1, <1>2, <1>3 DEF SharedInv, RowsHoldTheirText

LEMMA SharedInvSuffices == SharedInv => SharedStoreIsSound
<1> SUFFICES ASSUME SharedInv PROVE SharedStoreIsSound
  OBVIOUS
<1>1. RowsKeepTheirText
  BY OpenedRow DEF RowsKeepTheirText, Listed, OpenedAs
<1>2. PlainIsLate
  BY DEF SharedInv, PassedRowsAreSealed, PlainIsLate
<1> QED BY <1>1, <1>2 DEF SharedStoreIsSound

LEMMA SharedInitInv == SharedInit => SharedInv
<1> SUFFICES ASSUME SharedInit PROVE SharedInv
  OBVIOUS
<1>1. SharedShape
  <2>1. ASSUME NEW r \in RowIds PROVE rowsOf[r] \in RowValue
    BY DEF SharedInit, RowValue, Blank, Plaintext, Envelope
  <2> QED BY <2>1, SharedAssumption DEF SharedInit, SharedShape, Away
<1>2. RowsHoldTheirText
  BY DEF SharedInit, RowsHoldTheirText
<1>3. SealersHoldTheRecordedKey
  BY DEF SharedInit, SealersHoldTheRecordedKey, Away
<1>4. PassedRowsAreSealed
  BY SharedAssumption DEF SharedInit, PassedRowsAreSealed, RowIds
<1> QED BY <1>1, <1>2, <1>3, <1>4 DEF SharedInv

LEMMA OpenSharedInv == ASSUME SharedInv, NEW p \in Openers, OpenShared(p) PROVE SharedInv'
<1>1. SharedShape /\ UNCHANGED <<item, cursor, rowsOf, rowText, late>>
  BY DEF SharedInv, OpenShared
<1>2. owner' = owner \/ (owner = NoSealKey /\ owner' = KeyHeldBy[p] /\ owner' # NoSealKey)
  BY DEF OpenShared, Keyless
<1> DEFINE o == opener'[p]
<1>3. /\ o \in [at : {"reopen", "up"}, fresh : BOOLEAN, seal : {"compat", "sealing", "unhealthy"}]
      /\ opener' = [opener EXCEPT ![p] = o]
      /\ o.seal = "sealing" => KeyHeldBy[p] = owner' /\ owner' # NoSealKey
      /\ o.at = "reopen" => o.seal = "sealing"
  <2>1. \/ o = [at |-> "up", fresh |-> FALSE, seal |-> "compat"]
        \/ o = [at |-> "up", fresh |-> FALSE, seal |-> "unhealthy"]
        \/ /\ o = [at |-> "reopen", fresh |-> FALSE, seal |-> "sealing"]
           /\ ~Keyless(p) /\ owner' = KeyHeldBy[p]
    BY <1>1 DEF OpenShared, Step, SharedShape
  <2>2. opener' = [opener EXCEPT ![p] = o]
    BY <1>1 DEF OpenShared, Step, SharedShape
  <2>3. o \in [at : {"reopen", "up"}, fresh : BOOLEAN, seal : {"compat", "sealing", "unhealthy"}]
    <3>1. CASE o = [at |-> "up", fresh |-> FALSE, seal |-> "compat"]
      BY <3>1
    <3>2. CASE o = [at |-> "up", fresh |-> FALSE, seal |-> "unhealthy"]
      BY <3>2
    <3>3. CASE o = [at |-> "reopen", fresh |-> FALSE, seal |-> "sealing"]
      BY <3>3
    <3> QED BY <2>1, <3>1, <3>2, <3>3
  <2>4. o.seal = "sealing" => ~Keyless(p) /\ owner' = KeyHeldBy[p]
    BY <2>1
  <2>5. o.at = "reopen" => o.seal = "sealing"
    BY <2>1
  <2> HIDE DEF o
  <2> QED BY <2>2, <2>3, <2>4, <2>5 DEF Keyless
<1>4. SharedShape'
  <2>1. usedOf' \in [opens : 0..MaxOpens, writes : 0..MaxRowWrites]
    BY <1>1, SharedAssumption, SMTT(30) DEF OpenShared, SharedShape
  <2> QED BY <1>1, <1>2, <1>3, <2>1 DEF SharedShape, RowIds
<1>5. RowsHoldTheirText'
  BY <1>1, <1>2 DEF SharedInv, RowsHoldTheirText, SealedRow
<1>6. SealersHoldTheRecordedKey'
  BY <1>1, <1>2, <1>3 DEF SharedInv, SharedShape, SealersHoldTheRecordedKey
<1>7. PassedRowsAreSealed'
  BY <1>1, <1>2 DEF SharedInv, PassedRowsAreSealed
<1> QED BY <1>4, <1>5, <1>6, <1>7 DEF SharedInv

LEMMA ReopenColumnInv == ASSUME SharedInv, NEW p \in Openers, ReopenColumn(p) PROVE SharedInv'
<1>1. SharedShape /\ UNCHANGED <<owner, rowsOf, rowText, late, usedOf>>
      /\ opener' = [opener EXCEPT ![p] = [opener[p] EXCEPT !.at = "migrate"]]
  BY DEF SharedInv, ReopenColumn, Step
<1>2. opener[p].seal = "sealing" /\ owner # NoSealKey
  BY DEF SharedInv, SealersHoldTheRecordedKey, ReopenColumn
<1>3. (item' = item /\ cursor' = cursor) \/ (item' = "pending" /\ cursor' = 0)
  BY DEF ReopenColumn
<1>4. SharedShape'
  <2>1. [opener[p] EXCEPT !.at = "migrate"]
          \in [at : {"down", "reopen", "migrate", "up"}, fresh : BOOLEAN,
              seal : {"none", "compat", "sealing", "unhealthy"}]
    BY <1>1 DEF SharedShape
  <2> QED BY <1>1, <1>3, <2>1, SharedAssumption DEF SharedShape
<1>5. RowsHoldTheirText'
  BY <1>1 DEF SharedInv, RowsHoldTheirText, SealedRow
<1>6. SealersHoldTheRecordedKey'
  BY <1>1, <1>2 DEF SharedInv, SharedShape, SealersHoldTheRecordedKey
<1>7. PassedRowsAreSealed'
  BY <1>1, <1>2, <1>3 DEF SharedInv, PassedRowsAreSealed, RowIds
<1> QED BY <1>4, <1>5, <1>6, <1>7 DEF SharedInv

LEMMA SealNextInv == ASSUME SharedInv, NEW p \in Openers, SealNext(p) PROVE SharedInv'
<1> DEFINE r == CHOOSE x \in AheadOf(cursor) : \A y \in AheadOf(cursor) : x <= y
           o == OpenRow(p, r)
<1>1. SharedShape /\ UNCHANGED <<owner, rowText, opener, usedOf>>
  BY DEF SharedInv, SealNext
<1>2. r \in AheadOf(cursor) /\ \A y \in AheadOf(cursor) : r <= y
  <2>1. AheadOf(cursor) \subseteq Nat /\ AheadOf(cursor) # {}
    BY DEF SealNext, AheadOf, RowIds
  <2> QED BY <2>1, FirstExists
<1> HIDE DEF r
<1>3. r \in RowIds /\ rowsOf[r] # Blank /\ r > cursor
  BY <1>2 DEF AheadOf
<1>4. opener[p].seal = "sealing" /\ KeyHeldBy[p] = owner /\ owner # NoSealKey
  BY DEF SharedInv, SealersHoldTheRecordedKey, SealNext
<1>5. o = OpenedAs(rowText[r], Unsealed(rowsOf[r]))
  BY <1>3, <1>4, OpenedRow
<1>6. /\ rowsOf' = IF o.reseal THEN [rowsOf EXCEPT ![r] = SealContent(CipherHeld(p), r, o.text)]
                   ELSE rowsOf
      /\ late' = late \ {r} /\ cursor' = r /\ item' = "pending"
  BY DEF SealNext, r
<1>7. SealContent(CipherHeld(p), r, o.text) = SealedRow(r, rowText[r])
  BY <1>4, <1>5 DEF SealContent, CipherHeld, ContentCipher, CipherOf, SealedRow, OpenedAs
<1>8. rowsOf' = IF Unsealed(rowsOf[r]) THEN [rowsOf EXCEPT ![r] = SealedRow(r, rowText[r])]
                ELSE rowsOf
  <2>1. o.reseal = Unsealed(rowsOf[r])
    BY <1>5 DEF OpenedAs
  <2> QED BY <1>6, <1>7, <2>1
<1>9. ~Unsealed(rowsOf'[r]) /\ \A q \in RowIds \ {r} : rowsOf'[q] = rowsOf[q]
  BY <1>1, <1>3, <1>8 DEF SharedShape, Unsealed, SealedRow, Envelope
<1>10. SharedShape'
  <2>1. SealedRow(r, rowText[r]) \in RowValue
    BY <1>1, <1>3, <1>4, RowValues DEF SharedShape
  <2>2. rowsOf' \in [RowIds -> RowValue]
    BY <1>1, <1>8, <2>1 DEF SharedShape
  <2>3. cursor' \in 0..NumRows
    <3>1. cursor' = r /\ r \in RowIds
      BY <1>3, <1>6
    <3> QED BY <3>1, SharedAssumption DEF RowIds
  <2>4. item' \in {"absent", "pending", "sealed"} /\ late' \subseteq RowIds
    BY <1>1, <1>6 DEF SharedShape
  <2> QED BY <1>1, <2>2, <2>3, <2>4 DEF SharedShape
<1>11. RowsHoldTheirText'
  <2>1. rowsOf'[r] \in {rowsOf[r], SealedRow(r, rowText[r])}
    BY <1>1, <1>3, <1>8 DEF SharedShape
  <2> QED BY <1>1, <1>3, <1>4, <1>9, <2>1 DEF SharedInv, RowsHoldTheirText, SealedRow
<1>12. SealersHoldTheRecordedKey'
  BY <1>1 DEF SharedInv, SealersHoldTheRecordedKey
<1>13. PassedRowsAreSealed'
  <2>1. ASSUME NEW q \in RowIds, q <= cursor', Unsealed(rowsOf'[q]) PROVE q \in late'
    <3>1. q # r /\ q < r /\ rowsOf[q] # Blank
      BY <1>3, <1>6, <1>9, <2>1 DEF RowIds, Unsealed
    <3>2. q <= cursor
      BY <1>1, <1>2, <1>3, <3>1 DEF AheadOf, RowIds, SharedShape
    <3> QED BY <1>6, <1>9, <2>1, <3>1, <3>2 DEF SharedInv, PassedRowsAreSealed
  <2> QED BY <1>1, <1>4, <1>6, <2>1 DEF PassedRowsAreSealed
<1> QED BY <1>10, <1>11, <1>12, <1>13 DEF SharedInv

LEMMA ColumnDoneInv == ASSUME SharedInv, NEW p \in Openers, ColumnDone(p) PROVE SharedInv'
<1>1. SharedShape /\ UNCHANGED <<owner, rowsOf, rowText, late, usedOf>>
      /\ item' = "sealed" /\ cursor' = 0
      /\ opener' = [opener EXCEPT ![p] = [opener[p] EXCEPT !.at = "up"]]
  BY DEF SharedInv, ColumnDone, Step
<1>2. opener[p].seal = "sealing" /\ owner # NoSealKey
  BY DEF SharedInv, SealersHoldTheRecordedKey, ColumnDone
<1>3. SharedShape'
  <2>1. [opener[p] EXCEPT !.at = "up"]
          \in [at : {"down", "reopen", "migrate", "up"}, fresh : BOOLEAN,
              seal : {"none", "compat", "sealing", "unhealthy"}]
    BY <1>1 DEF SharedShape
  <2> QED BY <1>1, <2>1, SharedAssumption DEF SharedShape
<1>4. RowsHoldTheirText'
  BY <1>1 DEF SharedInv, RowsHoldTheirText, SealedRow
<1>5. SealersHoldTheRecordedKey'
  BY <1>1, <1>2 DEF SharedInv, SharedShape, SealersHoldTheRecordedKey
<1>6. ASSUME NEW r \in RowIds, Unsealed(rowsOf[r]) PROVE item = "sealed" \/ r <= cursor
  BY <1>1, <1>6 DEF ColumnDone, AheadOf, Unsealed, RowIds, SharedShape
<1>7. PassedRowsAreSealed'
  BY <1>1, <1>2, <1>6 DEF SharedInv, PassedRowsAreSealed
<1> QED BY <1>3, <1>4, <1>5, <1>7 DEF SharedInv

\* The record and the processes do not change in a write, up to what was looked at.
LEMMA StoreInv ==
    ASSUME SharedInv, NEW r \in RowIds, NEW t \in RowTexts, NEW v, Store(r, v, t),
           \/ v \in {Plaintext(t), Escaped(t)}
           \/ owner # NoSealKey /\ v = SealedRow(r, t),
           opener' \in [Openers -> [at : {"down", "reopen", "migrate", "up"}, fresh : BOOLEAN,
                               seal : {"none", "compat", "sealing", "unhealthy"}]],
           \A p \in Openers : opener'[p].at = opener[p].at /\ opener'[p].seal = opener[p].seal
    PROVE  SharedInv'
<1>1. /\ SharedShape /\ UNCHANGED <<owner, item, cursor>>
      /\ rowsOf' = [rowsOf EXCEPT ![r] = v] /\ rowText' = [rowText EXCEPT ![r] = t]
      /\ late' = IF v.form # ContentForm /\ owner # NoSealKey THEN late \cup {r} ELSE late \ {r}
  BY DEF SharedInv, Store
<1>2. /\ rowsOf'[r] = v /\ rowText'[r] = t
      /\ \A q \in RowIds \ {r} : rowsOf'[q] = rowsOf[q] /\ rowText'[q] = rowText[q]
  BY <1>1 DEF SharedShape
<1>3. SharedShape'
  <2>1. usedOf' \in [opens : 0..MaxOpens, writes : 0..MaxRowWrites]
    <3>1. usedOf' = [usedOf EXCEPT !.writes = @ + 1] /\ usedOf.writes < MaxRowWrites
      BY DEF Store
    <3>2. usedOf \in [opens : 0..MaxOpens, writes : 0..MaxRowWrites]
      BY <1>1 DEF SharedShape
    <3> QED BY <3>1, <3>2, SharedAssumption
  <2>2. v \in RowValue
    BY <1>1, RowValues
  <2> QED BY <1>1, <2>1, <2>2 DEF SharedShape, RowIds
<1>4. RowsHoldTheirText'
  BY <1>1, <1>2 DEF SharedInv, RowsHoldTheirText, SealedRow
<1>5. SealersHoldTheRecordedKey'
  BY <1>1 DEF SharedInv, SealersHoldTheRecordedKey
<1>6. PassedRowsAreSealed'
  <2>1. ASSUME NEW q \in RowIds, item = "sealed" \/ q <= cursor, Unsealed(rowsOf'[q])
        PROVE  q \in late'
    <3>1. CASE q # r
      BY <1>1, <1>2, <2>1, <3>1 DEF SharedInv, PassedRowsAreSealed
    <3>2. CASE q = r
      <4>1. v.form # ContentForm
        BY <1>2, <2>1, <3>2 DEF Unsealed
      <4>2. owner # NoSealKey
        BY <1>1, <2>1 DEF SharedInv, PassedRowsAreSealed, RowIds, SharedShape
      <4> QED BY <1>1, <3>2, <4>1, <4>2
    <3> QED BY <3>1, <3>2
  <2> QED BY <1>1, <2>1 DEF SharedInv, PassedRowsAreSealed
<1> QED BY <1>3, <1>4, <1>5, <1>6 DEF SharedInv

LEMMA WritesInv ==
    ASSUME SharedInv, NEW p \in Openers, NEW r \in RowIds, NEW t \in RowTexts,
           WriteSealed(p, r, t) \/ WriteGuarded(p, r, t) \/ WriteRefreshed(p, r, t)
    PROVE  SharedInv'
<1>1. SharedShape
  BY DEF SharedInv
<1>2. /\ opener' \in [Openers -> [at : {"down", "reopen", "migrate", "up"}, fresh : BOOLEAN,
                               seal : {"none", "compat", "sealing", "unhealthy"}]]
      /\ \A q \in Openers : opener'[q].at = opener[q].at /\ opener'[q].seal = opener[q].seal
  <2>1. CASE opener' = opener
    BY <1>1, <2>1 DEF SharedShape
  <2>2. CASE opener' = [opener EXCEPT ![p] = [opener[p] EXCEPT !.fresh = FALSE]]
    BY <1>1, <2>2, ZenonT(60) DEF SharedShape
  <2> QED BY <2>1, <2>2 DEF WriteSealed, WriteGuarded, WriteRefreshed, Step
<1>3. CASE WriteSealed(p, r, t)
  <2>1. KeyHeldBy[p] = owner /\ owner # NoSealKey
    BY <1>3 DEF SharedInv, SealersHoldTheRecordedKey, WriteSealed
  <2>2. SealContent(CipherHeld(p), r, t) = SealedRow(r, t)
    BY <2>1 DEF SealContent, CipherHeld, ContentCipher, CipherOf, SealedRow
  <2> QED BY <1>2, <1>3, <2>1, <2>2, StoreInv DEF WriteSealed
<1>4. CASE WriteGuarded(p, r, t) \/ WriteRefreshed(p, r, t)
  <2>1. CompatText(t) \in {Plaintext(t), Escaped(t)}
    BY DEF CompatText, Escaped
  <2>2. Store(r, CompatText(t), t)
    BY <1>4 DEF WriteGuarded, WriteRefreshed
  <2> HIDE DEF CompatText
  <2> QED BY <1>2, <2>1, <2>2, StoreInv
<1> QED BY <1>3, <1>4

\* Looking at the record and leaving change only what one process knows.
LEMMA LooksInv ==
    ASSUME SharedInv, NEW p \in Openers, Refresh(p) \/ CloseShared(p)
    PROVE  SharedInv'
<1>1. SharedShape /\ UNCHANGED <<owner, item, cursor, rowsOf, rowText, late, usedOf>>
  BY DEF SharedInv, Refresh, CloseShared
<1>2. PICK o \in [at : {"down", "up"}, fresh : BOOLEAN, seal : {"none", "compat", "unhealthy"}] :
        opener' = [opener EXCEPT ![p] = o]
  BY <1>1, ZenonT(60) DEF SharedShape, Refresh, CloseShared, Step, Away
<1>3. SharedShape'
  BY <1>1, <1>2 DEF SharedShape, RowIds
<1>4. SealersHoldTheRecordedKey'
  BY <1>1, <1>2 DEF SharedInv, SharedShape, SealersHoldTheRecordedKey
<1> QED BY <1>1, <1>3, <1>4 DEF SharedInv, RowsHoldTheirText, SealedRow, PassedRowsAreSealed

LEMMA SharedStepInv == SharedInv /\ [SharedNext]_sharedVars => SharedInv'
<1> SUFFICES ASSUME SharedInv, [SharedNext]_sharedVars PROVE SharedInv'
  OBVIOUS
<1>1. CASE UNCHANGED sharedVars
  BY <1>1 DEF sharedVars, SharedInv, SharedShape, RowIds, RowsHoldTheirText, SealedRow,
              SealersHoldTheRecordedKey, PassedRowsAreSealed
<1>2. ASSUME NEW p \in Openers,
             \/ OpenShared(p) \/ ReopenColumn(p) \/ SealNext(p) \/ ColumnDone(p)
             \/ Refresh(p) \/ CloseShared(p)
             \/ \E r \in RowIds, t \in RowTexts :
                  WriteSealed(p, r, t) \/ WriteGuarded(p, r, t) \/ WriteRefreshed(p, r, t)
      PROVE  SharedInv'
  BY <1>2, OpenSharedInv, ReopenColumnInv, SealNextInv, ColumnDoneInv, LooksInv, WritesInv
<1> QED BY <1>1, <1>2 DEF SharedNext

LEMMA SharedInductive == SharedSpec => []SharedInv
  BY SharedInitInv, SharedStepInv, PTL DEF SharedSpec

\* Every variable of the shared store keeps its type.
THEOREM SharedTypeCorrect == SharedSpec => []SharedTypeOK
  BY SharedInvTyped, SharedInductive, PTL

\* Whatever processes open one store, with the recorded key, another one or none,
\* a row that opens opens to the text it was last given, and plaintext in a
\* finished column was written late (SqlSeal, reopen_plaintext_items).
THEOREM SharedStoreStaysSound == SharedSpec => []SharedStoreIsSound
  BY SharedInvSuffices, SharedInductive, PTL

(*****************************************************************************)
(* SecretConfig: what is on disk is what was last typed, and it opens.       *)
(*****************************************************************************)

KnownRoots == {root.now} \cup root.old
FieldValue(t) ==
    {Plaintext(t)} \cup {Envelope(ComponentForm, ComponentKey(r, "gateway"), NoPlace, t) : r \in KnownRoots}
FileValue(t) == {Plaintext(t)} \cup {Envelope(MasterForm, r, NoPlace, t) : r \in KnownRoots}

ConfigShape ==
    /\ root \in [now : ConfigRoots, old : SUBSET ConfigRoots, reachable : BOOLEAN]
    /\ DOMAIN config = ConfigFields /\ DOMAIN files = SecretFiles
    /\ loaded \in [up : BOOLEAN, fields : [ConfigFields -> ConfigTexts \cup {NoText}]]
    /\ typed \in [SecretPlaces -> ConfigTexts \cup {NoText}]
    /\ stepsUsed \in 0..MaxConfigSteps
\* Fields and files hold what was typed, in plaintext or under a root still known.
DiskHoldsTheTyped ==
    /\ \A f \in ConfigFields : config[f] \in FieldValue(typed[f])
    /\ \A f \in SecretFiles : files[f] \in FileValue(typed[f])
\* A temporary file waits under a known root; the fields in memory are the typed ones.
MemoryHoldsTheTyped ==
    /\ \/ writing = NotWriting
       \/ /\ writing.file \in SecretFiles
          /\ \E t \in ConfigTexts, r \in KnownRoots :
               writing.value = Envelope(MasterForm, r, NoPlace, t)
    /\ loaded.up => \A f \in ConfigFields : loaded.fields[f] = typed[f]

ConfigInv == ConfigShape /\ DiskHoldsTheTyped /\ MemoryHoldsTheTyped

\* A stored value opens to the text it holds, and always under a root that resolves.
LEMMA FieldOpens ==
    ASSUME NEW t, NEW v \in FieldValue(t)
    PROVE  /\ v.form \in {PlainForm, ComponentForm} /\ v.text = t
           /\ FieldOf(v).ok => FieldOf(v).text = t
           /\ root.reachable => FieldOf(v).ok
<1> USE DEF PlainForm, ComponentForm, MasterForm, TenantForm, PluginForm, ContentForm, CloudForm
<1>1. CASE v = Plaintext(t)
  <2>1. v.form = "plain" /\ v.text = t /\ ~LooksSealed(v)
    BY <1>1 DEF Plaintext, Envelope, LooksSealed, Sealed
  <2>2. FieldOf(v) = OpenedAs(t, t # NoText)
    BY <2>1 DEF FieldOf
  <2> QED BY <2>1, <2>2 DEF OpenedAs
<1>2. ASSUME NEW r \in KnownRoots, v = Envelope(ComponentForm, ComponentKey(r, "gateway"), NoPlace, t)
      PROVE  /\ v.form = "encc:v1" /\ v.text = t
             /\ FieldOf(v).ok => FieldOf(v).text = t
             /\ root.reachable => FieldOf(v).ok
  <2>1. /\ v.form = "encc:v1" /\ v.text = t /\ v.place = NoPlace
        /\ v.key = ComponentKey(r, "gateway") /\ LooksSealed(v)
    BY <1>2 DEF Envelope, LooksSealed, Sealed
  <2>2. v.key \in KeysHeld(GatewayCipher) /\ GatewayCipher.form = "encc:v1"
    BY <2>1 DEF KeysHeld, GatewayCipher, CipherOf, KnownRoots
  <2>3. PICK b \in BOOLEAN : Decrypted(GatewayCipher, v, NoPlace) = OpenedAs(t, b)
    BY <2>1, <2>2 DEF Decrypted
  <2>4. ComponentOpen(GatewayCipher, v) = Decrypted(GatewayCipher, v, NoPlace)
    BY <2>1 DEF ComponentOpen
  <2>5. SealerOpen(GatewayCipher, v) = [OpenedAs(t, b) EXCEPT !.reseal = FALSE]
    BY <2>1, <2>2, <2>3, <2>4 DEF SealerOpen
  <2>6. SealerOpen(GatewayCipher, v).ok /\ SealerOpen(GatewayCipher, v).text = t
    BY <2>5 DEF OpenedAs
  <2>7. CASE root.reachable
    <3>1. FieldOf(v) = [SealerOpen(GatewayCipher, v) EXCEPT !.reseal = FALSE]
      BY <2>1, <2>7 DEF FieldOf
    <3>2. FieldOf(v).ok /\ FieldOf(v).text = t
      BY <2>5, <3>1 DEF OpenedAs
    <3> QED BY <2>1, <3>2
  <2>8. CASE ~root.reachable
    BY <2>1, <2>8 DEF FieldOf, Refused
  <2> QED BY <2>7, <2>8
<1> QED BY <1>1, <1>2 DEF FieldValue

LEMMA FileOpens ==
    ASSUME NEW t, NEW v \in FileValue(t)
    PROVE  /\ v.form \in {PlainForm, MasterForm} /\ v.text = t
           /\ FileOpen(v).reseal => FileOpen(v).text = t
           /\ root.reachable => FileOpen(v).ok /\ FileOpen(v).text = t
<1> USE DEF PlainForm, ComponentForm, MasterForm, TenantForm, PluginForm, ContentForm, CloudForm
<1>1. CASE v = Plaintext(t)
  <2>1. v.form = "plain" /\ v.text = t /\ ~LooksSealed(v)
    BY <1>1 DEF Plaintext, Envelope, LooksSealed, Sealed
  <2>2. FileOpen(v) = OpenedAs(t, TRUE)
    BY <2>1 DEF FileOpen
  <2> QED BY <2>1, <2>2 DEF OpenedAs
<1>2. ASSUME NEW r \in KnownRoots, v = Envelope(MasterForm, r, NoPlace, t)
      PROVE  /\ v.form = "enc:v1" /\ v.text = t
             /\ FileOpen(v).reseal => FileOpen(v).text = t
             /\ root.reachable => FileOpen(v).ok /\ FileOpen(v).text = t
  <2>1. /\ v.form = "enc:v1" /\ v.text = t /\ v.place = NoPlace /\ v.key = r /\ LooksSealed(v)
    BY <1>2 DEF Envelope, LooksSealed, Sealed
  <2>2. v.key \in KeysHeld(MasterCipher) /\ MasterCipher.form = "enc:v1"
    BY <2>1 DEF KeysHeld, MasterCipher, CipherOf, KnownRoots
  <2>3. PICK b \in BOOLEAN : Decrypted(MasterCipher, v, NoPlace) = OpenedAs(t, b)
    BY <2>1, <2>2 DEF Decrypted
  <2>4. FieldOpen(MasterCipher, v) = Decrypted(MasterCipher, v, NoPlace)
    BY <2>1 DEF FieldOpen
  <2>5. SealerOpen(MasterCipher, v) = OpenedAs(t, b)
    BY <2>1, <2>2, <2>3, <2>4 DEF SealerOpen
  <2>7. CASE root.reachable
    <3>1. FileOpen(v) = [OpenedAs(t, b) EXCEPT !.reseal = FALSE]
      BY <2>1, <2>5, <2>7 DEF FileOpen
    <3>2. FileOpen(v).ok /\ FileOpen(v).text = t
      BY <3>1 DEF OpenedAs
    <3> QED BY <2>1, <3>2
  <2>8. CASE ~root.reachable
    BY <2>1, <2>8 DEF FileOpen, Refused
  <2> QED BY <2>7, <2>8
<1> QED BY <1>1, <1>2 DEF FileValue

LEMMA ConfigInvTyped == ConfigInv => ConfigTypeOK
<1> SUFFICES ASSUME ConfigInv PROVE ConfigTypeOK
  OBVIOUS
<1>1. /\ \A f \in ConfigFields : config[f].form \in {PlainForm, ComponentForm}
      /\ \A f \in SecretFiles : files[f].form \in {PlainForm, MasterForm}
  BY FieldOpens, FileOpens DEF ConfigInv, DiskHoldsTheTyped
<1>2. writing.file \in SecretFiles \cup {NoText}
  BY DEF ConfigInv, MemoryHoldsTheTyped, NotWriting
<1> QED BY <1>1, <1>2 DEF ConfigInv, ConfigShape, ConfigTypeOK

LEMMA ConfigInvSuffices == ConfigInv => SecretsSurvive
  BY FieldOpens, FileOpens DEF ConfigInv, DiskHoldsTheTyped, MemoryHoldsTheTyped, SecretsSurvive

LEMMA ConfigInitInv == ConfigInit => ConfigInv
<1> SUFFICES ASSUME ConfigInit PROVE ConfigInv
  OBVIOUS
<1>1. ConfigShape
  BY ConfigAssumption DEF ConfigInit, ConfigShape, NotLoaded
<1>2. DiskHoldsTheTyped
  BY DEF ConfigInit, DiskHoldsTheTyped, FieldValue, FileValue
<1>3. MemoryHoldsTheTyped
  BY DEF ConfigInit, MemoryHoldsTheTyped
<1> QED BY <1>1, <1>2, <1>3 DEF ConfigInv

LEMMA LoadConfigInv == ASSUME ConfigInv, LoadConfig PROVE ConfigInv'
<1>1. /\ ConfigShape /\ DiskHoldsTheTyped
      /\ UNCHANGED <<root, config, files, writing, typed, stepsUsed>>
      /\ loaded' = [up |-> TRUE, fields |-> [f \in ConfigFields |-> FieldOf(config[f]).text]]
  BY DEF ConfigInv, LoadConfig
<1>2. \A f \in ConfigFields : FieldOf(config[f]).text = typed[f]
  BY <1>1, FieldOpens DEF LoadConfig, DiskHoldsTheTyped
<1>3. loaded' = [up |-> TRUE, fields |-> [f \in ConfigFields |-> typed[f]]]
  BY <1>1, <1>2
<1>4. ConfigShape'
  BY <1>1, <1>3 DEF ConfigShape, SecretPlaces
<1>5. DiskHoldsTheTyped'
  BY <1>1 DEF DiskHoldsTheTyped, FieldValue, FileValue, KnownRoots
<1>6. MemoryHoldsTheTyped'
  BY <1>1, <1>3 DEF ConfigInv, MemoryHoldsTheTyped, NotWriting, KnownRoots
<1> QED BY <1>4, <1>5, <1>6 DEF ConfigInv

\* What is sealed for a field holds its text under the root in use.
LEMMA SealedFieldHolds ==
    ASSUME NEW t PROVE SealedField(t) \in FieldValue(t)
<1>1. CASE t = NoText
  BY <1>1 DEF SealedField, NoValueYet, FieldValue
<1>2. CASE t # NoText
  BY <1>2 DEF SealedField, SealWith, GatewayCipher, CipherOf, FieldValue, KnownRoots
<1> QED BY <1>1, <1>2

LEMMA SaveConfigInv == ASSUME ConfigInv, SaveConfig PROVE ConfigInv'
<1>1. /\ ConfigShape /\ DiskHoldsTheTyped /\ loaded.up
      /\ UNCHANGED <<root, files, writing, loaded, typed, stepsUsed>>
      /\ config' = [f \in ConfigFields |-> SealedField(loaded.fields[f])]
  BY DEF ConfigInv, SaveConfig
<1>2. \A f \in ConfigFields : config'[f] \in FieldValue(typed[f])
  BY <1>1, SealedFieldHolds DEF ConfigInv, MemoryHoldsTheTyped
<1>3. ConfigShape'
  BY <1>1 DEF ConfigShape, SecretPlaces
<1>4. DiskHoldsTheTyped'
  BY <1>1, <1>2 DEF DiskHoldsTheTyped, FieldValue, FileValue, KnownRoots
<1>5. MemoryHoldsTheTyped'
  BY <1>1 DEF ConfigInv, MemoryHoldsTheTyped, NotWriting, KnownRoots
<1> QED BY <1>3, <1>4, <1>5 DEF ConfigInv

LEMMA PutConfigInv ==
    ASSUME ConfigInv, NEW f \in ConfigFields, NEW t \in ConfigTexts \cup {NoText}, PutConfig(f, t)
    PROVE  ConfigInv'
<1> DEFINE sent == [g \in ConfigFields |-> IF g = f THEN t ELSE Shown(loaded.fields[g])]
           next == [g \in ConfigFields |-> Kept(sent[g], loaded.fields[g])]
<1>1. /\ ConfigShape /\ DiskHoldsTheTyped /\ loaded.up
      /\ UNCHANGED <<root, files, writing>>
      /\ loaded' = [loaded EXCEPT !.fields = next]
      /\ config' = [g \in ConfigFields |-> SealedField(next[g])]
      /\ typed' = [typed EXCEPT ![f] = t]
      /\ stepsUsed < MaxConfigSteps /\ stepsUsed' = stepsUsed + 1
  BY DEF ConfigInv, PutConfig, Used
<1>2. typed'[f] = t /\ \A g \in SecretPlaces \ {f} : typed'[g] = typed[g]
  BY <1>1 DEF ConfigShape, SecretPlaces
<1>3. ASSUME NEW g \in ConfigFields PROVE next[g] = typed'[g]
  <2>1. loaded.fields[g] = typed[g] /\ typed[g] \in ConfigTexts \cup {NoText}
    BY <1>1 DEF ConfigInv, MemoryHoldsTheTyped, ConfigShape, SecretPlaces
  <2>2. CASE g = f
    BY <1>2, <2>2, ConfigAssumption DEF Kept
  <2>3. CASE g # f
    BY <1>2, <2>1, <2>3, ConfigAssumption DEF Kept, Shown, SecretPlaces
  <2> QED BY <2>2, <2>3
<1>4. /\ next \in [ConfigFields -> ConfigTexts \cup {NoText}]
      /\ typed' \in [SecretPlaces -> ConfigTexts \cup {NoText}]
  <2>1. typed' \in [SecretPlaces -> ConfigTexts \cup {NoText}]
    BY <1>1 DEF ConfigShape, SecretPlaces
  <2> HIDE DEF next
  <2>2. next = [g \in ConfigFields |-> next[g]]
    BY DEF next
  <2> QED BY <1>3, <2>1, <2>2 DEF SecretPlaces
<1> HIDE DEF next
<1>5. \A g \in ConfigFields : config'[g] \in FieldValue(typed'[g])
  BY <1>1, <1>3, SealedFieldHolds
<1>6. ConfigShape'
  <2>1. loaded' \in [up : BOOLEAN, fields : [ConfigFields -> ConfigTexts \cup {NoText}]]
    BY <1>1, <1>4 DEF ConfigShape
  <2>2. stepsUsed' \in 0..MaxConfigSteps
    BY <1>1, ConfigAssumption DEF ConfigShape
  <2> QED BY <1>1, <1>4, <2>1, <2>2 DEF ConfigShape, SecretPlaces
<1>7. DiskHoldsTheTyped'
  <2>1. \A g \in SecretFiles : typed'[g] = typed[g]
    BY <1>2, PlacesAreDistinct DEF SecretPlaces
  <2> QED BY <1>1, <1>5, <2>1 DEF DiskHoldsTheTyped, FieldValue, FileValue, KnownRoots
<1>8. MemoryHoldsTheTyped'
  <2>1. loaded'.fields = next
    BY <1>1 DEF ConfigShape
  <2> QED BY <1>1, <1>3, <2>1 DEF ConfigInv, MemoryHoldsTheTyped, NotWriting, KnownRoots
<1> QED BY <1>6, <1>7, <1>8 DEF ConfigInv

LEMMA BeginFileInv ==
    ASSUME ConfigInv, NEW f \in SecretFiles, NEW t \in ConfigTexts, BeginFile(f, t),
           UNCHANGED <<root, config, files, loaded, typed>>, stepsUsed' \in 0..MaxConfigSteps
    PROVE  ConfigInv'
<1>1. writing' = [file |-> f, value |-> Envelope(MasterForm, root.now, NoPlace, t)]
  BY DEF BeginFile, SealWith, MasterCipher, CipherOf
<1>2. ConfigShape'
  BY DEF ConfigInv, ConfigShape, SecretPlaces
<1>3. DiskHoldsTheTyped'
  BY DEF ConfigInv, DiskHoldsTheTyped, FieldValue, FileValue, KnownRoots
<1>4. MemoryHoldsTheTyped'
  BY <1>1 DEF ConfigInv, MemoryHoldsTheTyped, KnownRoots
<1> QED BY <1>2, <1>3, <1>4 DEF ConfigInv

LEMMA WritingInv ==
    ASSUME ConfigInv, NEW f \in SecretFiles,
           ResealSecretFile(f) \/ \E t \in ConfigTexts : WriteSecretFile(f, t)
    PROVE  ConfigInv'
<1>1. ASSUME NEW t \in ConfigTexts, WriteSecretFile(f, t) PROVE ConfigInv'
  <2>1. stepsUsed' \in 0..MaxConfigSteps
    BY <1>1, ConfigAssumption DEF WriteSecretFile, Used, ConfigInv, ConfigShape
  <2> QED BY <1>1, <2>1, BeginFileInv DEF WriteSecretFile
<1>2. CASE ResealSecretFile(f)
  <2>1. FileOpen(files[f]).text = typed[f] /\ typed[f] # NoText
    BY <1>2, FileOpens DEF ResealSecretFile, ConfigInv, DiskHoldsTheTyped
  <2>2. typed[f] \in ConfigTexts
    BY <2>1 DEF ConfigInv, ConfigShape, SecretPlaces
  <2>3. stepsUsed' \in 0..MaxConfigSteps
    BY <1>2 DEF ResealSecretFile, ConfigInv, ConfigShape
  <2> QED BY <1>2, <2>1, <2>2, <2>3, BeginFileInv DEF ResealSecretFile
<1> QED BY <1>1, <1>2

LEMMA PersistFileInv == ASSUME ConfigInv, PersistFile PROVE ConfigInv'
<1>1. /\ ConfigShape /\ DiskHoldsTheTyped
      /\ UNCHANGED <<root, config, loaded, stepsUsed>> /\ writing' = NotWriting
      /\ files' = [files EXCEPT ![writing.file] = writing.value]
      /\ typed' = [typed EXCEPT ![writing.file] = writing.value.text]
  BY DEF ConfigInv, PersistFile
<1>2. PICK t \in ConfigTexts, r \in KnownRoots :
        writing.file \in SecretFiles /\ writing.value = Envelope(MasterForm, r, NoPlace, t)
  BY DEF ConfigInv, MemoryHoldsTheTyped, PersistFile
<1>3. writing.value \in FileValue(t) /\ writing.value.text = t
  BY <1>2 DEF FileValue, Envelope
<1>4. /\ typed' \in [SecretPlaces -> ConfigTexts \cup {NoText}]
      /\ typed'[writing.file] = t /\ \A g \in SecretPlaces \ {writing.file} : typed'[g] = typed[g]
  BY <1>1, <1>2, <1>3 DEF ConfigShape, SecretPlaces
<1>5. \A f \in ConfigFields : typed'[f] = typed[f]
  BY <1>2, <1>4, PlacesAreDistinct DEF SecretPlaces
<1>6. ConfigShape'
  BY <1>1, <1>4 DEF ConfigShape, SecretPlaces
<1>7. \A f \in SecretFiles : files'[f] \in FileValue(typed'[f])
  BY <1>1, <1>2, <1>3, <1>4 DEF DiskHoldsTheTyped, ConfigShape, SecretPlaces
<1>8. DiskHoldsTheTyped'
  BY <1>1, <1>5, <1>7 DEF DiskHoldsTheTyped, FieldValue, FileValue, KnownRoots
<1>9. MemoryHoldsTheTyped'
  BY <1>1, <1>5 DEF ConfigInv, MemoryHoldsTheTyped, NotWriting
<1> QED BY <1>6, <1>8, <1>9 DEF ConfigInv

\* A root that is replaced or stops resolving stays known.
LEMMA RootsInv ==
    ASSUME ConfigInv, ReplaceRoot \/ \E b \in BOOLEAN : Restart(b) PROVE ConfigInv'
<1>1. ConfigShape /\ DiskHoldsTheTyped /\ UNCHANGED <<config, files, typed>>
  BY DEF ConfigInv, ReplaceRoot, Restart
<1>2. writing' = NotWriting /\ ~loaded'.up
      /\ loaded' \in [up : BOOLEAN, fields : [ConfigFields -> ConfigTexts \cup {NoText}]]
  <2>1. CASE ReplaceRoot
    BY <1>1, <2>1 DEF ReplaceRoot, ConfigShape
  <2>2. ASSUME NEW b \in BOOLEAN, Restart(b)
        PROVE  /\ writing' = NotWriting /\ ~loaded'.up
               /\ loaded' \in [up : BOOLEAN, fields : [ConfigFields -> ConfigTexts \cup {NoText}]]
    <3>1. loaded' = [up |-> FALSE, fields |-> [f \in ConfigFields |-> NoText]] /\ writing' = NotWriting
      BY <2>2 DEF Restart, NotLoaded
    <3>2. [f \in ConfigFields |-> NoText] \in [ConfigFields -> ConfigTexts \cup {NoText}]
      OBVIOUS
    <3> QED BY <3>1, <3>2
  <2> QED BY <2>1, <2>2
<1>3. stepsUsed' \in 0..MaxConfigSteps
  BY <1>1, ConfigAssumption DEF ReplaceRoot, Restart, Used, ConfigShape
<1>4. root' \in [now : ConfigRoots, old : SUBSET ConfigRoots, reachable : BOOLEAN]
      /\ KnownRoots \subseteq KnownRoots'
  <2>1. CASE ReplaceRoot
    <3>1. root' = [now |-> root.now + 1, old |-> root.old \cup {root.now}, reachable |-> TRUE]
          /\ root.now + 1 \in ConfigRoots
      BY <2>1 DEF ReplaceRoot
    <3> QED BY <1>1, <3>1 DEF ConfigShape, KnownRoots
  <2>2. ASSUME NEW b \in BOOLEAN, Restart(b)
        PROVE  /\ root' \in [now : ConfigRoots, old : SUBSET ConfigRoots, reachable : BOOLEAN]
               /\ KnownRoots \subseteq KnownRoots'
    <3>1. root' = [root EXCEPT !.reachable = b]
      BY <2>2 DEF Restart
    <3> QED BY <1>1, <3>1 DEF ConfigShape, KnownRoots
  <2> QED BY <2>1, <2>2
<1>5. ConfigShape'
  BY <1>1, <1>2, <1>3, <1>4 DEF ConfigShape, SecretPlaces
<1>6. DiskHoldsTheTyped'
  BY <1>1, <1>4 DEF DiskHoldsTheTyped, FieldValue, FileValue
<1>7. MemoryHoldsTheTyped'
  BY <1>2 DEF MemoryHoldsTheTyped, NotWriting
<1> QED BY <1>5, <1>6, <1>7 DEF ConfigInv

LEMMA ConfigStepInv == ConfigInv /\ [ConfigNext]_configVars => ConfigInv'
<1> SUFFICES ASSUME ConfigInv, [ConfigNext]_configVars PROVE ConfigInv'
  OBVIOUS
<1>1. CASE UNCHANGED configVars
  BY <1>1 DEF configVars, ConfigInv, ConfigShape, SecretPlaces, DiskHoldsTheTyped, FieldValue,
              FileValue, KnownRoots, MemoryHoldsTheTyped, NotWriting
<1> QED BY <1>1, LoadConfigInv, SaveConfigInv, PersistFileInv, RootsInv, PutConfigInv, WritingInv
        DEF ConfigNext

LEMMA ConfigInductive == ConfigSpec => []ConfigInv
  BY ConfigInitInv, ConfigStepInv, PTL DEF ConfigSpec

\* Every variable of the configuration and its files keeps its type.
THEOREM ConfigTypeCorrect == ConfigSpec => []ConfigTypeOK
  BY ConfigInvTyped, ConfigInductive, PTL

\* Through masked round trips, rewrites, restarts and replaced roots, what is on
\* disk is what was last typed and opens when the root resolves (keep_if_redacted).
THEOREM SecretsAlwaysSurvive == ConfigSpec => []SecretsSurvive
  BY ConfigInvSuffices, ConfigInductive, PTL

(*****************************************************************************)
(* MCSealing: the components side by side.                                   *)
(*****************************************************************************)

SealingInv == /\ MigrationInv /\ QueueInv /\ LogInv /\ FileInv /\ CacheInv
              /\ CustodyInv /\ MakersAgree /\ SecretsInv /\ SharedInv /\ ConfigInv

LEMMA SealingStarts == Init => SealingInv
<1> SUFFICES ASSUME Init PROVE SealingInv
  OBVIOUS
<1>1. /\ MigrationInit /\ QueueInit /\ LogInit /\ FileInit /\ CacheInit
      /\ CustodyInit /\ SecretsInit /\ SharedInit /\ ConfigInit
  BY DEF Init
<1>2. MigrationInv /\ QueueInv /\ LogInv
  BY <1>1, MigrationInitInv, QueueStarts, LogStarts
<1>3. FileInv /\ CacheInv
  BY <1>1, FileInvInit, CacheInvInit
<1>4. SecretsInv /\ SharedInv /\ ConfigInv
  BY <1>1, SecretsInitInv, SharedInitInv, ConfigInitInv
<1>5. CustodyInv /\ MakersAgree
  <2>1. \A p \in Resolvers : ~ Makes(p)
    BY <1>1 DEF CustodyInit, Down, Makes, Seeding
  <2> QED BY <1>1, <2>1, CustodyInitInv DEF MakersAgree
<1> QED BY <1>2, <1>3, <1>4, <1>5 DEF SealingInv

\* Each component takes a step of its own, or keeps its state.
LEMMA SealingMoves ==
  ASSUME [Next]_sealingVars
  PROVE  /\ [MigrationNext]_migrationVars /\ [QueueNext]_queueVars /\ [LogNext]_vars_sl
         /\ [FileNext]_vars_sf /\ [CacheNext]_vars_vc /\ [SecretsNext]_secretsVars
         /\ [SharedNext]_sharedVars /\ [ConfigNext]_configVars
         /\ [CustodyNext /\ MakersAgree']_custodyVars
<1>1. CASE UNCHANGED sealingVars
  BY <1>1 DEF sealingVars
<1>2. CASE Next
  <2>1. CASE Moves("migration", MigrationNext)
    BY <2>1 DEF Moves, Still
  <2>2. CASE Moves("queue", QueueNext)
    BY <2>2 DEF Moves, Still
  <2>3. CASE Moves("log", LogNext)
    BY <2>3 DEF Moves, Still
  <2>4. CASE Moves("file", FileNext)
    BY <2>4 DEF Moves, Still
  <2>5. CASE Moves("vectors", CacheNext)
    BY <2>5 DEF Moves, Still
  <2>6. CASE Moves("secrets", SecretsNext)
    BY <2>6 DEF Moves, Still
  <2>7. CASE Moves("shared", SharedNext)
    BY <2>7 DEF Moves, Still
  <2>8. CASE Moves("config", ConfigNext)
    BY <2>8 DEF Moves, Still
  <2>9. CASE Moves("custody", CustodyNext /\ MakersAgree')
    BY <2>9 DEF Moves, Still
  <2> QED BY <1>2, <2>1, <2>2, <2>3, <2>4, <2>5, <2>6, <2>7, <2>8, <2>9 DEF Next
<1> QED BY <1>1, <1>2

LEMMA SealingStep == SealingInv /\ [Next]_sealingVars => SealingInv'
<1> SUFFICES ASSUME SealingInv, [Next]_sealingVars PROVE SealingInv'
  OBVIOUS
<1>1. /\ [MigrationNext]_migrationVars /\ [QueueNext]_queueVars /\ [LogNext]_vars_sl
      /\ [FileNext]_vars_sf /\ [CacheNext]_vars_vc /\ [SecretsNext]_secretsVars
      /\ [SharedNext]_sharedVars /\ [ConfigNext]_configVars
      /\ [CustodyNext /\ MakersAgree']_custodyVars
  BY SealingMoves
<1>2. MigrationInv' /\ QueueInv' /\ LogInv'
  BY <1>1, MigrationStepInv, QueueStep, LogStep DEF SealingInv
<1>3. FileInv' /\ CacheInv'
  BY <1>1, FileInvStep, CacheInvStep DEF SealingInv
<1>4. SecretsInv' /\ SharedInv' /\ ConfigInv'
  BY <1>1, SecretsStepInv, SharedStepInv, ConfigStepInv DEF SealingInv
<1>5. CustodyInv' /\ MakersAgree'
  <2>1. CustodyInv'
    BY <1>1, CustodyNextInv DEF SealingInv
  <2>2. ASSUME UNCHANGED custodyVars PROVE MakersAgree'
    <3>1. MakersAgree /\ slots' = slots /\ run' = run
      BY <2>2 DEF SealingInv, custodyVars
    <3>2. Existing' = Existing
      BY <3>1 DEF Existing
    <3>3. ASSUME NEW p \in Resolvers PROVE Makes(p)' <=> Makes(p)
      BY <3>1, <3>2 DEF Makes, Seeding
    <3> SUFFICES ASSUME NEW p \in Resolvers, NEW q \in Resolvers, Makes(p)', Makes(q)'
                 PROVE run[p].key' = run[q].key'
      BY DEF MakersAgree
    <3>4. Makes(p) /\ Makes(q)
      BY <3>3
    <3> QED BY <3>1, <3>4 DEF MakersAgree
  <2> QED BY <1>1, <2>1, <2>2
<1> QED BY <1>2, <1>3, <1>4, <1>5 DEF SealingInv

LEMMA SealingInductive == Spec => []SealingInv
  BY SealingStarts, SealingStep, PTL DEF Spec

\* Whichever component of the sealing library moves, its variables keep their type.
THEOREM SealingTypesCorrect == Spec => []TypesOK
<1>1. SealingInv => TypesOK
  <2> SUFFICES ASSUME SealingInv PROVE TypesOK
    OBVIOUS
  <2>1. MigrationTypeOK /\ QueueTypeOK /\ LogTypeOK /\ FileTypeOK /\ CacheTypeOK
    BY FileInvTyped DEF SealingInv, MigrationInv, QueueInv, LogInv, CacheInv
  <2>2. SecretsTypeOK /\ SharedTypeOK /\ ConfigTypeOK
    BY SecretsInvTyped, SharedInvTyped, ConfigInvTyped DEF SealingInv
  <2>3. CustodyTypeOK
    BY DEF SealingInv, CustodyInv, CustodyTyped
  <2> QED BY <2>1, <2>2, <2>3 DEF TypesOK
<1> QED BY <1>1, SealingInductive, PTL

\* And what the components promise holds of the composition as the run explores it:
\* a migration, a queue, the custody of the master key, a log, a file, a cache, the
\* secrets, a shared store and a configuration, each whatever steps the others take.
THEOREM SealingIsSound ==
  Spec => []( /\ MigrationLeavesNoPlain /\ NoJobIsStranded /\ CommittedLogOpens
              /\ ReadsAreExact /\ CacheFits /\ SealedStaysOpenable /\ SecretsOpen
              /\ SharedStoreIsSound /\ SecretsSurvive)
<1>1. SealingInv => MigrationLeavesNoPlain /\ NoJobIsStranded /\ CacheFits
  BY DEF SealingInv, MigrationInv, MigrationLeavesNoPlain, QueueInv, CacheInv
<1>2. SealingInv => CommittedLogOpens /\ ReadsAreExact
  BY LogOpens, FileInvReads DEF SealingInv
<1>3. SealingInv => SecretsOpen /\ SharedStoreIsSound /\ SecretsSurvive
  BY SecretsInvSuffices, SharedInvSuffices, ConfigInvSuffices DEF SealingInv
<1>4. SealingInv => SealedStaysOpenable
  BY SoundIsOpenable DEF SealingInv
<1> QED BY <1>1, <1>2, <1>3, <1>4, SealingInductive, PTL

\* In the composition, too, the log is one that SyncedLog allows.
THEOREM SealingLogRefinement == Spec => ImplementsSyncedLog
<1>1. Init => LogInit
  BY DEF Init
<1>2. [Next]_sealingVars => [LogNext]_vars_sl
  BY SealingMoves
<1> QED BY <1>1, <1>2, LogRefinement, PTL DEF Spec, LogSpec
=============================================================================
