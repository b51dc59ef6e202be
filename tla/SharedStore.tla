------------------------------ MODULE SharedStore ------------------------------
(* One SQLite store opened by several processes through the SQL functions of   *)
(* plugin_keys::sql: the app's sidecar with a key, a second process (an IDE's  *)
(* server, a command line) with none or with another one.  The keyed process   *)
(* records its key and seals the column; a keyless one writes plaintext until  *)
(* it notices the record.                                                      *)
EXTENDS SealedValues, Naturals

CONSTANTS
    Openers,      \* the processes
    KeyHeldBy,    \* the root of each, or NoSealKey
    NumRows, RowTexts,
    Lookalike,    \* a text that starts with `encb:'
    MaxOpens, MaxRowWrites

ASSUME SharedAssumption ==
    /\ KeyHeldBy \in [Openers -> {KeyHeldBy[p] : p \in Openers}]
    /\ Lookalike \in RowTexts /\ NoText \notin RowTexts
    /\ NumRows \in Nat /\ MaxOpens \in Nat /\ MaxRowWrites \in Nat

VARIABLES
    owner,       \* the root whose key check value the store records
    item,        \* the column's migration: absent, pending or sealed
    cursor,      \* the last row a pending migration went past
    rowsOf,      \* the stored values
    rowText,     \* history: the text each row was last given
    opener,      \* what each process is doing
    late,        \* history: rows written in plaintext after the store was recorded
    usedOf       \* opens and writes so far
sharedVars == <<owner, item, cursor, rowsOf, rowText, opener, late, usedOf>>

RowIds == 1..NumRows
Blank == Envelope("none", NoSealKey, NoPlace, NoText)
CipherHeld(p) == ContentCipher(KeyHeldBy[p], {}, "store")
Keyless(p) == KeyHeldBy[p] = NoSealKey
Away == [at |-> "down", seal |-> "none", fresh |-> FALSE]

\* Mutant of CompatText: a lookalike is stored as it is.
CompatTextRaw(t) ==
    IF t = Lookalike THEN Envelope(ContentForm, NoSealKey, NoPlace, t) ELSE Plaintext(t)

\* A text as a keyless writer stores it: a lookalike is escaped.
CompatText(t) == IF t = Lookalike THEN Envelope(EscapedForm, NoSealKey, NoPlace, t) ELSE Plaintext(t)
Unsealed(v) == v # Blank /\ v.form # ContentForm

\* StoreSeal::open_text: the escape first, then the cipher; without one an
\* envelope does not open.
OpenRow(p, r) ==
    LET v == rowsOf[r] IN
    CASE v.form = EscapedForm -> OpenedAs(v.text, opener[p].seal = "sealing")
      [] v.form # EscapedForm /\ opener[p].seal = "sealing" -> OpenContent(CipherHeld(p), r, v)
      [] opener[p].seal # "sealing" /\ v.form = ContentForm -> Refused
      [] OTHER -> Verbatim(v)
\* A list skips the rows that do not open; a lookup by id reports them.
Listed(p) == {r \in RowIds : rowsOf[r] # Blank /\ OpenRow(p, r).ok}

\* Rows of an earlier version are plaintext.
SharedInit ==
    /\ owner = NoSealKey /\ item = "absent" /\ cursor = 0
    /\ rowText \in [RowIds -> (RowTexts \ {Lookalike}) \cup {NoText}]
    /\ rowsOf = [r \in RowIds |-> IF rowText[r] = NoText THEN Blank ELSE Plaintext(rowText[r])]
    /\ opener = [p \in Openers |-> Away]
    /\ late = {} /\ usedOf = [opens |-> 0, writes |-> 0]

Step(p, next) == opener' = [opener EXCEPT ![p] = next]
\* sqlite_store_seal: the record is checked, or made, before anything is sealed.
OpenShared(p) ==
    /\ opener[p] = Away /\ usedOf.opens < MaxOpens
    /\ usedOf' = [usedOf EXCEPT !.opens = @ + 1]
    /\ IF Keyless(p)
       THEN /\ Step(p, [at |-> "up", fresh |-> FALSE,
                        seal |-> IF owner = NoSealKey THEN "compat" ELSE "unhealthy"])
            /\ owner' = owner
       ELSE IF owner \in {NoSealKey, KeyHeldBy[p]}
       THEN /\ Step(p, [at |-> "reopen", fresh |-> FALSE, seal |-> "sealing"])
            /\ owner' = KeyHeldBy[p]
       ELSE /\ Step(p, [at |-> "up", fresh |-> FALSE, seal |-> "unhealthy"])
            /\ owner' = owner
    /\ UNCHANGED <<item, cursor, rowsOf, rowText, late>>

\* A finished column that holds plaintext again is walked again.
ReopenColumn(p) ==
    /\ opener[p].at = "reopen"
    /\ IF item = "sealed" /\ \E r \in RowIds : Unsealed(rowsOf[r])
       THEN item' = "pending" /\ cursor' = 0
       ELSE UNCHANGED <<item, cursor>>
    /\ Step(p, [opener[p] EXCEPT !.at = "migrate"])
    /\ UNCHANGED <<owner, rowsOf, rowText, late, usedOf>>
AheadOf(c) == {r \in RowIds : r > c /\ rowsOf[r] # Blank}
\* One batch: the next row ahead of the cursor, sealed if it is not.
SealNext(p) ==
    /\ opener[p].at = "migrate" /\ item # "sealed" /\ AheadOf(cursor) # {}
    /\ LET r == CHOOSE x \in AheadOf(cursor) : \A y \in AheadOf(cursor) : x <= y
           o == OpenRow(p, r)
       IN /\ rowsOf' = IF o.reseal THEN [rowsOf EXCEPT ![r] = SealContent(CipherHeld(p), r, o.text)]
                       ELSE rowsOf
          /\ late' = late \ {r}
          /\ cursor' = r /\ item' = "pending"
    /\ UNCHANGED <<owner, rowText, opener, usedOf>>
ColumnDone(p) ==
    /\ opener[p].at = "migrate"
    /\ item = "sealed" \/ AheadOf(cursor) = {}
    /\ item' = "sealed" /\ cursor' = 0
    /\ Step(p, [opener[p] EXCEPT !.at = "up"])
    /\ UNCHANGED <<owner, rowsOf, rowText, late, usedOf>>

Store(r, v, t) ==
    /\ usedOf.writes < MaxRowWrites
    /\ rowsOf' = [rowsOf EXCEPT ![r] = v]
    /\ rowText' = [rowText EXCEPT ![r] = t]
    /\ late' = IF v.form # ContentForm /\ owner # NoSealKey THEN late \cup {r} ELSE late \ {r}
    /\ usedOf' = [usedOf EXCEPT !.writes = @ + 1]
    /\ UNCHANGED <<owner, item, cursor>>
WriteSealed(p, r, t) ==
    /\ opener[p].at = "up" /\ opener[p].seal = "sealing"
    /\ Store(r, SealContent(CipherHeld(p), r, t), t) /\ opener' = opener
\* ensure_compat_write inside the write transaction.
WriteGuarded(p, r, t) ==
    /\ opener[p].at = "up" /\ opener[p].seal = "compat" /\ owner = NoSealKey
    /\ Store(r, CompatText(t), t) /\ opener' = opener
\* refresh_compat before the write: two steps.
Refresh(p) ==
    /\ opener[p].at = "up" /\ opener[p].seal = "compat"
    /\ Step(p, [opener[p] EXCEPT !.fresh = owner = NoSealKey,
                                 !.seal = IF owner = NoSealKey THEN "compat" ELSE "unhealthy"])
    /\ UNCHANGED <<owner, item, cursor, rowsOf, rowText, late, usedOf>>
WriteRefreshed(p, r, t) ==
    /\ opener[p].at = "up" /\ opener[p].seal = "compat" /\ opener[p].fresh
    /\ Store(r, CompatText(t), t)
    /\ Step(p, [opener[p] EXCEPT !.fresh = FALSE])
CloseShared(p) ==
    /\ opener[p] # Away /\ Step(p, Away)
    /\ UNCHANGED <<owner, item, cursor, rowsOf, rowText, late, usedOf>>

SharedNext == \E p \in Openers :
    \/ OpenShared(p) \/ ReopenColumn(p) \/ SealNext(p) \/ ColumnDone(p) \/ Refresh(p) \/ CloseShared(p)
    \/ \E r \in RowIds, t \in RowTexts :
         WriteSealed(p, r, t) \/ WriteGuarded(p, r, t) \/ WriteRefreshed(p, r, t)
SharedSpec == SharedInit /\ [][SharedNext]_sharedVars

\* Every variable of this module keeps its type.
SharedTypeOK ==
    /\ owner \in {KeyHeldBy[p] : p \in Openers} \cup {NoSealKey}
    /\ item \in {"absent", "pending", "sealed"} /\ cursor \in 0..NumRows
    /\ \A r \in RowIds : rowsOf[r].form \in {"none", PlainForm, EscapedForm, ContentForm}
    /\ rowText \in [RowIds -> RowTexts \cup {NoText}]
    /\ opener \in [Openers -> [at : {"down", "reopen", "migrate", "up"}, fresh : BOOLEAN,
                               seal : {"none", "compat", "sealing", "unhealthy"}]]
    /\ late \subseteq RowIds
    /\ usedOf \in [opens : 0..MaxOpens, writes : 0..MaxRowWrites]

\* A process that seals opens every row to the text it was last given, and one
\* that does not takes no envelope for a text: what it opens is that text
\* (StoreSeal::seal_text and open_text_detailed, the `encb:raw:' escape).
RowsKeepTheirText ==
    \A p \in Openers : opener[p].at # "down" =>
        \A r \in RowIds : rowsOf[r] # Blank =>
            /\ opener[p].seal = "sealing" => r \in Listed(p)
            /\ r \in Listed(p) => OpenRow(p, r).text = rowText[r]

\* Plaintext in a finished column was written after the record, by a process
\* that had looked before it: the next open of the sidecar walks the column
\* again (SqlSeal::refresh_compat, reopen_plaintext_items).
PlainIsLate ==
    item = "sealed" => \A r \in RowIds : Unsealed(rowsOf[r]) => r \in late
SharedStoreIsSound == RowsKeepTheirText /\ PlainIsLate
=============================================================================
