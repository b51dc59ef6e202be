------------------------------ MODULE SealedValues ------------------------------
(* The ciphers of ryu-crypto by what they open.  A stored value is a record:  *)
(* the form of its envelope, the key and the place it is bound to, and the    *)
(* text.  Cryptography is ideal: an envelope opens under its own key and      *)
(* place and under no other.                                                  *)
EXTENDS Naturals, FiniteSets

CONSTANTS NoSealKey, NoPlace, NoText

\* A key derived for one use: distinct domains, roots or names give distinct keys.
Derived(domain, root, name) == <<domain, root, name>>
PluginKey(root, app) == Derived("plugin", root, app)
ComponentKey(root, name) == Derived("component", root, name)
StoreKey(root, store) == Derived("content", root, store)
OldMailKey(root) == Derived("mail", root, NoText)

\* The forms of looks_sealed: each envelope names its scheme.
MasterForm == "enc:v1"
TenantForm == "enc:v2"
PluginForm == "encp:v1"
ComponentForm == "encc:v1"
ContentForm == "encb:v1"
CloudForm == "encm:v1"
Sealed == {MasterForm, TenantForm, PluginForm, ComponentForm, ContentForm, CloudForm}
\* A content envelope of a later version, and the escape of a keyless writer.
NewerForm == "encb:v9"
EscapedForm == "encb:raw"
PlainForm == "plain"

Envelope(form, key, place, text) == [form |-> form, key |-> key, place |-> place, text |-> text]
Plaintext(text) == Envelope(PlainForm, NoSealKey, NoPlace, text)
LooksSealed(v) == v.form \in Sealed

\* A cipher seals under one key and also opens what retired keys sealed.
CipherOf(form, key, retired) == [form |-> form, key |-> key, retired |-> retired]
KeysHeld(c) == {c.key} \cup c.retired

OpenedAs(text, stale) == [ok |-> TRUE, text |-> text, reseal |-> stale]
Refused == [ok |-> FALSE, text |-> NoText, reseal |-> FALSE]
\* What does not carry the scheme's prefix is returned as it is stored.
Verbatim(v) == OpenedAs(IF v.form = PlainForm THEN v.text ELSE v, TRUE)

\* The current key, then each retired one, with the place as associated data.
Decrypted(c, v, place) ==
    IF v.key \in KeysHeld(c) /\ v.place = place THEN OpenedAs(v.text, v.key # c.key) ELSE Refused

SealWith(c, text) == Envelope(c.form, c.key, NoPlace, text)

\* The ciphers as they stand: master key, plugin subkey, component subkey.
FieldOpen(c, v) == IF v.form = MasterForm THEN Decrypted(c, v, NoPlace) ELSE Verbatim(v)
PluginOpen(c, v) ==
    CASE v.form = PluginForm -> Decrypted(c, v, NoPlace)
      [] v.form = MasterForm -> Refused
      [] OTHER -> Verbatim(v)
ComponentOpen(c, v) ==
    CASE v.form = ComponentForm -> Decrypted(c, v, NoPlace)
      [] v.form # ComponentForm /\ LooksSealed(v) -> Refused
      [] OTHER -> Verbatim(v)

\* The same behind SecretSealer: no envelope of another scheme passes as text,
\* and only the master-key cipher reports a retired key.
SealerOpen(c, v) ==
    IF v.form # c.form /\ LooksSealed(v) THEN Refused
    ELSE LET o == CASE c.form = MasterForm -> FieldOpen(c, v)
                    [] c.form = PluginForm -> PluginOpen(c, v)
                    [] c.form = ComponentForm -> ComponentOpen(c, v)
         IN IF c.form = MasterForm \/ v.form # c.form THEN o ELSE [o EXCEPT !.reseal = FALSE]

\* Content: bound to its place, any text but a content envelope passes through.
ContentCipher(root, retired, store) ==
    CipherOf(ContentForm, StoreKey(root, store), {StoreKey(r, store) : r \in retired \ {root}})
SealContent(c, place, text) == Envelope(ContentForm, c.key, place, text)
OpenContent(c, place, v) ==
    CASE v.form = ContentForm -> Decrypted(c, v, place)
      [] v.form = NewerForm -> Refused
      [] OTHER -> Verbatim(v)
=============================================================================
