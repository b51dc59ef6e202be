----------------------------- MODULE Conversations -----------------------------
(* The mails of one inbox as conversations: what a send, a reply, a reply to   *)
(* all, a forward or a draft posts to whom, the checks it passes first, which   *)
(* thread its row and the rows of the answers belong to, and the thread lists.  *)
(* Other people are free to answer anything with the headers they like.         *)
EXTENDS Naturals, SequencesExt, Selection

CONSTANTS
    MailAddresses, \* as they are written, case included
    LowerOf,       \* the same in lower case
    OwnAddress,    \* the inbox's address
    Arrivals,      \* [from, to, cc] of the mails other people write
    Asked,         \* recipients a request may ask for, none among them
    Blockable,     \* addresses, in lower case, that may be blocked
    MaxMails,
    MaxRecipients,
    SummaryMails,  \* THREAD_SUMMARY_MESSAGES
    MaxEdits       \* changes of the block list, and of the mails

ASSUME ConversationAssumption ==
    /\ OwnAddress \in MailAddresses /\ LowerOf \in [MailAddresses -> MailAddresses]
    /\ MaxMails \in Nat \ {0} /\ MaxRecipients \in Nat \ {0} /\ SummaryMails \in Nat \ {0}
    /\ MaxEdits \in Nat
\* Mails and requests name addresses, and a list may be empty.
ASSUME AddressesAssumption ==
    /\ Arrivals \subseteq [from : MailAddresses, to : Seq(MailAddresses), cc : Seq(MailAddresses)]
    /\ Asked \subseteq Seq(MailAddresses) /\ Blockable \subseteq MailAddresses

VARIABLES
    mails,      \* table messages, in the order of created_at
    blocked,    \* addresses on the block list for `send', in lower case
    posting,    \* the request whose checks are over: [body, blocked], or Nothing_cv
    envelopes,  \* history: per outbound mail who the relay took it for, and the list it was checked by
    edits
conversationVars == <<mails, blocked, posting, envelopes, edits>>

\* Message-IDs as they are stored and compared, one string with another: with the
\* angle brackets or without.  The mails are numbered by arrival.
Ids == [of : 0..MaxMails, form : {"bare", "angle"}]
NoId == [of |-> MaxMails + 1, form |-> "bare"]
\* parse_raw takes the brackets off the ids of a header.
Bare(id) == [of |-> id.of, form |-> "bare"]
\* A mail the inbox never saw.
Outside == [of |-> 0, form |-> "bare"]
NoCause == 0
Nothing_cv == [body |-> <<>>, blocked |-> {}]
Live_cv == {i \in 1..Len(mails) : ~mails[i].gone}

\* ------------------------------------------------------------ threads
\* The first reference, else the mail answered, else the mail itself.
ThreadFor(refs, answers, own) ==
    IF refs # <<>> THEN Head(refs) ELSE IF answers # NoId THEN answers ELSE own
\* Rows of an older version have no thread id: lists fall back on the mail's own.
ThreadKey(i) == IF mails[i].thread = NoId THEN mails[i].id ELSE mails[i].thread

MailRow(direction, id, from, to, cc, bcc, refs, answers, thread, cause) ==
    [direction |-> direction, id |-> id, from |-> from, to |-> to, cc |-> cc, bcc |-> bcc,
     refs |-> refs, answers |-> answers, thread |-> thread, gone |-> FALSE, trash |-> FALSE,
     cause |-> cause]
NewId(form) == [of |-> Len(mails) + 1, form |-> form]

\* A mail that answers none, and one that joined its thread by In-Reply-To alone.
Starts(i) == mails[i].refs = <<>> /\ mails[i].answers = NoId
CutShort(i) == mails[i].refs = <<>> /\ mails[i].answers # NoId

\* ------------------------------------------------------------ inbound
\* What an answer to the mail i may name: i, and mails that i's own headers name,
\* which may be more than its row keeps.
Named(i) == {Bare(mails[i].id)} \cup
    IF Starts(i) THEN {} ELSE {Outside} \cup {Bare(mails[j].id) : j \in 1..i}
\* An id that this code made up for a mail without one is not known outside.
Answerable == {i \in 1..Len(mails) : mails[i].direction = "outbound" \/ mails[i].id.form = "bare"}
\* The headers as parse_raw reads them: of several References it takes one.
AnswerHeaders == {[refs |-> <<>>, answers |-> NoId, cause |-> NoCause],
                  [refs |-> <<Outside>>, answers |-> Outside, cause |-> NoCause]}
    \cup UNION {{[refs |-> r, answers |-> Bare(mails[i].id), cause |-> i] :
                    r \in {<<>>} \cup {<<x>> : x \in Named(i)}} : i \in Answerable}
\* A mail without a Message-ID gets one, in brackets.
MailArrives(m) ==
    /\ Len(mails) < MaxMails
    /\ \E h \in AnswerHeaders, form \in {"bare", "angle"} :
         mails' = Append(mails, MailRow("inbound", NewId(form), m.from, m.to, m.cc, <<>>,
                           h.refs, h.answers, ThreadFor(h.refs, h.answers, NewId(form)), h.cause))
    /\ UNCHANGED <<blocked, posting, envelopes, edits>>

\* ------------------------------------------------------------ outbound
\* Custom headers: fit to send, none among them; reserved (a Bcc to an address);
\* or malformed.
NoHeader == [kind |-> "custom", adds |-> <<>>]
Headers == {NoHeader, [kind |-> "malformed", adds |-> <<>>]}
    \cup {[kind |-> "reserved", adds |-> a] : a \in Asked \ {<<>>}}
\* Mutant of HeaderAllowed: reserved names are let through.
HeaderAllowedAny(h) == h.kind # "malformed"

HeaderAllowed(h) == h.kind = "custom"
Lowered(addresses) == {LowerOf[a] : a \in ToSet(addresses)}
Body(to, cc, bcc, refs, answers, header, cause) ==
    [to |-> to, cc |-> cc, bcc |-> bcc, refs |-> refs, answers |-> answers, header |-> header,
     cause |-> cause]
Recipients(body) == body.to \o body.cc \o body.bcc

\* check_outbound_shape, then check_outbound_policy.
ShapeOk(body) ==
    /\ body.to # <<>> /\ Len(Recipients(body)) <= MaxRecipients
    /\ HeaderAllowed(body.header)
PolicyOk(body) == Lowered(Recipients(body)) \cap blocked = {}
SendOut(body) ==
    /\ posting = Nothing_cv /\ Len(mails) < MaxMails
    /\ ShapeOk(body) /\ PolicyOk(body)
    /\ posting' = [body |-> body, blocked |-> blocked]
    /\ UNCHANGED <<mails, blocked, envelopes, edits>>

\* A reply's references, whatever it answers, as the row has them.
ReplyBody(i, to, cc, header) ==
    Body(to, cc, <<>>, Append(mails[i].refs, mails[i].id), mails[i].id, header, i)
\* The sender unless the request names others; from the inbox's own mails too.
Reply(i, asked, cc, header) ==
    SendOut(ReplyBody(i, IF asked = <<>> THEN <<mails[i].from>> ELSE asked, cc, header))
\* Everyone but the inbox; when the inbox cannot be read, everyone.
AllOf(i, inboxKnown) ==
    Selected(<<mails[i].from>> \o mails[i].to \o mails[i].cc,
             {a \in MailAddresses : inboxKnown => LowerOf[a] # LowerOf[OwnAddress]})
ReplyAll(i, asked) ==
    \E inboxKnown \in BOOLEAN :
        SendOut(ReplyBody(i, IF asked = <<>> THEN AllOf(i, inboxKnown) ELSE asked, <<>>, NoHeader))
Forward_cv(i, to) == SendOut(Body(to, <<>>, <<>>, <<>>, NoId, NoHeader, NoCause))
\* A send joins a thread by the references or the mail it names, as the rows that it
\* was read from have them; RFC 5322 references of an answer, or In-Reply-To only.
Referring(i) == Append(
    IF mails[i].refs # <<>> THEN mails[i].refs
    ELSE IF mails[i].answers # NoId THEN <<mails[i].answers>> ELSE <<>>, mails[i].id)
Send_cv(to, bcc, header) ==
    \/ SendOut(Body(to, <<>>, bcc, <<>>, NoId, header, NoCause))
    \/ \E i \in Live_cv : SendOut(Body(to, <<>>, bcc, <<>>, mails[i].id, header, i))
    \/ \E i \in Live_cv : SendOut(Body(to, <<>>, bcc, Referring(i), mails[i].id, header, i))
\* A draft may carry a thread id; what is posted carries no reference.
SendDraft(to) == SendOut(Body(to, <<>>, <<>>, <<>>, NoId, NoHeader, NoCause))

\* The envelope is made of the typed fields, and a header that is not allowed is
\* refused again; Core's relay, which is not this code, reads the headers.
RelayTakes(body, local) ==
    ToSet(Recipients(body)) \cup (IF local THEN {} ELSE ToSet(body.header.adds))
\* generate_message_id puts the brackets around its ids; Core's are as it answers them.
Handed ==
    /\ posting # Nothing_cv /\ Len(mails) < MaxMails
    /\ \E local \in BOOLEAN, form \in {"bare", "angle"} :
         /\ local => HeaderAllowed(posting.body.header) /\ form = "angle"
         /\ LET body == posting.body  own == NewId(form) IN
            /\ mails' = Append(mails, MailRow("outbound", own, OwnAddress, body.to, body.cc,
                                 body.bcc, body.refs, body.answers,
                                 ThreadFor(body.refs, body.answers, own), body.cause))
            /\ envelopes' = envelopes \cup
                 {[mail |-> own.of, to |-> RelayTakes(body, local), checked |-> posting.blocked]}
    /\ posting' = Nothing_cv
    /\ UNCHANGED <<blocked, edits>>
NotHanded ==
    /\ posting # Nothing_cv /\ posting' = Nothing_cv
    /\ UNCHANGED <<mails, blocked, envelopes, edits>>

\* ------------------------------------------------------------ the rest
Edited == edits < MaxEdits /\ edits' = edits + 1
Mark(i, row) ==
    /\ Edited /\ mails[i] # row /\ mails' = [mails EXCEPT ![i] = row]
    /\ UNCHANGED <<blocked, posting, envelopes>>
TrashMail(i) == Mark(i, [mails[i] EXCEPT !.trash = TRUE])
DeleteMail(i) == Mark(i, [mails[i] EXCEPT !.gone = TRUE])
ChangeBlocks(b) ==
    /\ Edited /\ blocked # b /\ blocked' = b
    /\ UNCHANGED <<mails, posting, envelopes>>

\* An older version may have left a mail without a thread id.
ConversationInit ==
    /\ \/ mails = <<>>
       \/ \E m \in Arrivals, form \in {"bare", "angle"} :
            mails = <<MailRow("inbound", [of |-> 1, form |-> form], m.from, m.to, m.cc, <<>>,
                              <<>>, NoId, NoId, NoCause)>>
    /\ blocked = {} /\ posting = Nothing_cv /\ envelopes = {} /\ edits = 0

ConversationNext ==
    \/ \E m \in Arrivals : MailArrives(m)
    \/ \E i \in Live_cv :
         \/ \E asked \in Asked, h \in Headers : Reply(i, asked, <<>>, h)
         \/ \E asked \in Asked : ReplyAll(i, asked) \/ Forward_cv(i, asked)
         \/ TrashMail(i) \/ DeleteMail(i)
    \/ \E to \in Asked, bcc \in Asked, h \in Headers : Send_cv(to, bcc, h)
    \/ \E to \in Asked : SendDraft(to)
    \/ Handed \/ NotHanded
    \/ \E b \in SUBSET Blockable : ChangeBlocks(b)
ConversationSpec == ConversationInit /\ [][ConversationNext]_conversationVars

\* ------------------------------------------------------------ queries
Listable == {i \in Live_cv : ~mails[i].trash}
NewestFirst(ids) == Descending(ids)
RowsOfKey(k) == {i \in Listable : ThreadKey(i) = k}
\* The mails that are the newest of their threads.
ThreadHeads == {i \in Listable : \A j \in RowsOfKey(ThreadKey(i)) : j <= i}
\* Threads by their newest mail, a page of them, with their newest mails.
ListThreads(limit) ==
    LET heads == NewestFirst(ThreadHeads)
        least(a, b) == IF a < b THEN a ELSE b
        entry(k) == [key |-> k, count |-> Cardinality(RowsOfKey(k)),
                     shown |-> SubSeq(NewestFirst(RowsOfKey(k)), 1,
                                      least(Cardinality(RowsOfKey(k)), SummaryMails))]
    IN [n \in 1..least(Len(heads), limit) |-> entry(ThreadKey(heads[n]))]
\* By the stored thread id: newest first, trash included.
GetThread(t) == NewestFirst({i \in Live_cv : mails[i].thread = t})
UsageThreads == Cardinality({mails[i].thread : i \in {j \in Live_cv : mails[j].thread # NoId}})

\* ------------------------------------------------------------ properties
\* Every variable of this module keeps its type.
ConversationTypeOK ==
    /\ Len(mails) <= MaxMails
    /\ \A i \in 1..Len(mails) :
         /\ mails[i].direction \in {"inbound", "outbound"} /\ mails[i].from \in MailAddresses
         /\ ToSet(mails[i].refs) \subseteq Ids /\ mails[i].answers \in Ids \cup {NoId}
         /\ mails[i].id \in Ids /\ mails[i].id.of = i
         /\ mails[i].thread \in Ids \cup {NoId} /\ mails[i].cause \in 0..MaxMails
    /\ blocked \in SUBSET MailAddresses /\ posting.blocked \in SUBSET MailAddresses
    /\ \A e \in envelopes : e.mail \in 1..MaxMails /\ e.checked \in SUBSET MailAddresses
    /\ edits \in 0..MaxEdits

\* What the inbox answers stays in the thread of the mail that it answers, through
\* any number of answers, as long as neither names what it answers without
\* References; and whoever answers the first mail of a conversation is in its
\* thread, if that mail's id is stored as the answer's headers are read
\* (send_body_from_reply, send_from_inbox, inbound).
ConversationIsOneThread ==
    \A i \in 1..Len(mails) :
        LET parent == mails[i].cause
            sent == mails[i].direction = "outbound"
        IN
        parent # NoCause /\ \/ sent /\ ~CutShort(i) /\ ~CutShort(parent)
                            \/ Starts(parent) /\ (sent \/ mails[parent].id.form = "bare")
            => mails[i].thread = ThreadKey(parent)

\* The stored row of a sent mail names everyone the relay took it for, and each
\* of them had passed the block list (reserved_header_name: "a stored record that
\* no longer matches what was sent").
StoredIsSent ==
    \A e \in envelopes :
        LET row == mails[e.mail] IN
        /\ e.to = ToSet(row.to \o row.cc \o row.bcc)
        /\ Lowered(row.to \o row.cc \o row.bcc) \cap e.checked = {}

\* Every listed thread opens by its id and holds all the list shows of it, but
\* for a mail of the older version; and without such a mail usage counts every
\* thread that is listed.
ListedThreadsOpen ==
    LET listed == ListThreads(MaxMails) IN
    /\ \A n \in 1..Len(listed) :
         \A j \in 1..Len(listed[n].shown) :
             LET i == listed[n].shown[j] IN
             mails[i].thread # NoId => i \in ToSet(GetThread(listed[n].key))
    /\ (\A i \in Live_cv : mails[i].thread # NoId) => Len(listed) <= UsageThreads

\* The three together.
ConversationsHold == ConversationIsOneThread /\ StoredIsSent /\ ListedThreadsOpen
=============================================================================
