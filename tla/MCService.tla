------------------------------- MODULE MCService -------------------------------
(* Components of the mail backend that share no state, checked in one run:    *)
(* `part' names the one that moves in a behaviour.                            *)
EXTENDS WebhookDelivery, RealtimeStream, MessageMarks, SearchScan, MailRegistry,
        HostCalls, SidecarHandoff, PeerProof, Conversations

CONSTANTS e1, e2, e3, m1, m2, m3, m4

\* Webhooks: filtered by inbox and by type; e1 is of inbox i1, e2 of inbox i2.
TwoAxes == {"inbox", "type"}
Facts == [e \in {e1, e2} |-> [a \in TwoAxes |->
            IF a = "type" THEN NoValue ELSE IF e = e1 THEN "i1" ELSE "i2"]]
Nothing == [a \in TwoAxes |-> {}]
KeepAll == [a \in TwoAxes |-> Keep]
TwoPatches == {
  [url |-> Keep, enabled |-> Keep, only |-> KeepAll, drop |-> [Nothing EXCEPT !["inbox"] = {"i1"}],
   rotate |-> FALSE],
  [url |-> "public", enabled |-> TRUE, only |-> [KeepAll EXCEPT !["inbox"] = {"i2"}],
   drop |-> Nothing, rotate |-> TRUE]}

\* Streams: a filter that takes e1, and one that takes the others.
TwoFilters == {{e1}, {e2, e3}}

\* The search: m2 matches on its subject and its text does not open; m3 would match
\* on its text, but its subject does not open.
TwoScanned == <<"subject", "text">>
MailHits == [m \in Mails |-> IF m \in {m1, m3} THEN {"text"} ELSE {"subject"}]
MailShut == [m \in Mails |-> CASE m = m2 -> {"text"} [] m = m3 -> {"subject"} [] OTHER -> {}]

\* The handoff opens the items routes, and is asked for others too.
ItemsRoutes == {<<"items">>}
TwoPaths == {<<"items", "x">>, <<"admin">>}

\* Conversations: somebody writes to the inbox in another case, and to ben too.
TwoCases == [a \in MailAddresses |-> IF a = "BOT" THEN "bot" ELSE a]
OneArrival == {[from |-> "amy", to |-> <<"BOT">>, cc |-> <<"ben">>]}
NoneOrBen == {<<>>, <<"ben">>}

VARIABLE part
Parts == {"webhooks", "stream", "marks", "search", "registry", "host", "handoff", "proof",
          "conversation"}

serviceVars == <<vars_wd, vars_rs, vars_mm, vars_ss, vars_mr, hostVars, handoffVars,
                 proofVars, conversationVars, part>>

\* The components other than p keep their state.
Still(p) ==
  /\ p # "webhooks" => UNCHANGED vars_wd
  /\ p # "stream" => UNCHANGED vars_rs
  /\ p # "marks" => UNCHANGED vars_mm
  /\ p # "search" => UNCHANGED vars_ss
  /\ p # "registry" => UNCHANGED vars_mr
  /\ p # "host" => UNCHANGED hostVars
  /\ p # "handoff" => UNCHANGED handoffVars
  /\ p # "proof" => UNCHANGED proofVars
  /\ p # "conversation" => UNCHANGED conversationVars
Moves(p, next) == part = p /\ next /\ Still(p) /\ part' = part

Init ==
  /\ part \in Parts
  /\ WebhookInit /\ StreamInit /\ MarksInit
  /\ SearchInit
  /\ part # "search" => table = <<>>
  /\ RegistryInit
  /\ part # "registry" => \A i \in LegacyInboxes :
       inboxes[i] = [address |-> CHOOSE a \in Addresses : TRUE, client |-> NoClient,
                     pod |-> NoPod, at |-> 0]
  /\ HostInit
  /\ part # "host" => env = [port |-> None_hc, bind |-> None_hc, token |-> FALSE, transport |-> FALSE]
  /\ HandoffInit /\ ProofInit
  /\ ConversationInit
  /\ part # "conversation" => mails = <<>>

Next ==
  \/ Moves("webhooks", WebhookNext)
  \/ Moves("stream", StreamNext)
  \/ Moves("marks", MarksNext)
  \/ Moves("search", SearchNext)
  \/ Moves("registry", RegistryNext)
  \/ Moves("host", HostNext)
  \/ Moves("handoff", HandoffNext)
  \/ Moves("proof", ProofNext)
  \/ Moves("conversation", ConversationNext)

\* The fairness of WebhookFairSpec, while its part moves.
Spec == /\ Init /\ [][Next]_serviceVars
        /\ \A p \in Pairs : WF_vars_wd(part = "webhooks" /\ TaskStep(p))

\* One mishap of the webhook part per behaviour, a failed store call or a crash, which
\* only one event meets: the other one is not told then or later.
OneMishap ==
  /\ spent.faults + spent.crashes <= 1
  /\ spent.faults + spent.crashes = 1 => \E e \in Events : emitting[e].stage = "new"
\* Marks and block lists change in conversations whose ids are all stored bare, before
\* the last mail or right after it; those with other ids are explored without.
EditsAmongBare ==
  edits > 0 => Len(mails) < MaxMails /\ \A i \in 1..Len(mails) : mails[i].id.form = "bare"
\* Wires of five symbols carry any line, or deltas with returns; those of six, deltas
\* and end markers.
FewLines ==
  LET symbols == ToSet(stream.wire) IN
  /\ CR \in symbols => Len(stream.wire) <= 5 /\ symbols \subseteq {"delta", CR, NL}
  /\ Len(stream.wire) > 5 => symbols \subseteq {"delta", "[DONE]", NL}
Explored == OneMishap /\ EditsAmongBare /\ FewLines

\* Every variable of the component that moves keeps its type.
TypesOK ==
  /\ part = "webhooks" => WebhookTypeOK
  /\ part = "stream" => StreamTypeOK
  /\ part = "marks" => MarksTypeOK
  /\ part = "search" => SearchTypeOK
  /\ part = "registry" => RegistryTypeOK
  /\ part = "host" => HostTypeOK
  /\ part = "handoff" => HandoffTypeOK
  /\ part = "proof" => ProofTypeOK
  /\ part = "conversation" => ConversationTypeOK
=============================================================================
