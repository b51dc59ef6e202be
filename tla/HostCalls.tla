------------------------------- MODULE HostCalls -------------------------------
(* The mail process calls its host: the clients of the ryu-app-events crate    *)
(* (events, rooms, usage, managed providers, model streams) and the email       *)
(* transport of host.rs.  Each call is one request, never repeated; Core acts   *)
(* or rejects, and the request or its answer may be lost.  A model stream is    *)
(* read from a wire that arrives in chunks cut anywhere.                        *)
EXTENDS Naturals, SequencesExt, Selection

CONSTANTS
    HostCallers,
    None_hc,      \* an absent field, result or text
    WireLines,    \* the lines a model stream may carry
    MaxWire,      \* lines and line breaks of a stream
    MaxHostCalls

ASSUME HostAssumption == MaxWire \in Nat /\ MaxHostCalls \in Nat

VARIABLES
    env,      \* the environment of the process: ports, token, a transport of its own
    call,     \* what each caller is doing
    stream,   \* the model stream that is being read
    made      \* calls so far
hostVars == <<env, call, stream, made>>

Loopback == "7980"
HostEnvs == [port : {None_hc, "bad", Loopback}, bind : {None_hc, Loopback},
             token : BOOLEAN, transport : BOOLEAN]

\* RYU_CORE_PORT if it parses, else the port of RYU_BIND.
CorePort == IF env.port \notin {None_hc, "bad"} THEN env.port
            ELSE env.bind
IsHosted == CorePort # None_hc /\ env.token
StreamPort == CorePort
\* host.rs takes RYU_CORE_PORT as it stands and does not look at RYU_BIND.
EmailHosted == env.port # None_hc /\ env.token
EmailAvailable == EmailHosted \/ env.transport

\* ---------------------------------------------------------- requests
\* A text by what its validation looks at.
Text(size) == [size |-> size, blank |-> FALSE, control |-> FALSE]
BlankText == [size |-> 1, blank |-> TRUE, control |-> FALSE]
ControlText == [size |-> 1, blank |-> FALSE, control |-> TRUE]
TextsAround(max) == {Text(max), Text(max + 1), BlankText, ControlText}
Given(t, max) == ~t.blank /\ t.size <= max
ValidText(t, max) == Given(t, max) /\ ~t.control
AtMost(t, max) == t = None_hc \/ t.size <= max

MaxModel == 256
MaxRequestId == 128
MaxMessages == 40
MaxMessage == 32768
MaxContext == 131072
MaxTokens == 4096
Message(role, t) == [role |-> role, content |-> t]
ModelRequests ==
    LET plain == [model |-> Text(1), id |-> Text(1), messages |-> <<Message("user", Text(1))>>,
                  slot |-> "slot", tokens |-> None_hc, warm |-> TRUE]
        many(n, t) == [i \in 1..n |-> Message("user", t)]
    IN {plain} \cup {[plain EXCEPT !.model = t] : t \in TextsAround(MaxModel)}
       \cup {[plain EXCEPT !.id = t] : t \in TextsAround(MaxRequestId)}
       \cup {[plain EXCEPT !.messages = m] : m \in {many(0, Text(1)), many(MaxMessages + 1, Text(1)),
              many(4, Text(MaxMessage)), many(5, Text(MaxMessage)), many(1, Text(MaxMessage + 1)),
              <<Message("tool", Text(1))>>}}
       \cup {[plain EXCEPT !.slot = p] : p \in {None_hc, "url", "bad"}}
       \cup {[plain EXCEPT !.tokens = n] : n \in {0, 1, MaxTokens, MaxTokens + 1}}
       \cup {[plain EXCEPT !.warm = FALSE]}
ModelValid(r) ==
    /\ ValidText(r.model, MaxModel) /\ ValidText(r.id, MaxRequestId)
    /\ Len(r.messages) \in 1..MaxMessages
    /\ \A i \in 1..Len(r.messages) :
         /\ r.messages[i].role \in {"system", "user", "assistant"}
         /\ r.messages[i].content.size \in 1..MaxMessage /\ ~r.messages[i].content.control
    /\ FoldLeft(LAMBDA sum, m : sum + m.content.size, 0, r.messages) <= MaxContext
    /\ r.slot \in {None_hc, "slot"}
    /\ r.tokens # None_hc => r.tokens \in 1..MaxTokens
    /\ r.warm

PublishRequests == [room : TextsAround(512), event : TextsAround(128), bytes : {256 * 1024, 256 * 1024 + 1}]
PublishValid(r) == ValidText(r.room, 512) /\ ValidText(r.event, 128) /\ r.bytes <= 256 * 1024

ToolUsageReports == [provider : TextsAround(64), tool : TextsAround(256), id : {Text(256), Text(257)},
                     transaction : {None_hc, Text(257)}, task : {None_hc, Text(256)}, calls : 0..1]
UsageValid(r) ==
    /\ Given(r.provider, 64) /\ Given(r.tool, 256) /\ Given(r.id, 256)
    /\ AtMost(r.transaction, 256) /\ AtMost(r.task, 256) /\ r.calls > 0

HourMs == 3600000
ManagedProviderCalls == [provider : TextsAround(64), tool : {Text(256), BlankText}, method : TextsAround(16),
                         id : {Text(256)}, key : {None_hc, Text(257)}, task : {None_hc, Text(257)},
                         timeout : {None_hc, 0, 1, HourMs, HourMs + 1}]
ProviderValid(r) ==
    /\ Given(r.provider, 64) /\ Given(r.tool, 256) /\ Given(r.method, 16) /\ Given(r.id, 256)
    /\ AtMost(r.key, 256) /\ AtMost(r.task, 256)
    /\ r.timeout # None_hc => r.timeout \in 1..HourMs

\* ---------------------------------------------------------- answers
\* What comes back: the transport's failure, or a status and a body.
Bodies == {"unreadable", "plain", "yes", "no", "id"}
Answers == [status : {"ok", "rejected"}, body : Bodies]
TransportFailed == [status |-> "none", body |-> "unreadable"]

\* The errors of each client; a success is "ok".
ModelStreamError == {"NotHosted", "Invalid", "Transport", "Rejected", "Protocol"}
RealtimePublishError == {"NotHosted", "Invalid", "Transport", "Rejected"}
EmitError == {"NotHosted", "Transport", "Rejected"}
UsageReportError == {"NotHosted", "Invalid", "Transport", "Rejected"}
ProviderRouterError == {"NotHosted", "Invalid", "Transport", "Rejected"}
EmailFailures == {"NotHosted", "Transport", "Rejected", "NoMessageId"}
Results == ModelStreamError \cup EmailFailures \cup {"ok", "configured", "missing"}

Checked(a, parsed) ==
    CASE a.status = "none" -> "Transport"
      [] a.status = "rejected" -> "Rejected"
      [] a.status = "ok" -> parsed
Parsed(a, value) == Checked(a, IF a.body = "unreadable" THEN "Transport" ELSE value)

PublishResult(a) == Checked(a, "ok")
EmitResult(a) == Parsed(a, "ok")
ReportResult(a) == Parsed(a, "ok")
AuthorizeResult(a) == Parsed(a, IF a.body = "yes" THEN "ok" ELSE "Rejected")
StatusResult(a) == Parsed(a, IF a.body = "yes" THEN "configured" ELSE "missing")
ProviderResult(a) == Parsed(a, "ok")
OpenResult(a) == Checked(a, "ok")
\* The body is read before the status is looked at.
EmailPost(a, value) ==
    CASE a.status = "none" \/ a.body = "unreadable" -> "Transport"
      [] a.status = "rejected" /\ a.body # "unreadable" -> "Rejected"
      [] OTHER -> value
EmailResult(a) == EmailPost(a, IF a.body = "id" THEN "ok" ELSE "NoMessageId")
EmailStatusResult(a) == EmailPost(a, IF a.body = "yes" THEN "configured"
                                     ELSE IF a.body = "no" THEN "missing" ELSE "Transport")
ResultOf(kind, a) ==
    CASE kind = "emit" -> EmitResult(a) [] kind = "publish" -> PublishResult(a)
      [] kind = "report" -> ReportResult(a) [] kind = "authorize" -> AuthorizeResult(a)
      [] kind = "status" -> StatusResult(a) [] kind = "provider" -> ProviderResult(a)
      [] kind = "model" -> OpenResult(a) [] kind = "email" -> EmailResult(a)
      [] kind = "email status" -> EmailStatusResult(a)

\* ---------------------------------------------------------- model streams
NL == "newline"
CR == "return"
\* The lines a frame may have: data that parses to an event, the end marker, an
\* error object, other JSON, no JSON; bytes that are not UTF-8; no data at all.
DataLines == {"delta", "completed", "failed", "[DONE]", "error", "other", "garbage"}
AllLines == DataLines \cup {"binary", "comment"}
\* A line ends with a newline, and may have a return before it.
Adjoins(x, y) == x = NL \/ (y = NL \/ (y = CR /\ x # CR))
\* A chunk is cut anywhere.
Chunks == {w \in UNION {[1..n -> WireLines \cup {NL, CR}] : n \in 1..3} :
             \A i \in 1..(Len(w) - 1) : Adjoins(w[i], w[i + 1])}

NoStream == [at |-> "closed", wire |-> <<>>, buffer |-> <<>>, out |-> <<>>, broken |-> FALSE]
OpenedStream == [NoStream EXCEPT !.at = "open"]

\* Two newlines on end, as bytes: an empty line that ends with a return and a
\* newline does not end a frame.
Boundaries(buffer) == {i \in 1..(Len(buffer) - 1) : buffer[i] = NL /\ buffer[i + 1] = NL}
\* The first line with data decides what the frame is; most are skipped.
ParseFrame(frame) ==
    LET data == Selected(frame, DataLines) IN
    IF "binary" \in ToSet(frame) THEN "Protocol"
    ELSE IF data = <<>> \/ Head(data) = "other" THEN "nothing"
    ELSE CASE Head(data) = "[DONE]" -> "completed"
           [] Head(data) = "error" -> "failed"
           [] Head(data) = "garbage" -> "Protocol"
           [] OTHER -> Head(data)
Terminal(event) == event \in {"completed", "failed", "Protocol", "Transport"}
Yielded(out, event) == IF event = "nothing" THEN out ELSE Append(out, event)

ReadsNext == stream.at = "open" /\ Boundaries(stream.buffer) = {}
ChunkArrives(chunk) ==
    /\ ReadsNext /\ Len(stream.wire) + Len(chunk) <= MaxWire
    /\ stream.wire # <<>> => Adjoins(Last(stream.wire), Head(chunk))
    /\ stream' = [stream EXCEPT !.wire = @ \o chunk, !.buffer = @ \o chunk]
    /\ UNCHANGED <<env, call, made>>
\* Mutant of DrainFrame: the next frame waits for the next chunk.
DrainOnce ==
    /\ stream.at = "open" /\ Boundaries(stream.buffer) # {}
    /\ LET cut == Min(Boundaries(stream.buffer))
           event == ParseFrame(SubSeq(stream.buffer, 1, cut - 1))
       IN stream' = [stream EXCEPT !.buffer = <<>>, !.out = Yielded(@, event),
                                   !.at = IF Terminal(event) THEN "ended" ELSE @]
    /\ UNCHANGED <<env, call, made>>

DrainFrame ==
    /\ stream.at = "open" /\ Boundaries(stream.buffer) # {}
    /\ LET cut == Min(Boundaries(stream.buffer))
           event == ParseFrame(SubSeq(stream.buffer, 1, cut - 1))
       IN stream' = [stream EXCEPT !.buffer = SubSeq(@, cut + 2, Len(@)),
                                   !.out = Yielded(@, event),
                                   !.at = IF Terminal(event) THEN "ended" ELSE @]
    /\ UNCHANGED <<env, call, made>>
ReadFails ==
    /\ ReadsNext
    /\ stream' = [stream EXCEPT !.at = "ended", !.broken = TRUE, !.out = Append(@, "Transport")]
    /\ UNCHANGED <<env, call, made>>
UpstreamEnds ==
    /\ ReadsNext
    /\ stream' = [stream EXCEPT !.at = "ended", !.out = Append(@, "Protocol")]
    /\ UNCHANGED <<env, call, made>>
DropStream ==
    /\ stream.at # "closed" /\ stream' = NoStream
    /\ UNCHANGED <<env, call, made>>

\* ---------------------------------------------------------- calls
Idle_hc == [at |-> "idle", kind |-> None_hc, acted |-> FALSE, answer |-> TransportFailed, result |-> None_hc]
FailsWith(kind, result) == [Idle_hc EXCEPT !.at = "done", !.kind = kind, !.result = result]
Sends(kind) == [Idle_hc EXCEPT !.at = "sent", !.kind = kind]

HostInit ==
    /\ env \in HostEnvs
    /\ call = [c \in HostCallers |-> Idle_hc]
    /\ stream = NoStream /\ made = 0

Begins(c, next) ==
    /\ call[c].at \in {"idle", "done"} /\ made < MaxHostCalls
    /\ made' = made + 1
    /\ call' = [call EXCEPT ![c] = next]
    /\ UNCHANGED <<env, stream>>
\* The order of every client: validate, then look for a host, then send.
Try(c, kind, valid) ==
    Begins(c, IF ~valid THEN FailsWith(kind, "Invalid")
              ELSE IF ~IsHosted THEN FailsWith(kind, "NotHosted") ELSE Sends(kind))

Emit(c) == Try(c, "emit", TRUE)
PublishRoom(c) == \E r \in PublishRequests : Try(c, "publish", PublishValid(r))
Report(c) == \E r \in ToolUsageReports : Try(c, "report", UsageValid(r))
Authorize(c) == \E grant \in {BlankText, Text(1)} : Try(c, "authorize", ~grant.blank)
AskStatus(c) == Try(c, "status", TRUE)
CallProvider(c) == \E r \in ManagedProviderCalls : Try(c, "provider", ProviderValid(r))
OpenStream(c) ==
    stream.at = "closed" /\ \E r \in ModelRequests : Try(c, "model", ModelValid(r))
EmailStatus(c) ==
    Begins(c, IF EmailHosted THEN Sends("email status")
              ELSE FailsWith("email status", IF env.transport THEN "configured" ELSE "missing"))
\* Core if there is one, else the transport of the process, else nothing.
SendEmail(c) ==
    Begins(c, IF EmailAvailable THEN Sends("email") ELSE FailsWith("email", "NotHosted"))

\* Core, or the relay of the process: it does what is asked, or rejects.
Answered(c) ==
    /\ call[c].at = "sent"
    /\ \E a \in Answers :
         call' = [call EXCEPT
             ![c].at = "answered", ![c].answer = a,
             ![c].acted = a.status = "ok" /\ (call[c].kind = "authorize" => a.body = "yes")]
    /\ UNCHANGED <<env, stream, made>>
\* The request or its answer is lost, or takes too long.
Lost(c) ==
    /\ call[c].at \in {"sent", "answered"}
    /\ call' = [call EXCEPT ![c].at = "answered", ![c].answer = TransportFailed]
    /\ UNCHANGED <<env, stream, made>>
Returns(c) ==
    /\ call[c].at = "answered"
    /\ LET result == ResultOf(call[c].kind, call[c].answer) IN
       /\ call' = [call EXCEPT ![c].at = "done", ![c].result = result]
       /\ stream' = IF call[c].kind = "model" /\ result = "ok" THEN OpenedStream ELSE stream
    /\ UNCHANGED <<env, made>>

HostNext ==
    \/ \E c \in HostCallers :
         \/ Emit(c) \/ PublishRoom(c) \/ Report(c) \/ Authorize(c) \/ AskStatus(c) \/ CallProvider(c)
         \/ OpenStream(c) \/ EmailStatus(c) \/ SendEmail(c) \/ Answered(c) \/ Lost(c) \/ Returns(c)
    \/ \E chunk \in Chunks : ChunkArrives(chunk)
    \/ DrainFrame \/ ReadFails \/ UpstreamEnds \/ DropStream
HostSpec == HostInit /\ [][HostNext]_hostVars

\* Every variable of this module keeps its type.
HostTypeOK ==
    /\ env \in HostEnvs
    /\ \A c \in HostCallers :
         /\ call[c].at \in {"idle", "sent", "answered", "done"} /\ call[c].acted \in BOOLEAN
         /\ call[c].answer \in Answers \cup {TransportFailed}
         /\ call[c].result \in Results \cup {None_hc}
    /\ stream.at \in {"closed", "open", "ended"} /\ Len(stream.wire) <= MaxWire
    /\ made \in 0..MaxHostCalls

\* The frames of a whole wire, symbol by symbol: a second newline ends one.
ReadSymbol(read, x) ==
    IF x = NL /\ read.rest # <<>> /\ Last(read.rest) = NL
    THEN [frames |-> Append(read.frames, Front(read.rest)), rest |-> <<>>]
    ELSE [frames |-> read.frames, rest |-> Append(read.rest, x)]
ReadOf(wire) ==
    LET read[n \in 0..Len(wire)] ==
          IF n = 0 THEN [frames |-> <<>>, rest |-> <<>>] ELSE ReadSymbol(read[n - 1], wire[n])
    IN read
FramesOf(wire) == ReadOf(wire)[Len(wire)].frames
\* The events of frames: a frame without one is skipped.
StreamEvents == {"delta", "completed", "failed", "Protocol"}
EventsOfFrames(read) == Selected([i \in 1..Len(read) |-> ParseFrame(read[i])], StreamEvents)
\* What a reader of the whole wire at once would hand on.
Reference(wire) ==
    LET events == EventsOfFrames(FramesOf(wire))
        ends == {i \in 1..Len(events) : Terminal(events[i])}
    IN IF ends = {} THEN Append(events, "Protocol") ELSE SubSeq(events, 1, Min(ends))

\* However the wire is cut into chunks, the app is handed the events of the
\* whole wire, in order, one terminal event last, where newlines on end part the
\* frames (ModelStreamClient::stream, find_sse_frame_boundary over the bytes kept
\* between chunks).
StreamIsWhole ==
    stream.at = "ended" /\ ~stream.broken => stream.out = Reference(stream.wire)
\* A call that reports success was done by Core, and one that reports a refusal
\* of its own or of Core's was not: only a lost answer leaves it open
\* (authorize_agent: "a caller that refuses on error fails closed").
OutcomeIsTrue ==
    \A c \in HostCallers : call[c].at = "done" /\ call[c].kind \notin {"status", "email status"} =>
        /\ call[c].result = "ok" => call[c].acted
        /\ call[c].result \in {"Invalid", "NotHosted", "Rejected"} => ~call[c].acted
\* What the app is told of its calls is what happened to them.
HostIsReported == StreamIsWhole /\ OutcomeIsTrue
=============================================================================
