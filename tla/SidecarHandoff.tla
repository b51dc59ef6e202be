---------------------------- MODULE SidecarHandoff ----------------------------
(* How a process without a key reaches the store (handoff.rs): the running      *)
(* sidecar publishes its port and a token of its own in a file, withdraws it as *)
(* it stops, and opens some routes to that token.  Runs of the sidecar may      *)
(* overlap, and a port may be taken by another program.                         *)
EXTENDS Naturals, SequencesExt

CONSTANTS
    Runs,          \* runs of the sidecar
    RunPorts,
    Nobody,        \* no listener, no file, no token
    Stranger,      \* another program that listens on a port
    CoreToken,     \* the token Core gives its sidecar
    HandoffRoutes, \* the routes a handoff token opens, as sequences of segments
    AskedPaths,    \* the paths that are asked for
    MaxCalls

ASSUME HandoffAssumption ==
    /\ Nobody \notin Runs \cup {Stranger, CoreToken} /\ Stranger \notin Runs
    /\ \A r \in Runs : <<"handoff", r>> # CoreToken
    /\ MaxCalls \in Nat

VARIABLES
    handoff,    \* secrets/sidecar-handoff.json: [port, token] or Nobody
    runOf,      \* what each run is doing
    listens,    \* who listens on each port
    local,      \* the process without a key: what it loaded, and its last answer
    opened,     \* history: the routes each run opened to each token
    callsMade
handoffVars == <<handoff, runOf, listens, local, opened, callsMade>>

\* A fresh random token per run: it is named by its run.
TokenOf(r) == <<"handoff", r>>
Handoff(r) == [port |-> runOf[r].port, token |-> TokenOf(r)]

\* An absent token opens nothing; a bearer carries the token after its scheme.
TokenOk(provided, expected) == expected # Nobody /\ provided = expected
BearerOk(header, expected) == header.scheme = "Bearer" /\ TokenOk(header.token, expected)
\* Mutant of Authorized: the handoff token opens every route too.
AuthorizedAnywhere(r, provided, path) ==
    TokenOk(provided, CoreToken) \/ TokenOk(provided, TokenOf(r))

\* Core's token opens every route, the handoff token its prefixes.
Authorized(r, provided, path) ==
    \/ TokenOk(provided, CoreToken)
    \/ (\E p \in HandoffRoutes : IsPrefix(p, path)) /\ TokenOk(provided, TokenOf(r))

NotCalling == [at |-> "idle", seen |-> Nobody, answer |-> "none"]
HandoffInit ==
    /\ handoff = Nobody
    /\ runOf = [r \in Runs |-> [at |-> "new", port |-> Nobody]]
    /\ listens = [p \in RunPorts |-> Nobody]
    /\ local = NotCalling
    /\ opened = {} /\ callsMade = 0

\* ------------------------------------------------------------ sidecars
CallsSame == UNCHANGED <<local, opened, callsMade>>
Moved(r, at) == runOf' = [runOf EXCEPT ![r].at = at]
StartRun(r, p) ==
    /\ runOf[r].at = "new" /\ listens[p] = Nobody
    /\ listens' = [listens EXCEPT ![p] = r]
    /\ runOf' = [runOf EXCEPT ![r] = [at |-> "bound", port |-> p]]
    /\ UNCHANGED handoff /\ CallsSame
\* A temporary file and a rename: the file is replaced whole.
PublishHandoff(r) ==
    /\ runOf[r].at = "bound"
    /\ handoff' = Handoff(r) /\ Moved(r, "up")
    /\ UNCHANGED listens /\ CallsSame
\* withdraw: the file is read, and removed if it is this run's; two steps.
LoadToWithdraw(r) ==
    /\ runOf[r].at = "up"
    /\ Moved(r, IF handoff # Nobody /\ handoff.token = TokenOf(r) THEN "remove" ELSE "closing")
    /\ UNCHANGED <<handoff, listens>> /\ CallsSame
RemoveHandoff(r) ==
    /\ runOf[r].at = "remove"
    /\ handoff' = Nobody /\ Moved(r, "closing")
    /\ UNCHANGED listens /\ CallsSame
\* After withdrawing, or killed.
StopRun(r) ==
    /\ runOf[r].at \in {"bound", "up", "remove", "closing"}
    /\ listens' = [listens EXCEPT ![runOf[r].port] = Nobody]
    /\ runOf' = [runOf EXCEPT ![r] = [at |-> "gone", port |-> Nobody]]
    /\ UNCHANGED handoff /\ CallsSame
StrangerListens(p) ==
    /\ listens[p] \in {Nobody, Stranger}
    /\ listens' = [listens EXCEPT ![p] = IF @ = Nobody THEN Stranger ELSE Nobody]
    /\ UNCHANGED <<handoff, runOf>> /\ CallsSame

\* ------------------------------------------------------------ the other process
RunsSame == UNCHANGED <<handoff, runOf, listens>>
LastAnswer(a) == local' = [NotCalling EXCEPT !.answer = a]
LoadHandoff ==
    /\ local.at = "idle" /\ callsMade < MaxCalls /\ callsMade' = callsMade + 1
    /\ IF handoff = Nobody THEN LastAnswer("own store")
       ELSE local' = [at |-> "probe", seen |-> handoff, answer |-> "none"]
    /\ opened' = opened /\ RunsSame
\* GET /health without a token: any 2xx answer will do, or the own store.
ProbeHealth ==
    /\ local.at = "probe"
    /\ \/ listens[local.seen.port] # Nobody /\ local' = [local EXCEPT !.at = "connected"]
       \/ listens[local.seen.port] \notin Runs /\ LastAnswer("own store")
    /\ UNCHANGED <<opened, callsMade>> /\ RunsSame

\* The chunks of a body: the size a chunk announces and the bytes that came; an
\* empty one ends the body.
Dechunked(chunks) ==
    LET ends == {i \in 1..Len(chunks) : chunks[i].size = 0} IN
    IF ends = {} \/ \E i \in 1..(Min(ends) - 1) : chunks[i].came < chunks[i].size THEN "malformed"
    ELSE SubSeq(chunks, 1, Min(ends) - 1)
\* A response may be cut anywhere.  A length that was announced is not looked at.
Responses == [status : {"ok", "refused"}, head : BOOLEAN, chunked : BOOLEAN, cut : BOOLEAN]
ChunksOf(response) ==
    IF response.cut THEN <<[size |-> 2, came |-> 1]>>
    ELSE <<[size |-> 2, came |-> 2], [size |-> 0, came |-> 0]>>
ParsedResponse(response) ==
    CASE ~response.head -> "error"
      [] response.head /\ response.chunked /\ Dechunked(ChunksOf(response)) = "malformed" -> "error"
      [] OTHER -> IF response.status = "refused" THEN "refused"
                  ELSE IF response.cut THEN "cut text" ELSE "answered"
CallSidecar(path) ==
    /\ local.at = "connected"
    /\ LET l == listens[local.seen.port]
           passes == l \in Runs /\ Authorized(l, local.seen.token, path)
       IN \/ LastAnswer("error") /\ opened' = opened
          \/ /\ l # Nobody
             /\ \E response \in Responses :
                  /\ l \in Runs => response.status = IF passes THEN "ok" ELSE "refused"
                  /\ LastAnswer(ParsedResponse(response))
             /\ opened' = IF passes THEN opened \cup {<<l, local.seen.token, path>>} ELSE opened
    /\ callsMade' = callsMade /\ RunsSame

HandoffNext ==
    \/ \E r \in Runs : \/ PublishHandoff(r) \/ LoadToWithdraw(r) \/ RemoveHandoff(r) \/ StopRun(r)
                       \/ \E p \in RunPorts : StartRun(r, p)
    \/ \E p \in RunPorts : StrangerListens(p)
    \/ LoadHandoff \/ ProbeHealth \/ \E path \in AskedPaths : CallSidecar(path)
HandoffSpec == HandoffInit /\ [][HandoffNext]_handoffVars

\* Every variable of this module keeps its type.
HandoffTypeOK ==
    /\ handoff = Nobody \/ handoff \in [port : RunPorts, token : {TokenOf(r) : r \in Runs}]
    /\ runOf \in [Runs -> [at : {"new", "bound", "up", "remove", "closing", "gone"},
                           port : RunPorts \cup {Nobody}]]
    /\ listens \in [RunPorts -> Runs \cup {Nobody, Stranger}]
    /\ local.at \in {"idle", "probe", "connected"}
    /\ local.answer \in {"none", "own store", "answered", "refused", "cut text", "error"}
    /\ callsMade \in 0..MaxCalls

\* A token read from the file opens routes of the run that published it and of
\* no later one, whoever listens on its port by then, and only the routes under
\* its prefixes (authorize; publish: "the file is replaced on every start").
HandoffOpensItsRun ==
    \A o \in opened : o[2] = TokenOf(o[1]) /\ \E p \in HandoffRoutes : IsPrefix(p, o[3])
=============================================================================
