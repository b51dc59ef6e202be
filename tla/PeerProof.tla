------------------------------- MODULE PeerProof -------------------------------
(* The proof a client asks of a loopback listener before it sends it a shared   *)
(* bearer (peer_proof.rs): a challenge on the health route, and one remembered  *)
(* proof for all clients of the process.  Ports change hands and tokens are     *)
(* rotated while probes are under way.                                          *)
EXTENDS Naturals

CONSTANTS
    ProofPorts,
    Bearers,
    ProofClients,
    NoListener,
    Impostor,     \* a listener without a token, which may relay the challenge
    Ttl, ProbeTime,
    MaxClock, MaxAsks

ASSUME ProofAssumption ==
    /\ {NoListener, Impostor} \cap Bearers = {}
    /\ Ttl \in Nat \ {0} /\ ProbeTime \in Nat /\ MaxClock \in Nat /\ MaxAsks \in Nat

VARIABLES
    holder,     \* the bearer of the server on each port
    proofCache, \* the one remembered proof
    asker,      \* what each client is doing
    proved,     \* history: when a proof of a bearer last came from a port
    clock_sp, asks
proofVars == <<holder, proofCache, asker, proved, clock_sp, asks>>

Never_sp == MaxClock + 1
NoProof == [port |-> NoListener, token |-> NoListener, at |-> 0]
Quiet == [at |-> "idle", port |-> NoListener, token |-> NoListener, since |-> 0]

\* A holder of the token proves a challenge; no token, no proof.
Proof(h) == IF h \in Bearers THEN h ELSE NoListener
Verify(token, proof) == proof # NoListener /\ proof = token
\* Whose proofs a listener can answer with: its own, or those an impostor is told
\* by the servers it relays the challenge to.
Provers(h) == IF h = Impostor THEN {holder[q] : q \in ProofPorts} \ {NoListener} ELSE {h}
\* A probe is cut off after its time, whoever listens.
Outcomes(h, token) ==
    {"Unreachable"} \cup
    {IF Verify(token, Proof(g)) THEN "Proven" ELSE "WrongProof" : g \in Provers(h) \ {NoListener}} \cup
    (IF h = Impostor THEN {"NoProof"} ELSE {})

ProofInit ==
    /\ holder = [p \in ProofPorts |-> NoListener]
    /\ proofCache = NoProof
    /\ asker = [c \in ProofClients |-> Quiet]
    /\ proved = [p \in ProofPorts |-> [b \in Bearers |-> Never_sp]]
    /\ clock_sp = 0 /\ asks = 0

\* A server starts, stops, restarts with another token, or another program does.
Rebind(p, h) ==
    /\ holder[p] # h /\ holder' = [holder EXCEPT ![p] = h]
    /\ UNCHANGED <<proofCache, asker, proved, clock_sp, asks>>

\* Mutant of IsFresh: a proof of the port is taken for any token.
IsFreshForAny(p, b) == proofCache.port = p /\ clock_sp - proofCache.at < Ttl
\* The same URL and token, less than the time to live ago.
IsFresh(p, b) ==
    /\ proofCache.port = p /\ proofCache.token = b
    /\ clock_sp - proofCache.at < Ttl
Becomes(c, at) == asker' = [asker EXCEPT ![c].at = at]
Ask(c, p, b) ==
    /\ asker[c].at = "idle" /\ asks < MaxAsks /\ asks' = asks + 1
    /\ asker' = [asker EXCEPT ![c] = [at |-> IF IsFresh(p, b) THEN "send" ELSE "probe",
                                      port |-> p, token |-> b, since |-> clock_sp]]
    /\ UNCHANGED <<holder, proofCache, proved, clock_sp>>
\* The answer to the challenge; the cache is locked only afterwards.
Challenge(c) ==
    /\ asker[c].at = "probe"
    /\ \E answer \in Outcomes(holder[asker[c].port], asker[c].token) :
         /\ Becomes(c, IF answer = "Proven" THEN "proven" ELSE "unproven")
         /\ proved' = IF answer = "Proven"
                      THEN [proved EXCEPT ![asker[c].port][asker[c].token] = clock_sp] ELSE proved
    /\ UNCHANGED <<holder, proofCache, clock_sp, asks>>
Remember(c) ==
    /\ asker[c].at = "proven"
    /\ proofCache' = [port |-> asker[c].port, token |-> asker[c].token, at |-> clock_sp]
    /\ asker' = [asker EXCEPT ![c].at = "send", ![c].since = clock_sp]
    /\ UNCHANGED <<holder, proved, clock_sp, asks>>
Forget(c) ==
    /\ asker[c].at = "unproven"
    /\ proofCache' = NoProof /\ asker' = [asker EXCEPT ![c] = Quiet]
    /\ UNCHANGED <<holder, proved, clock_sp, asks>>
SendBearer(c) ==
    /\ asker[c].at = "send" /\ asker' = [asker EXCEPT ![c] = Quiet]
    /\ UNCHANGED <<holder, proofCache, proved, clock_sp, asks>>
\* A probe lasts ProbeTime at most, and a request follows its check at once.
TickProof ==
    /\ clock_sp < MaxClock
    /\ \A c \in ProofClients : asker[c].at \in {"probe", "proven"} => clock_sp < asker[c].since + ProbeTime
    /\ \A c \in ProofClients : asker[c].at # "send"
    /\ clock_sp' = clock_sp + 1
    /\ UNCHANGED <<holder, proofCache, asker, proved, asks>>

ProofNext ==
    \/ \E p \in ProofPorts, h \in Bearers \cup {NoListener, Impostor} : Rebind(p, h)
    \/ \E c \in ProofClients :
         \/ Challenge(c) \/ Remember(c) \/ Forget(c) \/ SendBearer(c)
         \/ \E p \in ProofPorts, b \in Bearers : Ask(c, p, b)
    \/ TickProof
ProofSpec == ProofInit /\ [][ProofNext]_proofVars

\* Every variable of this module keeps its type.
ProofTypeOK ==
    /\ holder \in [ProofPorts -> Bearers \cup {NoListener, Impostor}]
    /\ proofCache \in [port : ProofPorts, token : Bearers, at : 0..MaxClock] \cup {NoProof}
    /\ asker \in [ProofClients -> [at : {"idle", "probe", "proven", "unproven", "send"},
                                   port : ProofPorts \cup {NoListener},
                                   token : Bearers \cup {NoListener}, since : 0..MaxClock]]
    /\ proved \in [ProofPorts -> [Bearers -> 0..Never_sp]]
    /\ clock_sp \in 0..MaxClock /\ asks \in 0..MaxAsks

\* A bearer goes out only to a port that a proof of this very bearer came from less
\* than the time to live and one probe ago, the server's own or one an impostor
\* had relayed to it, whichever other clients probe other ports, other bearers or
\* fail meanwhile (peer_holds_token over the one entry of ProofCache, locked
\* before and after the probe and not during it).
BearerIsProved ==
    \A c \in ProofClients : asker[c].at = "send" =>
        LET t == proved[asker[c].port][asker[c].token] IN
        t # Never_sp /\ asker[c].since < t + Ttl + ProbeTime
=============================================================================
