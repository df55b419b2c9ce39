--------------------------- MODULE TransportPools ---------------------------
(***************************************************************************)
(* The connection pools of a client or of an A2A context (transportSet,    *)
(* transport.go:96-306) under the TLS configuration they are built from    *)
(* (tls.go:114-196).                                                       *)
(*                                                                         *)
(* A step is one critical section of ts.mu, or one use of a pool after the *)
(* lock was released.  A client sends its requests on the serverTrust      *)
(* identity and renews by a certificate login, which replaces the client   *)
(* certificates; an A2A context gets its certificate when it is built and  *)
(* uses the clientCert identity only.                                      *)
(***************************************************************************)
EXTENDS Naturals, Sequences, FiniteSets

CONSTANTS
  Goroutines,  \* goroutines that share the set
  MaxUses,     \* bound: requests and logins in one behaviour
  Versions     \* TLS versions a caller may ask for; 0 leaves one unset

ASSUME MaxUsesAssumption == MaxUses \in Nat
ASSUME VersionsAssumption == Versions \subseteq Nat /\ 0 \in Versions

VARIABLES
  a2a,     \* whether the owner is an A2A context
  tls,     \* minTLS and maxTLS of the configuration, as given
  closed,  \* ts.closed
  certs,   \* the client certificates: 0 for none, n for the n-th installed
  cached,  \* ts.clients and ts.wsClients: the pool of each slot, 0 for none
  built,   \* the pools built so far, cached or dropped
  idle,    \* pools that keep an idle connection
  shut,    \* pools whose idle connections were closed since their last dial
  pc, want, held,  \* a goroutine: position, slots to look up, pools found
  uses     \* requests and logins begun

setVars == <<closed, certs, cached, built>>
netVars == <<idle, shut>>
gVars   == <<pc, want, held>>
vars    == <<a2a, tls, setVars, netVars, gVars, uses>>

TLS12 == 12
TLS13 == 13
NoPool == 0

(* The versions are the constants of crypto/tls, as WithMinTLSVersion and  *)
(* WithMaxTLSVersion ask; TLS 1.3 is its default maximum.                  *)
ASSUME KnownVersions == \A v \in Versions : v <= TLS13

Slots == [ws : BOOLEAN, id : {"serverTrust", "clientCert"}]
CertSlots == {s \in Slots : s.id = "clientCert"}

Pools(s) == {n \in DOMAIN built : built[n].slot = s}

(***************************************************************************)
(* The TLS configuration.                                                  *)
(***************************************************************************)
\* Mutant: the cap holds whatever the caller asked for.
CapAlways(cfg) == TLS12

(* An explicit version preference lifts the cap on clientCert pools. *)
clientCertMaxTLS(cfg) == IF cfg.min # 0 \/ cfg.max # 0 THEN 0 ELSE TLS12

MinVersion(cfg) == IF cfg.min = 0 THEN TLS12 ELSE cfg.min

(* buildTLSConfig rejects an empty window. *)
Accepted(cfg) == cfg.max = 0 \/ cfg.max >= MinVersion(cfg)

(* The versions a new pool negotiates; 0 leaves the maximum to crypto/tls. *)
Window(cfg, id) ==
  LET cap == clientCertMaxTLS(cfg)
      max == IF id = "clientCert" /\ cap # 0 THEN cap ELSE cfg.max
  IN  MinVersion(cfg) .. (IF max = 0 THEN TLS13 ELSE max)

Init ==
  /\ a2a \in BOOLEAN
  /\ tls \in {cfg \in [min : Versions, max : Versions] : Accepted(cfg)}
  /\ closed = FALSE
  /\ certs = IF a2a THEN 1 ELSE 0
  /\ cached = [s \in Slots |-> NoPool]
  /\ built = <<>>
  /\ idle = {}
  /\ shut = {}
  /\ pc = [g \in Goroutines |-> "idle"]
  /\ want = [g \in Goroutines |-> {}]
  /\ held = [g \in Goroutines |-> {}]
  /\ uses = 0

(***************************************************************************)
(* client and websocketClient: one lookup.                                 *)
(***************************************************************************)
Refused(s) == closed \/ (s.id = "clientCert" /\ certs = 0)

NewPool(s) == [slot |-> s, certs |-> IF s.id = "clientCert" THEN certs ELSE 0,
               window |-> Window(tls, s.id)]

LookUpPool(g, s) ==
  LET n == IF cached[s] = NoPool THEN Len(built) + 1 ELSE cached[s] IN
    /\ built' = IF cached[s] = NoPool THEN Append(built, NewPool(s)) ELSE built
    /\ cached' = [cached EXCEPT ![s] = n]
    /\ held' = [held EXCEPT ![g] = @ \cup {n}]

LookUp(g, s) ==
  /\ pc[g] = "lookup" /\ s \in want[g]
  /\ ~Refused(s)
  /\ s.id = "clientCert" => \A t \in want[g] : t.id = "clientCert"
  /\ LookUpPool(g, s)
  /\ want' = [want EXCEPT ![g] = @ \ {s}]
  /\ pc' = [pc EXCEPT ![g] = IF want'[g] = {} THEN "use" ELSE "lookup"]
  /\ UNCHANGED <<a2a, tls, closed, certs, netVars, uses>>

(* ErrClosed, or errNoClientCert. *)
LookUpFails(g, s) ==
  /\ pc[g] = "lookup" /\ s \in want[g]
  /\ Refused(s)
  /\ pc' = [pc EXCEPT ![g] = "idle"]
  /\ want' = [want EXCEPT ![g] = {}]
  /\ held' = [held EXCEPT ![g] = {}]
  /\ UNCHANGED <<a2a, tls, setVars, netVars, uses>>

(***************************************************************************)
(* What goroutines do with the set.                                        *)
(***************************************************************************)
Begin(g, slots) ==
  /\ pc[g] = "idle"
  /\ uses < MaxUses
  /\ uses' = uses + 1
  /\ pc' = [pc EXCEPT ![g] = "lookup"]
  /\ want' = [want EXCEPT ![g] = slots]
  /\ UNCHANGED <<a2a, tls, held>>

(* do, or connect of an event listener. *)
BeginRequest(g) ==
  /\ \E ws \in BOOLEAN :
       Begin(g, {[ws |-> ws, id |-> IF a2a THEN "clientCert" ELSE "serverTrust"]})
  /\ UNCHANGED <<setVars, netVars>>

LoggingIn(g) == pc[g] # "idle" /\ Cardinality(want[g]) + Cardinality(held[g]) = 2

\* Mutant: the pools built with the old certificates stay.
InstallCerts ==
  /\ certs' = certs + 1
  /\ UNCHANGED <<closed, cached, built, netVars>>

setClientCerts ==
  LET dropped == {cached[s] : s \in CertSlots} \ {NoPool} IN
    /\ certs' = certs + 1
    /\ cached' = [s \in Slots |-> IF s \in CertSlots THEN NoPool ELSE cached[s]]
    /\ idle' = idle \ dropped
    /\ shut' = shut \cup dropped
    /\ UNCHANGED <<closed, built>>

(* certificateCredential.establish, of which the refresh coordinator runs  *)
(* one at a time; it installs its certificate even when the set is closed. *)
BeginLogin(g) ==
  /\ ~a2a
  /\ \A h \in Goroutines : ~LoggingIn(h)
  /\ Begin(g, {[ws |-> FALSE, id |-> i] : i \in {"serverTrust", "clientCert"}})
  /\ setClientCerts

(* The pool may have been dropped since; it dials all the same. *)
Dial(g) ==
  /\ pc[g] = "use"
  /\ shut' = shut \ held[g]
  /\ pc' = [pc EXCEPT ![g] = "fly"]
  /\ UNCHANGED <<a2a, tls, setVars, idle, want, held, uses>>

(* The connection goes back to its pool, unless that was shut meanwhile;   *)
(* an upgraded connection belongs to its listener.                         *)
Finish(g) ==
  /\ pc[g] = "fly"
  /\ idle' = idle \cup {n \in held[g] : n \notin shut /\ ~built[n].slot.ws}
  /\ pc' = [pc EXCEPT ![g] = "idle"]
  /\ held' = [held EXCEPT ![g] = {}]
  /\ UNCHANGED <<a2a, tls, setVars, shut, want, uses>>

\* Mutant: no IdleConnTimeout is set.
ExpireNever(n) ==
  /\ n \in idle
  /\ FALSE
  /\ UNCHANGED vars

(* IdleConnTimeout. *)
Expire(n) ==
  /\ n \in idle
  /\ idle' = idle \ {n}
  /\ UNCHANGED <<a2a, tls, setVars, shut, gVars, uses>>

Close ==
  LET dropped == {cached[s] : s \in Slots} \ {NoPool} IN
    /\ ~closed
    /\ closed' = TRUE
    /\ cached' = [s \in Slots |-> NoPool]
    /\ idle' = idle \ dropped
    /\ shut' = shut \cup dropped
    /\ UNCHANGED <<a2a, tls, certs, built, gVars, uses>>

Next ==
  \/ \E g \in Goroutines :
       \/ BeginRequest(g) \/ BeginLogin(g) \/ Dial(g) \/ Finish(g)
       \/ \E s \in Slots : LookUp(g, s) \/ LookUpFails(g, s)
  \/ \E n \in DOMAIN built : Expire(n)
  \/ Close

Spec == Init /\ [][Next]_vars

(* Requests end, and an idle connection's timer fires. *)
FairSpec ==
  /\ Spec
  /\ \A g \in Goroutines :
       WF_vars(Dial(g) \/ Finish(g) \/ \E s \in Slots : LookUp(g, s) \/ LookUpFails(g, s))
  /\ \A n \in 1 .. 2 * MaxUses : WF_vars(n \in DOMAIN built /\ Expire(n))

-----------------------------------------------------------------------------
(***************************************************************************)
(* Properties                                                              *)
(***************************************************************************)

(* Every variable stays in its range. *)
TypeOK ==
  /\ a2a \in BOOLEAN /\ closed \in BOOLEAN
  /\ tls \in [min : Versions, max : Versions]
  /\ certs \in 0 .. MaxUses + 1
  /\ built \in Seq([slot : Slots, certs : Nat, window : SUBSET Nat])
  /\ \A n \in DOMAIN built : built[n].certs <= certs
  /\ cached \in [Slots -> DOMAIN built \cup {NoPool}]
  /\ idle \cup shut \subseteq DOMAIN built
  /\ pc \in [Goroutines -> {"idle", "lookup", "use", "fly"}]
  /\ want \in [Goroutines -> SUBSET Slots]
  /\ held \in [Goroutines -> SUBSET DOMAIN built]
  /\ uses \in 0 .. MaxUses

(* A closed set hands out no pool again, whoever was between its lookup    *)
(* and its request (transport.go:136, 287-290).                            *)
ClosedIsEmpty == closed => \A s \in Slots : cached[s] = NoPool

(* A certificate login presents the certificate it installed, and no pool  *)
(* of other certificates stays in use (transport.go:251-254).              *)
CurrentCertificates ==
  /\ \A s \in CertSlots : cached[s] # NoPool => built[cached[s]].certs = certs
  /\ \A g \in Goroutines : LoggingIn(g) =>
       \A n \in held[g] : built[n].slot \in CertSlots => built[n].certs = certs

(* Pools are isolated by identity and shared by the requests of one: a     *)
(* serverTrust pool is built once and presents no certificate              *)
(* (transport.go:96-98).                                                   *)
OneTrustPool ==
  \A s \in Slots \ CertSlots :
    /\ Cardinality(Pools(s)) <= 1
    /\ \A n \in Pools(s) : built[n].certs = 0

(* All three: a pool handed out is one of an open set, of the identity     *)
(* asked for and of the certificates now installed.                        *)
PoolsAreCurrent == ClosedIsEmpty /\ CurrentCertificates /\ OneTrustPool

(* Every pool can negotiate some version, within what the caller allowed,  *)
(* and a clientCert pool speaks TLS 1.3 only if the caller said so         *)
(* (tls.go:114-127, 147-157).                                              *)
UsableWindow ==
  \A n \in DOMAIN built :
    /\ built[n].window # {}
    /\ tls.max # 0 => \A v \in built[n].window : v <= tls.max
    /\ built[n].slot \in CertSlots /\ TLS13 \in built[n].window =>
         tls.min # 0 \/ tls.max # 0

(* Close releases the connections in the end, those of requests that found *)
(* their pool before it and dialed after it included                       *)
(* (transport.go:163-170, 287-306).                                        *)
ClosedConnectionsEnd == closed ~> idle = {} /\ \A g \in Goroutines : held[g] = {}

=============================================================================
