----------------------------- MODULE PoolsProofs -----------------------------
(***************************************************************************)
(* Theorems of module TransportPools, for any number of goroutines, uses   *)
(* and TLS versions: type correctness, PoolsAreCurrent and UsableWindow.   *)
(***************************************************************************)
EXTENDS TransportPools, FiniteSetTheorems, TLAPS

(***************************************************************************)
(* The inductive invariant behind the safety properties.                   *)
(***************************************************************************)
TrustSlot == [ws |-> FALSE, id |-> "serverTrust"]
CertSlot  == [ws |-> FALSE, id |-> "clientCert"]

(* A pool is cached under the slot it was built for, with the certificates *)
(* now installed, and nothing is cached once the set is closed.            *)
CacheInv ==
  /\ ClosedIsEmpty
  /\ \A s \in Slots : cached[s] # NoPool => built[cached[s]].slot = s
  /\ \A s \in CertSlots : cached[s] # NoPool => built[cached[s]].certs = certs

(* A serverTrust pool stays cached until the set is closed, so no second   *)
(* one is built for its slot.                                              *)
TrustInv ==
  \A n \in DOMAIN built : built[n].slot \notin CertSlots =>
    /\ built[n].certs = 0
    /\ ~closed => cached[built[n].slot] = n
    /\ \A m \in DOMAIN built : built[m].slot = built[n].slot => m = n

(* Every pool negotiates the versions of an accepted configuration.        *)
WindowInv ==
  /\ Accepted(tls)
  /\ \A n \in DOMAIN built : built[n].window = Window(tls, built[n].slot.id)

(* The certificates installed are no more than the logins begun.           *)
CertsInv == certs <= uses + 1

(* A request needs one pool, which of a client is a serverTrust pool.      *)
RequestInv(g) ==
  \E s \in Slots :
    /\ ~a2a => s \notin CertSlots
    /\ \/ want[g] = {s} /\ held[g] = {}
       \/ /\ want[g] = {}
          /\ \E n \in DOMAIN built : held[g] = {n} /\ built[n].slot = s

(* A login needs two, looks the clientCert pool up last, and finds the     *)
(* certificates it installed.                                              *)
LoginInv(g) ==
  /\ ~a2a
  /\ \/ want[g] = {TrustSlot, CertSlot} /\ held[g] = {}
     \/ /\ want[g] = {CertSlot}
        /\ \E n \in DOMAIN built : held[g] = {n} /\ built[n].slot = TrustSlot
     \/ /\ want[g] = {}
        /\ \E n, m \in DOMAIN built :
             /\ held[g] = {n, m}
             /\ built[n].slot = TrustSlot
             /\ built[m].slot = CertSlot /\ built[m].certs = certs

GoroutineInv(g) ==
  /\ pc[g] = "idle" => want[g] = {} /\ held[g] = {}
  /\ pc[g] # "idle" => RequestInv(g) \/ LoginInv(g)
  /\ pc[g] \in {"use", "fly"} => want[g] = {}

PoolsInv ==
  /\ TypeOK
  /\ CacheInv
  /\ TrustInv
  /\ WindowInv
  /\ CertsInv
  /\ \A g \in Goroutines : GoroutineInv(g)

USE DEF setVars, netVars, gVars

Pool == [slot : Slots, certs : Nat, window : SUBSET Nat]

(***************************************************************************)
(* Slots, windows and pools.                                               *)
(***************************************************************************)

(* A login needs two slots, one of each identity.                          *)
LEMMA SlotFacts ==
  /\ TrustSlot \in Slots /\ TrustSlot \notin CertSlots
  /\ CertSlot \in CertSlots
  /\ CertSlots \subseteq Slots
  /\ \A s \in Slots : s \in CertSlots <=> s.id = "clientCert"
  /\ \A s \in Slots : s \notin CertSlots <=> s.id = "serverTrust"
  /\ TrustSlot # CertSlot
<1>1. TrustSlot \in Slots /\ TrustSlot.id = "serverTrust"
  BY DEF TrustSlot, Slots
<1>2. CertSlot \in Slots /\ CertSlot.id = "clientCert"
  BY DEF CertSlot, Slots
<1>3. \A s \in Slots : s.id \in {"serverTrust", "clientCert"}
  BY DEF Slots
<1> QED BY <1>1, <1>2, <1>3 DEF CertSlots

LEMMA WindowType ==
  ASSUME NEW cfg \in [min : Versions, max : Versions], NEW id
  PROVE  Window(cfg, id) \in SUBSET Nat
<1>1. cfg.min \in Nat /\ cfg.max \in Nat
  BY VersionsAssumption
<1>2. MinVersion(cfg) \in Nat
  BY <1>1 DEF MinVersion, TLS12
<1>3. PICK max : Window(cfg, id) = MinVersion(cfg) .. max
  BY DEF Window
<1>4. \A v \in MinVersion(cfg) .. max : v \in Nat
  BY <1>2
<1> QED BY <1>3, <1>4

(* buildTLSConfig and clientCertMaxTLS leave every pool a version, within  *)
(* what the caller allowed (tls.go:128-157).                               *)
LEMMA WindowFacts ==
  ASSUME NEW cfg \in [min : Versions, max : Versions], Accepted(cfg), NEW id
  PROVE  /\ Window(cfg, id) # {}
         /\ cfg.max # 0 => \A v \in Window(cfg, id) : v <= cfg.max
         /\ id = "clientCert" /\ TLS13 \in Window(cfg, id) =>
              cfg.min # 0 \/ cfg.max # 0
<1>1. cfg.min \in Nat /\ cfg.max \in Nat /\ cfg.min <= TLS13
  BY VersionsAssumption, KnownVersions
<1>2. CASE cfg.min = 0 /\ cfg.max = 0
  <2>1. Window(cfg, id) = 12 .. 13 \/ Window(cfg, id) = 12 .. 12
    BY <1>2 DEF Window, MinVersion, clientCertMaxTLS, TLS12, TLS13
  <2>2. id = "clientCert" => Window(cfg, id) = 12 .. 12
    BY <1>2 DEF Window, MinVersion, clientCertMaxTLS, TLS12, TLS13
  <2> QED BY <1>2, <2>1, <2>2 DEF TLS13
<1>3. CASE cfg.min # 0 \/ cfg.max # 0
  <2>1. Window(cfg, id) = MinVersion(cfg) .. (IF cfg.max = 0 THEN TLS13 ELSE cfg.max)
    BY <1>3 DEF Window, clientCertMaxTLS
  <2>2. MinVersion(cfg) \in Nat /\ MinVersion(cfg) <= TLS13
    BY <1>1 DEF MinVersion, TLS12, TLS13
  <2>3. cfg.max # 0 => MinVersion(cfg) <= cfg.max
    BY <1>1 DEF Accepted, MinVersion, TLS12
  <2>4. Window(cfg, id) # {}
    <3>1. CASE cfg.max = 0
      <4>1. MinVersion(cfg) \in Window(cfg, id)
        BY <2>1, <2>2, <3>1 DEF TLS13
      <4> QED BY <4>1
    <3>2. CASE cfg.max # 0
      <4>1. MinVersion(cfg) \in Window(cfg, id)
        BY <1>1, <2>1, <2>2, <2>3, <3>2
      <4> QED BY <4>1
    <3> QED BY <3>1, <3>2
  <2>5. cfg.max # 0 => \A v \in Window(cfg, id) : v <= cfg.max
    BY <1>1, <2>1, <2>2
  <2> QED BY <1>3, <2>4, <2>5
<1> QED BY <1>2, <1>3

(* Cardinalities of what one use holds and wants.                          *)
LEMMA Singles == \A x : Cardinality({x}) = 1 /\ Cardinality({}) = 0
BY FS_Singleton, FS_EmptySet

LEMMA Pairs == \A x, y : x # y => Cardinality({x, y}) = 2
<1> SUFFICES ASSUME NEW x, NEW y, x # y
             PROVE  Cardinality({x, y}) = 2
  OBVIOUS
<1>1. IsFiniteSet({x}) /\ Cardinality({x}) = 1
  BY FS_Singleton
<1>2. Cardinality({x} \cup {y}) = Cardinality({x}) + 1
  BY <1>1, FS_AddElement
<1>3. {x, y} = {x} \cup {y}
  OBVIOUS
<1> QED BY <1>1, <1>2, <1>3

(* A request is not a login, and a login is one until it ends.             *)
LEMMA RequestCounts ==
  ASSUME NEW g \in Goroutines, RequestInv(g)
  PROVE  ~LoggingIn(g)
<1>1. CASE held[g] = {} /\ \E s : want[g] = {s}
  <2>1. Cardinality(want[g]) = 1 /\ Cardinality(held[g]) = 0
    BY <1>1, Singles
  <2> QED BY <2>1 DEF LoggingIn
<1>2. CASE want[g] = {} /\ \E n : held[g] = {n}
  <2>1. Cardinality(want[g]) = 0 /\ Cardinality(held[g]) = 1
    BY <1>2, Singles
  <2> QED BY <2>1 DEF LoggingIn
<1> QED BY <1>1, <1>2 DEF RequestInv

LEMMA LoginCounts ==
  ASSUME NEW g \in Goroutines, pc[g] # "idle", LoginInv(g)
  PROVE  LoggingIn(g)
<1>1. CASE want[g] = {TrustSlot, CertSlot} /\ held[g] = {}
  <2>1. Cardinality({TrustSlot, CertSlot}) = 2
    BY ONLY Pairs, SlotFacts
  <2>2. Cardinality({}) = 0
    BY Singles
  <2>3. Cardinality(want[g]) = 2 /\ Cardinality(held[g]) = 0
    BY <1>1, <2>1, <2>2
  <2> QED BY <2>3 DEF LoggingIn
<1>2. CASE want[g] = {CertSlot} /\ \E n \in DOMAIN built : held[g] = {n}
  <2>1. Cardinality(want[g]) = 1 /\ Cardinality(held[g]) = 1
    BY <1>2, Singles
  <2> QED BY <2>1 DEF LoggingIn
<1>3. CASE want[g] = {} /\ \E n, m \in DOMAIN built :
               held[g] = {n, m} /\ built[n].slot = TrustSlot /\ built[m].slot = CertSlot
  <2>1. PICK n, m \in DOMAIN built :
          held[g] = {n, m} /\ built[n].slot = TrustSlot /\ built[m].slot = CertSlot
    BY <1>3
  <2>2. n # m
    BY <2>1, SlotFacts
  <2>3. Cardinality({n, m}) = 2
    BY ONLY <2>2, Pairs
  <2>4. Cardinality({}) = 0
    BY Singles
  <2>5. Cardinality(held[g]) = 2 /\ Cardinality(want[g]) = 0
    BY <1>3, <2>1, <2>3, <2>4
  <2> QED BY <2>5 DEF LoggingIn
<1> QED BY <1>1, <1>2, <1>3 DEF LoginInv

(***************************************************************************)
(* What is known of a goroutine stays true while others move.              *)
(***************************************************************************)

(* Pools are never changed after they were built.                          *)
BuiltGrows ==
  /\ DOMAIN built \subseteq DOMAIN built'
  /\ \A n \in DOMAIN built : built'[n] = built[n]

Untouched(g) == pc'[g] = pc[g] /\ want'[g] = want[g] /\ held'[g] = held[g]

LEMMA RequestStays ==
  ASSUME NEW g \in Goroutines, RequestInv(g), BuiltGrows, a2a' = a2a,
         want'[g] = want[g], held'[g] = held[g]
  PROVE  RequestInv(g)'
BY DEF RequestInv, BuiltGrows

LEMMA LoginStays ==
  ASSUME NEW g \in Goroutines, LoginInv(g), BuiltGrows, a2a' = a2a, certs' = certs,
         want'[g] = want[g], held'[g] = held[g]
  PROVE  LoginInv(g)'
BY DEF LoginInv, BuiltGrows, TrustSlot, CertSlot

LEMMA OthersStay ==
  ASSUME NEW g \in Goroutines, GoroutineInv(g), Untouched(g), BuiltGrows,
         a2a' = a2a, certs' = certs
  PROVE  GoroutineInv(g)'
BY RequestStays, LoginStays DEF GoroutineInv, Untouched

(***************************************************************************)
(* The pools: a lookup finds the cached one or builds one more.            *)
(***************************************************************************)
PoolParts == CacheInv /\ TrustInv /\ WindowInv

(* A new pool goes to the end of those built.                              *)
LEMMA AppendFacts ==
  ASSUME TypeOK, NEW p \in Pool, built' = Append(built, p)
  PROVE  /\ built' \in Seq(Pool)
         /\ Len(built) + 1 \in DOMAIN built'
         /\ Len(built) + 1 \notin DOMAIN built
         /\ Len(built) + 1 # NoPool
         /\ built'[Len(built) + 1] = p
         /\ DOMAIN built' = DOMAIN built \cup {Len(built) + 1}
         /\ BuiltGrows
<1>1. built \in Seq(Pool)
  BY DEF TypeOK, Pool
<1>2. /\ built' \in Seq(Pool)
      /\ Len(built') = Len(built) + 1
      /\ \A n \in 1 .. Len(built) : built'[n] = built[n]
      /\ built'[Len(built) + 1] = p
  BY <1>1
<1>3. DOMAIN built = 1 .. Len(built) /\ DOMAIN built' = 1 .. Len(built')
      /\ Len(built) \in Nat
  BY <1>1, <1>2
<1>4. 1 .. Len(built') = 1 .. Len(built) \cup {Len(built) + 1}
  BY <1>2, <1>3
<1> QED BY <1>2, <1>3, <1>4 DEF BuiltGrows, NoPool

LEMMA NewPoolFacts ==
  ASSUME TypeOK, NEW s \in Slots
  PROVE  /\ NewPool(s) \in Pool
         /\ NewPool(s).slot = s
         /\ NewPool(s).window = Window(tls, s.id)
         /\ NewPool(s).certs <= certs
         /\ s \in CertSlots => NewPool(s).certs = certs
         /\ s \notin CertSlots => NewPool(s).certs = 0
<1>1. tls \in [min : Versions, max : Versions] /\ certs \in Nat
  BY MaxUsesAssumption DEF TypeOK
<1>2. Window(tls, s.id) \in SUBSET Nat
  BY <1>1, WindowType
<1> QED BY <1>1, <1>2 DEF NewPool, Pool, CertSlots

(* What LookUpPool leaves: a pool of the slot asked for, with the          *)
(* certificates now installed (transport.go:139-193, 219-249).             *)
LEMMA PoolFound ==
  ASSUME TypeOK, PoolParts, NEW g \in Goroutines, NEW s \in Slots,
         ~Refused(s), LookUpPool(g, s),
         tls' = tls, certs' = certs, closed' = closed
  PROVE  /\ PoolParts'
         /\ BuiltGrows
         /\ built' \in Seq(Pool)
         /\ \A n \in DOMAIN built' : built'[n].certs <= certs
         /\ cached' \in [Slots -> DOMAIN built' \cup {NoPool}]
         /\ \E n \in DOMAIN built' :
              /\ held' = [held EXCEPT ![g] = @ \cup {n}]
              /\ built'[n].slot = s
              /\ s \in CertSlots => built'[n].certs = certs
<1>0. /\ cached \in [Slots -> DOMAIN built \cup {NoPool}]
      /\ built \in Seq(Pool)
      /\ \A n \in DOMAIN built : built[n].certs <= certs
  BY DEF TypeOK, Pool
<1>1. ~closed
  BY DEF Refused
<1>2. CASE cached[s] # NoPool
  <2>1. built' = built /\ held' = [held EXCEPT ![g] = @ \cup {cached[s]}]
    BY <1>2 DEF LookUpPool
  <2>2. cached' = cached
    BY <1>0, <1>2 DEF LookUpPool
  <2>3. PoolParts'
    BY <2>1, <2>2
       DEF PoolParts, CacheInv, ClosedIsEmpty, TrustInv, WindowInv, Accepted
  <2>4. BuiltGrows
    BY <2>1 DEF BuiltGrows
  <2>5. cached[s] \in DOMAIN built
    BY <1>0, <1>2
  <2>6. built[cached[s]].slot = s /\ (s \in CertSlots => built[cached[s]].certs = certs)
    BY <1>2 DEF PoolParts, CacheInv
  <2> QED BY <1>0, <2>1, <2>2, <2>3, <2>4, <2>5, <2>6
<1>3. CASE cached[s] = NoPool
  <2> DEFINE n == Len(built) + 1
  <2>1. built' = Append(built, NewPool(s)) /\ held' = [held EXCEPT ![g] = @ \cup {n}]
    BY <1>3 DEF LookUpPool
  <2>2. cached' = [cached EXCEPT ![s] = n]
    BY <1>3 DEF LookUpPool
  <2>3. /\ built' \in Seq(Pool)
        /\ n \in DOMAIN built' /\ n \notin DOMAIN built /\ n # NoPool
        /\ built'[n] = NewPool(s)
        /\ DOMAIN built' = DOMAIN built \cup {n}
        /\ BuiltGrows
    BY <2>1, NewPoolFacts, AppendFacts
  <2> HIDE DEF n
  <2>4. /\ built'[n].slot = s
        /\ built'[n].window = Window(tls, s.id)
        /\ built'[n].certs <= certs
        /\ s \in CertSlots => built'[n].certs = certs
        /\ s \notin CertSlots => built'[n].certs = 0
    BY <2>3, NewPoolFacts
  <2>5. \A m \in DOMAIN built : built'[m] = built[m]
    BY <2>3 DEF BuiltGrows
  <2>6. cached'[s] = n /\ \A t \in Slots : t # s => cached'[t] = cached[t]
    BY <1>0, <2>2
  <2>7. \A t \in Slots : cached[t] # NoPool => cached[t] \in DOMAIN built
    BY <1>0
  <2>8. CacheInv'
    <3>1. ClosedIsEmpty'
      BY <1>1 DEF ClosedIsEmpty
    <3>2. \A t \in Slots : cached'[t] # NoPool => built'[cached'[t]].slot = t
      BY <2>4, <2>5, <2>6, <2>7 DEF PoolParts, CacheInv
    <3>3. \A t \in CertSlots : cached'[t] # NoPool => built'[cached'[t]].certs = certs
      BY <2>4, <2>5, <2>6, <2>7, SlotFacts DEF PoolParts, CacheInv
    <3> QED BY <3>1, <3>2, <3>3 DEF CacheInv, CertSlots
  <2>9. s \notin CertSlots => \A m \in DOMAIN built : built[m].slot # s
    <3>1. \A m \in DOMAIN built : m # NoPool
      BY <1>0 DEF NoPool
    <3>2. \A m \in DOMAIN built :
            built[m].slot \notin CertSlots => cached[built[m].slot] = m
      BY <1>1 DEF PoolParts, TrustInv
    <3> QED BY <1>3, <3>1, <3>2
  <2>10. TrustInv'
    <3> SUFFICES ASSUME NEW m \in DOMAIN built', built'[m].slot \notin CertSlots
                 PROVE  /\ built'[m].certs = 0
                        /\ cached'[built'[m].slot] = m
                        /\ \A k \in DOMAIN built' : built'[k].slot = built'[m].slot => k = m
      BY <1>1 DEF TrustInv, CertSlots
    <3>1. CASE m = n
      BY <2>3, <2>4, <2>5, <2>6, <2>9, <3>1
    <3>2. CASE m # n
      <4>1. m \in DOMAIN built /\ built'[m] = built[m]
        BY <2>3, <2>5, <3>2
      <4>2. built[m].slot \in Slots /\ built[m].slot # s
        <5>1. built[m] \in Pool
          BY <1>0, <4>1
        <5>2. built[m].slot \notin CertSlots
          BY <4>1
        <5> QED BY <2>9, <4>1, <5>1, <5>2 DEF Pool
      <4>3. built[m].certs = 0 /\ cached[built[m].slot] = m
            /\ \A k \in DOMAIN built : built[k].slot = built[m].slot => k = m
        BY <1>1, <4>1 DEF PoolParts, TrustInv
      <4> QED BY <2>3, <2>4, <2>5, <2>6, <4>1, <4>2, <4>3
    <3> QED BY <3>1, <3>2
  <2>11. WindowInv'
    <3>1. \A m \in DOMAIN built' : built'[m].window = Window(tls, built'[m].slot.id)
      BY <2>3, <2>4, <2>5 DEF PoolParts, WindowInv
    <3>2. Accepted(tls)
      BY DEF PoolParts, WindowInv
    <3> QED BY <3>1, <3>2 DEF WindowInv
  <2>12. cached' \in [Slots -> DOMAIN built' \cup {NoPool}]
    BY <1>0, <2>2, <2>3
  <2>13. \A m \in DOMAIN built' : built'[m].certs <= certs
    BY <1>0, <2>3, <2>4, <2>5
  <2> QED BY <2>1, <2>3, <2>4, <2>8, <2>10, <2>11, <2>12, <2>13 DEF PoolParts
<1> QED BY <1>2, <1>3

(***************************************************************************)
(* The steps that leave the pools alone, but for what is cached.           *)
(***************************************************************************)

LEMMA PartsStay ==
  ASSUME PoolParts, UNCHANGED <<tls, setVars>>
  PROVE  PoolParts' /\ BuiltGrows
BY DEF PoolParts, CacheInv, ClosedIsEmpty, TrustInv, WindowInv, Accepted, BuiltGrows

(* setClientCerts drops the clientCert pools only (transport.go:259-270).  *)
LEMMA CertsInstalled ==
  ASSUME TypeOK, PoolParts, setClientCerts, tls' = tls
  PROVE  /\ PoolParts' /\ BuiltGrows
         /\ cached' \in [Slots -> DOMAIN built' \cup {NoPool}]
         /\ idle' \cup shut' \subseteq DOMAIN built
         /\ certs' = certs + 1 /\ built' = built /\ closed' = closed
<1>0. cached \in [Slots -> DOMAIN built \cup {NoPool}] /\ idle \cup shut \subseteq DOMAIN built
  BY DEF TypeOK
<1>1. /\ certs' = certs + 1 /\ built' = built /\ closed' = closed
      /\ cached' = [s \in Slots |-> IF s \in CertSlots THEN NoPool ELSE cached[s]]
  BY DEF setClientCerts
<1>2. BuiltGrows
  BY <1>1 DEF BuiltGrows
<1>3. CacheInv'
  <2>1. ClosedIsEmpty'
    BY <1>1 DEF PoolParts, CacheInv, ClosedIsEmpty
  <2>2. \A s \in Slots : cached'[s] # NoPool => s \notin CertSlots /\ cached'[s] = cached[s]
    BY <1>1
  <2> QED BY <1>1, <2>1, <2>2, SlotFacts DEF PoolParts, CacheInv
<1>4. TrustInv'
  <2>0. built \in Seq(Pool)
    BY DEF TypeOK, Pool
  <2>1. \A n \in DOMAIN built : built[n] \in Pool
    BY <2>0
  <2>2. \A n \in DOMAIN built : built[n].slot \notin CertSlots =>
          cached'[built[n].slot] = cached[built[n].slot]
    BY <1>1, <2>1 DEF Pool
  <2> QED BY <1>1, <2>2 DEF PoolParts, TrustInv
<1>5. WindowInv'
  BY <1>1 DEF PoolParts, WindowInv, Accepted
<1>6. cached' \in [Slots -> DOMAIN built' \cup {NoPool}]
  BY <1>0, <1>1
<1>7. idle' \cup shut' \subseteq DOMAIN built
  <2>1. {cached[s] : s \in CertSlots} \ {NoPool} \subseteq DOMAIN built
    BY <1>0, SlotFacts
  <2> QED BY <1>0, <2>1 DEF setClientCerts
<1> QED BY <1>1, <1>2, <1>3, <1>4, <1>5, <1>6, <1>7 DEF PoolParts

(* Close drops every pool (transport.go:290-305).                          *)
LEMMA SetClosed ==
  ASSUME TypeOK, PoolParts, Close
  PROVE  /\ PoolParts' /\ BuiltGrows
         /\ cached' \in [Slots -> DOMAIN built' \cup {NoPool}]
         /\ idle' \cup shut' \subseteq DOMAIN built
<1>0. cached \in [Slots -> DOMAIN built \cup {NoPool}] /\ idle \cup shut \subseteq DOMAIN built
  BY DEF TypeOK
<1>1. /\ certs' = certs /\ built' = built /\ closed' /\ tls' = tls
      /\ cached' = [s \in Slots |-> NoPool]
  BY DEF Close
<1>2. BuiltGrows
  BY <1>1 DEF BuiltGrows
<1>3. CacheInv'
  <2>1. \A s \in Slots : cached'[s] = NoPool
    BY <1>1
  <2> QED BY <2>1, SlotFacts DEF CacheInv, ClosedIsEmpty
<1>4. TrustInv'
  BY <1>1 DEF PoolParts, TrustInv
<1>5. WindowInv'
  BY <1>1 DEF PoolParts, WindowInv, Accepted
<1>6. cached' \in [Slots -> DOMAIN built' \cup {NoPool}]
  BY <1>0, <1>1
<1>7. idle' \cup shut' \subseteq DOMAIN built
  <2>1. {cached[s] : s \in Slots} \ {NoPool} \subseteq DOMAIN built
    BY <1>0
  <2> QED BY <1>0, <2>1 DEF Close
<1> QED BY <1>1, <1>2, <1>3, <1>4, <1>5, <1>6, <1>7 DEF PoolParts

(***************************************************************************)
(* Every step preserves the invariant.                                     *)
(***************************************************************************)

LEMMA InitPools == Init => PoolsInv
<1> SUFFICES ASSUME Init PROVE PoolsInv
  OBVIOUS
<1> USE DEF Init
<1>1. TypeOK
  <2>1. certs \in 0 .. MaxUses + 1
    BY MaxUsesAssumption
  <2>2. built \in Seq([slot : Slots, certs : Nat, window : SUBSET Nat]) /\ DOMAIN built = {}
    OBVIOUS
  <2>3. uses \in 0 .. MaxUses
    BY MaxUsesAssumption
  <2>4. cached \in [Slots -> DOMAIN built \cup {NoPool}]
    BY <2>2
  <2>5. pc \in [Goroutines -> {"idle", "lookup", "use", "fly"}]
    OBVIOUS
  <2>6. want \in [Goroutines -> SUBSET Slots] /\ held \in [Goroutines -> SUBSET DOMAIN built]
    BY <2>2
  <2> QED BY <2>1, <2>2, <2>3, <2>4, <2>5, <2>6 DEF TypeOK
<1>2. DOMAIN built = {}
  OBVIOUS
<1>3. CacheInv
  <2>1. \A s \in Slots : cached[s] = NoPool
    OBVIOUS
  <2> QED BY <2>1, SlotFacts DEF CacheInv, ClosedIsEmpty
<1>4. TrustInv /\ WindowInv
  BY <1>2 DEF TrustInv, WindowInv
<1>5. CertsInv
  BY DEF CertsInv
<1>6. \A g \in Goroutines : GoroutineInv(g)
  BY DEF GoroutineInv
<1> QED BY <1>1, <1>3, <1>4, <1>5, <1>6 DEF PoolsInv

(* The types that a step leaves alone.                                     *)
LEMMA TypesStay ==
  ASSUME TypeOK, BuiltGrows, built' \in Seq(Pool),
         \A n \in DOMAIN built' : built'[n].certs <= certs',
         cached' \in [Slots -> DOMAIN built' \cup {NoPool}],
         UNCHANGED <<a2a, tls>>, closed' \in BOOLEAN, certs' \in 0 .. MaxUses + 1,
         idle' \cup shut' \subseteq DOMAIN built',
         pc' \in [Goroutines -> {"idle", "lookup", "use", "fly"}],
         want' \in [Goroutines -> SUBSET Slots],
         held' \in [Goroutines -> SUBSET DOMAIN built'],
         uses' \in 0 .. MaxUses
  PROVE  TypeOK'
BY DEF TypeOK, Pool

(* A step of one goroutine that leaves the set alone.                      *)
LEMMA GoroutineMoves ==
  ASSUME PoolsInv, NEW g \in Goroutines, NEW p \in {"idle", "lookup", "use", "fly"},
         pc' = [pc EXCEPT ![g] = p],
         want' \in [Goroutines -> SUBSET Slots],
         held' \in [Goroutines -> SUBSET DOMAIN built],
         \A h \in Goroutines \ {g} : want'[h] = want[h] /\ held'[h] = held[h],
         UNCHANGED <<a2a, tls, setVars>>,
         idle' \cup shut' \subseteq DOMAIN built,
         uses' \in 0 .. MaxUses, uses <= uses',
         GoroutineInv(g)'
  PROVE  PoolsInv'
<1>0. TypeOK /\ PoolParts
  BY DEF PoolsInv, PoolParts
<1>1. PoolParts' /\ BuiltGrows
  BY <1>0, PartsStay
<1>2. pc' \in [Goroutines -> {"idle", "lookup", "use", "fly"}]
  BY <1>0 DEF TypeOK
<1>3. TypeOK'
  <2>1. built \in Seq(Pool) /\ (\A n \in DOMAIN built : built[n].certs <= certs)
        /\ cached \in [Slots -> DOMAIN built \cup {NoPool}]
        /\ closed \in BOOLEAN /\ certs \in 0 .. MaxUses + 1
    BY <1>0 DEF TypeOK, Pool
  <2> QED BY <1>0, <1>1, <1>2, <2>1, TypesStay
<1>4. CertsInv'
  <2>1. certs \in Nat /\ uses \in Nat /\ uses' \in Nat
    BY <1>0, MaxUsesAssumption DEF TypeOK
  <2> QED BY <2>1 DEF PoolsInv, CertsInv
<1>5. ASSUME NEW h \in Goroutines
      PROVE  GoroutineInv(h)'
  <2>1. CASE h = g
    BY <2>1
  <2>2. CASE h # g
    <3>1. Untouched(h)
      BY <1>0, <2>2 DEF Untouched, TypeOK
    <3> QED BY <1>1, <1>5, <3>1, OthersStay DEF PoolsInv
  <2> QED BY <2>1, <2>2
<1> QED BY <1>1, <1>3, <1>4, <1>5 DEF PoolsInv, PoolParts

LEMMA LookUpKeeps ==
  ASSUME PoolsInv, NEW g \in Goroutines, NEW s \in Slots, LookUp(g, s)
  PROVE  PoolsInv'
<1>0. TypeOK /\ PoolParts
  BY DEF PoolsInv, PoolParts
<1>1. /\ pc[g] = "lookup" /\ s \in want[g] /\ ~Refused(s) /\ LookUpPool(g, s)
      /\ s.id = "clientCert" => \A t \in want[g] : t.id = "clientCert"
      /\ want' = [want EXCEPT ![g] = @ \ {s}]
      /\ pc' = [pc EXCEPT ![g] = IF want'[g] = {} THEN "use" ELSE "lookup"]
      /\ UNCHANGED <<a2a, tls, closed, certs, idle, shut, uses>>
  BY DEF LookUp
<1>2. /\ PoolParts' /\ BuiltGrows
      /\ built' \in Seq(Pool)
      /\ \A n \in DOMAIN built' : built'[n].certs <= certs
      /\ cached' \in [Slots -> DOMAIN built' \cup {NoPool}]
  BY <1>0, <1>1, PoolFound
<1>3. PICK n \in DOMAIN built' :
        /\ held' = [held EXCEPT ![g] = @ \cup {n}]
        /\ built'[n].slot = s
        /\ s \in CertSlots => built'[n].certs = certs
  BY <1>0, <1>1, PoolFound
<1>4. /\ pc \in [Goroutines -> {"idle", "lookup", "use", "fly"}]
      /\ want \in [Goroutines -> SUBSET Slots]
      /\ held \in [Goroutines -> SUBSET DOMAIN built]
  BY <1>0 DEF TypeOK
<1>5. DOMAIN built \subseteq DOMAIN built' /\ \A m \in DOMAIN built : built'[m] = built[m]
  BY <1>2 DEF BuiltGrows
<1>6. /\ want'[g] = want[g] \ {s} /\ held'[g] = held[g] \cup {n}
      /\ pc'[g] = IF want'[g] = {} THEN "use" ELSE "lookup"
  BY <1>1, <1>3, <1>4
<1>7. TypeOK'
  <2>1. pc' \in [Goroutines -> {"idle", "lookup", "use", "fly"}]
    BY <1>1, <1>4
  <2>2. want' \in [Goroutines -> SUBSET Slots]
    BY <1>1, <1>4
  <2>3. held' \in [Goroutines -> SUBSET DOMAIN built']
    BY <1>3, <1>4, <1>5
  <2>4. idle' \cup shut' \subseteq DOMAIN built'
    BY <1>0, <1>1, <1>5 DEF TypeOK
  <2>5. closed' \in BOOLEAN /\ certs' \in 0 .. MaxUses + 1 /\ uses' \in 0 .. MaxUses
    BY <1>0, <1>1 DEF TypeOK
  <2> QED BY <1>0, <1>1, <1>2, <2>1, <2>2, <2>3, <2>4, <2>5, TypesStay
<1>8. RequestInv(g)' \/ LoginInv(g)'
  <2>1. CASE RequestInv(g)
    <3>1. PICK t \in Slots : (~a2a => t \notin CertSlots) /\ want[g] = {t} /\ held[g] = {}
      BY <1>1, <2>1 DEF RequestInv
    <3>2. t = s /\ want'[g] = {} /\ held'[g] = {n}
      BY <1>1, <1>6, <3>1
    <3>3. RequestInv(g)'
      BY <1>1, <1>3, <3>1, <3>2 DEF RequestInv, CertSlots
    <3> QED BY <3>3
  <2>2. CASE LoginInv(g)
    <3>1. CASE want[g] = {TrustSlot, CertSlot} /\ held[g] = {}
      <4>1. s = TrustSlot
        BY <1>1, <3>1 DEF TrustSlot, CertSlot
      <4>2. want'[g] = {CertSlot} /\ held'[g] = {n} /\ built'[n].slot = TrustSlot
        BY <1>3, <1>6, <3>1, <4>1, SlotFacts
      <4>3. ~a2a'
        BY <1>1, <2>2 DEF LoginInv
      <4>4. LoginInv(g)'
        BY <4>2, <4>3 DEF LoginInv, TrustSlot, CertSlot
      <4> QED BY <4>4
    <3>2. CASE want[g] = {CertSlot} /\ \E m \in DOMAIN built : held[g] = {m} /\ built[m].slot = TrustSlot
      <4>1. s = CertSlot
        BY <1>1, <3>2
      <4>2. PICK m \in DOMAIN built : held[g] = {m} /\ built[m].slot = TrustSlot
        BY <3>2
      <4>3. m \in DOMAIN built' /\ built'[m].slot = TrustSlot
        BY <1>5, <4>2
      <4>4. want'[g] = {} /\ held'[g] = {m, n}
        BY <1>6, <3>2, <4>1, <4>2
      <4>5. built'[n].slot = CertSlot /\ built'[n].certs = certs'
        BY <1>1, <1>3, <4>1, SlotFacts
      <4>6. ~a2a'
        BY <1>1, <2>2 DEF LoginInv
      <4>7. LoginInv(g)'
        BY <4>3, <4>4, <4>5, <4>6 DEF LoginInv, TrustSlot, CertSlot
      <4> QED BY <4>7
    <3> QED BY <1>1, <2>2, <3>1, <3>2 DEF LoginInv
  <2> QED BY <1>1, <2>1, <2>2 DEF PoolsInv, GoroutineInv
<1>9. ASSUME NEW h \in Goroutines
      PROVE  GoroutineInv(h)'
  <2>1. CASE h = g
    BY <1>6, <1>8, <2>1 DEF GoroutineInv
  <2>2. CASE h # g
    <3>1. Untouched(h)
      BY <1>1, <1>3, <1>4, <2>2 DEF Untouched
    <3> QED BY <1>1, <1>2, <1>9, <3>1, OthersStay DEF PoolsInv
  <2> QED BY <2>1, <2>2
<1>10. CertsInv'
  BY <1>1 DEF PoolsInv, CertsInv
<1> QED BY <1>2, <1>7, <1>9, <1>10 DEF PoolsInv, PoolParts

LEMMA LookUpFailsKeeps ==
  ASSUME PoolsInv, NEW g \in Goroutines, NEW s \in Slots, LookUpFails(g, s)
  PROVE  PoolsInv'
<1>0. TypeOK
  BY DEF PoolsInv
<1>1. /\ pc' = [pc EXCEPT ![g] = "idle"]
      /\ want' = [want EXCEPT ![g] = {}] /\ held' = [held EXCEPT ![g] = {}]
      /\ UNCHANGED <<a2a, tls, setVars, idle, shut, uses>>
  BY DEF LookUpFails
<1>2. want' \in [Goroutines -> SUBSET Slots] /\ held' \in [Goroutines -> SUBSET DOMAIN built]
  BY <1>0, <1>1 DEF TypeOK
<1>3. \A h \in Goroutines \ {g} : want'[h] = want[h] /\ held'[h] = held[h]
  BY <1>0, <1>1 DEF TypeOK
<1>4. GoroutineInv(g)'
  BY <1>0, <1>1 DEF TypeOK, GoroutineInv
<1>5. idle' \cup shut' \subseteq DOMAIN built /\ uses' \in 0 .. MaxUses /\ uses <= uses'
  BY <1>0, <1>1, MaxUsesAssumption DEF TypeOK
<1> QED BY <1>1, <1>2, <1>3, <1>4, <1>5, GoroutineMoves

LEMMA BeginRequestKeeps ==
  ASSUME PoolsInv, NEW g \in Goroutines, BeginRequest(g)
  PROVE  PoolsInv'
<1>0. TypeOK
  BY DEF PoolsInv
<1>1. PICK ws \in BOOLEAN :
        Begin(g, {[ws |-> ws, id |-> IF a2a THEN "clientCert" ELSE "serverTrust"]})
  BY DEF BeginRequest
<1> DEFINE s == [ws |-> ws, id |-> IF a2a THEN "clientCert" ELSE "serverTrust"]
<1>2. s \in Slots /\ (~a2a => s \notin CertSlots)
  BY DEF Slots, CertSlots
<1>3. /\ pc[g] = "idle" /\ uses < MaxUses /\ uses' = uses + 1
      /\ pc' = [pc EXCEPT ![g] = "lookup"] /\ want' = [want EXCEPT ![g] = {s}]
      /\ UNCHANGED <<a2a, tls, held, setVars, idle, shut>>
  BY <1>1 DEF BeginRequest, Begin
<1> HIDE DEF s
<1>4. want' \in [Goroutines -> SUBSET Slots] /\ held' \in [Goroutines -> SUBSET DOMAIN built]
  BY <1>0, <1>2, <1>3 DEF TypeOK
<1>5. \A h \in Goroutines \ {g} : want'[h] = want[h] /\ held'[h] = held[h]
  BY <1>0, <1>3 DEF TypeOK
<1>6. pc'[g] = "lookup" /\ want'[g] = {s} /\ held'[g] = {}
  BY <1>0, <1>3 DEF TypeOK, PoolsInv, GoroutineInv
<1>7. GoroutineInv(g)'
  <2>1. RequestInv(g)'
    BY <1>2, <1>3, <1>6 DEF RequestInv, CertSlots
  <2> QED BY <1>6, <2>1 DEF GoroutineInv
<1>8. idle' \cup shut' \subseteq DOMAIN built
  BY <1>0, <1>3 DEF TypeOK
<1>9. uses' \in 0 .. MaxUses /\ uses <= uses'
  BY <1>0, <1>3, MaxUsesAssumption DEF TypeOK
<1> QED BY <1>3, <1>4, <1>5, <1>7, <1>8, <1>9, GoroutineMoves

LEMMA DialKeeps ==
  ASSUME PoolsInv, NEW g \in Goroutines, Dial(g)
  PROVE  PoolsInv'
<1>0. TypeOK
  BY DEF PoolsInv
<1>1. /\ pc[g] = "use" /\ shut' = shut \ held[g] /\ pc' = [pc EXCEPT ![g] = "fly"]
      /\ UNCHANGED <<a2a, tls, setVars, idle, want, held, uses>>
  BY DEF Dial
<1>2. want' \in [Goroutines -> SUBSET Slots] /\ held' \in [Goroutines -> SUBSET DOMAIN built]
  BY <1>0, <1>1 DEF TypeOK
<1>3. GoroutineInv(g)'
  <2>1. BuiltGrows
    BY <1>1 DEF BuiltGrows
  <2>2. RequestInv(g)' \/ LoginInv(g)'
    BY <1>1, <2>1, RequestStays, LoginStays DEF PoolsInv, GoroutineInv
  <2>3. pc'[g] = "fly" /\ want'[g] = {}
    BY <1>0, <1>1 DEF TypeOK, PoolsInv, GoroutineInv
  <2> QED BY <2>2, <2>3 DEF GoroutineInv
<1>4. idle' \cup shut' \subseteq DOMAIN built /\ uses' \in 0 .. MaxUses /\ uses <= uses'
  BY <1>0, <1>1, MaxUsesAssumption DEF TypeOK
<1> QED BY <1>1, <1>2, <1>3, <1>4, GoroutineMoves

LEMMA FinishKeeps ==
  ASSUME PoolsInv, NEW g \in Goroutines, Finish(g)
  PROVE  PoolsInv'
<1>0. TypeOK
  BY DEF PoolsInv
<1>1. /\ pc[g] = "fly" /\ idle' \subseteq idle \cup held[g]
      /\ pc' = [pc EXCEPT ![g] = "idle"] /\ held' = [held EXCEPT ![g] = {}]
      /\ UNCHANGED <<a2a, tls, setVars, shut, want, uses>>
  BY DEF Finish
<1>2. want' \in [Goroutines -> SUBSET Slots] /\ held' \in [Goroutines -> SUBSET DOMAIN built]
  BY <1>0, <1>1 DEF TypeOK
<1>3. \A h \in Goroutines \ {g} : want'[h] = want[h] /\ held'[h] = held[h]
  BY <1>0, <1>1 DEF TypeOK
<1>4. GoroutineInv(g)'
  BY <1>0, <1>1 DEF TypeOK, PoolsInv, GoroutineInv
<1>5. idle' \cup shut' \subseteq DOMAIN built /\ uses' \in 0 .. MaxUses /\ uses <= uses'
  BY <1>0, <1>1, MaxUsesAssumption DEF TypeOK
<1> QED BY <1>1, <1>2, <1>3, <1>4, <1>5, GoroutineMoves

(* Whoever else is on its way makes a request: a login keeps what it       *)
(* installed, because the next one waits for it (credentials.go:207-230).  *)
LEMMA BeginLoginKeeps ==
  ASSUME PoolsInv, NEW g \in Goroutines, BeginLogin(g)
  PROVE  PoolsInv'
<1>0. TypeOK /\ PoolParts
  BY DEF PoolsInv, PoolParts
<1> DEFINE both == {[ws |-> FALSE, id |-> i] : i \in {"serverTrust", "clientCert"}}
<1>1. both = {TrustSlot, CertSlot}
  BY DEF TrustSlot, CertSlot
<1>2. /\ ~a2a /\ pc[g] = "idle" /\ uses < MaxUses /\ uses' = uses + 1
      /\ pc' = [pc EXCEPT ![g] = "lookup"] /\ want' = [want EXCEPT ![g] = both]
      /\ UNCHANGED <<a2a, tls, held>>
      /\ \A h \in Goroutines : ~LoggingIn(h)
  BY DEF BeginLogin, Begin
<1> HIDE DEF both
<1>3. /\ PoolParts' /\ BuiltGrows
      /\ cached' \in [Slots -> DOMAIN built' \cup {NoPool}]
      /\ idle' \cup shut' \subseteq DOMAIN built
      /\ certs' = certs + 1 /\ built' = built /\ closed' = closed
  BY <1>0, <1>2, CertsInstalled DEF BeginLogin
<1>4. /\ certs \in Nat /\ uses \in Nat /\ certs <= uses + 1 /\ MaxUses \in Nat
  BY <1>0, MaxUsesAssumption DEF TypeOK, PoolsInv, CertsInv
<1>5. CertsInv' /\ certs' \in 0 .. MaxUses + 1 /\ uses' \in 0 .. MaxUses
  BY <1>2, <1>3, <1>4 DEF CertsInv
<1>6. pc'[g] = "lookup" /\ want'[g] = both /\ held'[g] = {}
  BY <1>0, <1>2 DEF TypeOK, PoolsInv, GoroutineInv
<1>7. TypeOK'
  <2>1. built' \in Seq(Pool)
    BY <1>0, <1>3 DEF TypeOK, Pool
  <2>2. \A n \in DOMAIN built' : built'[n].certs <= certs'
    <3>1. \A n \in DOMAIN built : built[n] \in Pool
      BY <1>3, <2>1
    <3>2. \A n \in DOMAIN built : built[n].certs \in Nat /\ built[n].certs <= certs
      BY <1>0, <3>1 DEF Pool, TypeOK
    <3> QED BY <1>3, <1>4, <3>2
  <2>3. pc' \in [Goroutines -> {"idle", "lookup", "use", "fly"}]
    BY <1>0, <1>2 DEF TypeOK
  <2>4. want' \in [Goroutines -> SUBSET Slots]
    BY <1>0, <1>1, <1>2, SlotFacts DEF TypeOK
  <2>5. held' \in [Goroutines -> SUBSET DOMAIN built']
    BY <1>0, <1>2, <1>3 DEF TypeOK
  <2>6. closed' \in BOOLEAN /\ idle' \cup shut' \subseteq DOMAIN built'
    BY <1>0, <1>3 DEF TypeOK
  <2> QED BY <1>0, <1>2, <1>3, <1>5, <2>1, <2>2, <2>3, <2>4, <2>5, <2>6, TypesStay
<1>8. ASSUME NEW h \in Goroutines
      PROVE  GoroutineInv(h)'
  <2>1. CASE h = g
    <3>1. LoginInv(g)'
      BY <1>1, <1>2, <1>6 DEF LoginInv, TrustSlot, CertSlot
    <3> QED BY <1>6, <2>1, <3>1 DEF GoroutineInv
  <2>2. CASE h # g
    <3>1. pc'[h] = pc[h] /\ want'[h] = want[h] /\ held'[h] = held[h]
      BY <1>0, <1>2, <2>2 DEF TypeOK
    <3>2. pc[h] # "idle" => RequestInv(h)
      BY <1>2, LoginCounts DEF PoolsInv, GoroutineInv
    <3>3. pc[h] # "idle" => RequestInv(h)'
      BY <1>2, <1>3, <3>1, <3>2, RequestStays
    <3> QED BY <3>1, <3>3 DEF PoolsInv, GoroutineInv
  <2> QED BY <2>1, <2>2
<1> QED BY <1>3, <1>5, <1>7, <1>8 DEF PoolsInv, PoolParts

LEMMA ExpireKeeps ==
  ASSUME PoolsInv, NEW n \in DOMAIN built, Expire(n)
  PROVE  PoolsInv'
<1>0. TypeOK /\ PoolParts
  BY DEF PoolsInv, PoolParts
<1>1. idle' \subseteq idle /\ UNCHANGED <<a2a, tls, setVars, shut, gVars, uses>>
  BY DEF Expire
<1>2. PoolParts' /\ BuiltGrows
  BY <1>0, <1>1, PartsStay
<1>3. TypeOK'
  BY <1>0, <1>1 DEF TypeOK
<1>4. ASSUME NEW g \in Goroutines
      PROVE  GoroutineInv(g)'
  <2>1. Untouched(g)
    BY <1>1 DEF Untouched
  <2> QED BY <1>1, <1>2, <2>1, OthersStay DEF PoolsInv
<1>5. CertsInv'
  BY <1>1 DEF PoolsInv, CertsInv
<1> QED BY <1>2, <1>3, <1>4, <1>5 DEF PoolsInv, PoolParts

LEMMA CloseKeeps ==
  ASSUME PoolsInv, Close
  PROVE  PoolsInv'
<1>0. TypeOK /\ PoolParts
  BY DEF PoolsInv, PoolParts
<1>1. closed' = TRUE /\ UNCHANGED <<a2a, tls, certs, built, gVars, uses>>
  BY DEF Close
<1>2. /\ PoolParts' /\ BuiltGrows
      /\ cached' \in [Slots -> DOMAIN built' \cup {NoPool}]
      /\ idle' \cup shut' \subseteq DOMAIN built
  BY <1>0, SetClosed
<1>3. TypeOK'
  BY <1>0, <1>1, <1>2 DEF TypeOK
<1>4. ASSUME NEW g \in Goroutines
      PROVE  GoroutineInv(g)'
  <2>1. Untouched(g)
    BY <1>1 DEF Untouched
  <2> QED BY <1>1, <1>2, <2>1, OthersStay DEF PoolsInv
<1>5. CertsInv'
  BY <1>1 DEF PoolsInv, CertsInv
<1> QED BY <1>2, <1>3, <1>4, <1>5 DEF PoolsInv, PoolParts

LEMMA StutterKeeps == PoolsInv /\ UNCHANGED vars => PoolsInv'
<1> SUFFICES ASSUME PoolsInv, UNCHANGED vars PROVE PoolsInv'
  OBVIOUS
<1>0. TypeOK /\ PoolParts /\ UNCHANGED <<a2a, tls, setVars, netVars, gVars, uses>>
  BY DEF PoolsInv, PoolParts, vars
<1>1. PoolParts' /\ BuiltGrows
  BY <1>0, PartsStay
<1>2. TypeOK'
  BY <1>0 DEF TypeOK
<1>3. ASSUME NEW g \in Goroutines
      PROVE  GoroutineInv(g)'
  <2>1. Untouched(g)
    BY <1>0 DEF Untouched
  <2> QED BY <1>0, <1>1, <2>1, OthersStay DEF PoolsInv
<1>4. CertsInv'
  BY <1>0 DEF PoolsInv, CertsInv
<1> QED BY <1>1, <1>2, <1>3, <1>4 DEF PoolsInv, PoolParts

LEMMA NextKeeps == PoolsInv /\ [Next]_vars => PoolsInv'
<1> SUFFICES ASSUME PoolsInv, [Next]_vars PROVE PoolsInv'
  OBVIOUS
<1>1. ASSUME NEW g \in Goroutines, BeginRequest(g) PROVE PoolsInv'
  BY <1>1, BeginRequestKeeps
<1>2. ASSUME NEW g \in Goroutines, BeginLogin(g) PROVE PoolsInv'
  BY <1>2, BeginLoginKeeps
<1>3. ASSUME NEW g \in Goroutines, Dial(g) PROVE PoolsInv'
  BY <1>3, DialKeeps
<1>4. ASSUME NEW g \in Goroutines, Finish(g) PROVE PoolsInv'
  BY <1>4, FinishKeeps
<1>5. ASSUME NEW g \in Goroutines, NEW s \in Slots, LookUp(g, s) PROVE PoolsInv'
  BY <1>5, LookUpKeeps
<1>6. ASSUME NEW g \in Goroutines, NEW s \in Slots, LookUpFails(g, s) PROVE PoolsInv'
  BY <1>6, LookUpFailsKeeps
<1>7. ASSUME NEW n \in DOMAIN built, Expire(n) PROVE PoolsInv'
  BY <1>7, ExpireKeeps
<1>8. CASE Close
  BY <1>8, CloseKeeps
<1>9. CASE UNCHANGED vars
  BY <1>9, StutterKeeps
<1> QED BY <1>1, <1>2, <1>3, <1>4, <1>5, <1>6, <1>7, <1>8, <1>9 DEF Next

-----------------------------------------------------------------------------
(***************************************************************************)
(* The theorems.                                                           *)
(***************************************************************************)

(* The inductive invariant: what is cached, which pools there are and what *)
(* every goroutine holds agree with the set (transport.go:96-306).         *)
THEOREM PoolsInvariance == Spec => []PoolsInv
BY InitPools, NextKeeps, PTL DEF Spec

(* Every variable stays in its range; certificates are installed at most   *)
(* once per login (credentials.go:207-230).                                *)
THEOREM PoolTypes == Spec => []TypeOK
<1>1. PoolsInv => TypeOK
  BY DEF PoolsInv
<1> QED BY <1>1, PoolsInvariance, PTL

(* A closed set hands out no pool, a login presents the certificates it    *)
(* installed, and there is one serverTrust pool of each kind               *)
(* (transport.go:136-193, 251-306).                                        *)
THEOREM PoolsStayCurrent == Spec => []PoolsAreCurrent
<1>1. ASSUME PoolsInv PROVE PoolsAreCurrent
  <2>1. ClosedIsEmpty
    BY <1>1 DEF PoolsInv, CacheInv
  <2>2. CurrentCertificates
    <3>1. \A s \in CertSlots : cached[s] # NoPool => built[cached[s]].certs = certs
      BY <1>1 DEF PoolsInv, CacheInv
    <3>2. ASSUME NEW g \in Goroutines, LoggingIn(g),
                 NEW n \in held[g], built[n].slot \in CertSlots
          PROVE  built[n].certs = certs
      <4>1. pc[g] # "idle"
        BY <3>2 DEF LoggingIn
      <4>2. LoginInv(g)
        BY <1>1, <3>2, <4>1, RequestCounts DEF PoolsInv, GoroutineInv
      <4> QED BY <3>2, <4>2, SlotFacts DEF LoginInv
    <3> QED BY <3>1, <3>2 DEF CurrentCertificates
  <2>3. OneTrustPool
    <3> SUFFICES ASSUME NEW s \in Slots \ CertSlots
                 PROVE  Cardinality(Pools(s)) <= 1 /\ \A n \in Pools(s) : built[n].certs = 0
      BY DEF OneTrustPool
    <3>1. \A n \in Pools(s) : built[n].certs = 0 /\ \A m \in Pools(s) : m = n
      BY <1>1 DEF PoolsInv, TrustInv, Pools
    <3>2. Pools(s) = {} \/ \E n : Pools(s) = {n}
      BY <3>1
    <3>3. Cardinality(Pools(s)) = 0 \/ Cardinality(Pools(s)) = 1
      BY <3>2, Singles
    <3> QED BY <3>1, <3>3
  <2> QED BY <2>1, <2>2, <2>3 DEF PoolsAreCurrent
<1>2. PoolsInv => PoolsAreCurrent
  BY <1>1
<1> QED BY <1>2, PoolsInvariance, PTL

(* Every pool can negotiate a version the caller allowed, and a clientCert *)
(* pool TLS 1.3 only if the caller said so (tls.go:114-157).               *)
THEOREM WindowsStayUsable == Spec => []UsableWindow
<1>1. ASSUME PoolsInv PROVE UsableWindow
  <2> SUFFICES ASSUME NEW n \in DOMAIN built
               PROVE  /\ built[n].window # {}
                      /\ tls.max # 0 => \A v \in built[n].window : v <= tls.max
                      /\ built[n].slot \in CertSlots /\ TLS13 \in built[n].window =>
                           tls.min # 0 \/ tls.max # 0
    BY DEF UsableWindow
  <2>1. tls \in [min : Versions, max : Versions] /\ Accepted(tls)
    BY <1>1 DEF PoolsInv, TypeOK, WindowInv
  <2>2. built[n].window = Window(tls, built[n].slot.id)
    BY <1>1 DEF PoolsInv, WindowInv
  <2>3. built[n].slot \in CertSlots => built[n].slot.id = "clientCert"
    BY DEF CertSlots
  <2> HIDE <1>1
  <2> QED BY <2>1, <2>2, <2>3, WindowFacts
<1>2. PoolsInv => UsableWindow
  BY <1>1
<1> QED BY <1>2, PoolsInvariance, PTL
=============================================================================
