--------------------- MODULE NormalizeCredentials_proofs ---------------------
(***************************************************************************)
(* Proofs about the credential passes of NormalizeCredentials.             *)
(***************************************************************************)
EXTENDS NormalizeCredentials, DataLemmas

-----------------------------------------------------------------------------
(* A decoded spec, and what is left of one when a field is assigned.       *)

LEMMA SpecFields ==
    ASSUME NEW s, IsSpec(s)
    PROVE  /\ s.list \in Seq(Credentials)
           /\ s.sources \in [DOMAIN s.sources -> Sources]
           /\ s.secrets \in Seq(Envs)
           /\ s.routes \in [DOMAIN s.routes -> Services]
           /\ s.auth \in SUBSET Services
           /\ s.egress \in [DOMAIN s.egress -> Services]
           /\ s.proxy \in Seq(Envs)
           /\ s.oauth \in Standalone \cup {None}
BY DEF IsSpec

LEMMA SpecMaps ==
    ASSUME NEW s, IsSpec(s)
    PROVE  /\ DOMAIN s.sources \subseteq Services /\ IsFiniteSet(DOMAIN s.sources)
           /\ DOMAIN s.routes \subseteq Domains /\ IsFiniteSet(DOMAIN s.routes)
           /\ DOMAIN s.egress \subseteq Domains /\ IsFiniteSet(DOMAIN s.egress)
BY DEF IsSpec

LEMMA ListAssigned ==
    ASSUME NEW s, IsSpec(s), NEW list \in Seq(Credentials), NEW t, t = [s EXCEPT !.list = list]
    PROVE  /\ IsSpec(t)
           /\ t.list = list
           /\ t.oauth = s.oauth /\ t.proxy = s.proxy /\ t.sources = s.sources /\ t.routes = s.routes
BY DEF IsSpec

LEMMA ProxyAssigned ==
    ASSUME NEW s, IsSpec(s), NEW proxy \in Seq(Envs), NEW t, t = [s EXCEPT !.proxy = proxy]
    PROVE  IsSpec(t) /\ t.proxy = proxy /\ t.list = s.list
BY DEF IsSpec

LEMMA SourcesAssigned ==
    ASSUME NEW s, IsSpec(s), NEW D \in SUBSET Services, IsFiniteSet(D), NEW f \in [D -> Sources]
    PROVE  LET t == [s EXCEPT !.sources = f]
           IN  /\ IsSpec(t)
               /\ t.sources = f /\ t.list = s.list /\ t.secrets = s.secrets
               /\ t.routes = s.routes /\ t.auth = s.auth /\ t.egress = s.egress
               /\ t.proxy = s.proxy /\ t.oauth = s.oauth
BY DEF IsSpec

-----------------------------------------------------------------------------
(* Sorting, and the first of several places.                               *)

LEMMA AscendingSorts ==
    ASSUME NEW S \in SUBSET Nat, IsFiniteSet(S)
    PROVE  /\ Ascending(S) \in Seq(S)
           /\ Range(Ascending(S)) = S
           /\ DOMAIN Ascending(S) = 1 .. Cardinality(S)
           /\ \A i, j \in DOMAIN Ascending(S) : i < j => Ascending(S)[i] < Ascending(S)[j]
<1>0. S \in SUBSET Int
  OBVIOUS
<1>1. /\ Ascending(S) \in [1 .. Cardinality(S) -> S]
      /\ \A i, j \in DOMAIN Ascending(S) : i < j => Ascending(S)[i] < Ascending(S)[j]
  BY <1>0, AscendingExists DEF Ascending
<1>2. Range(Ascending(S)) = S
  <2> HIDE DEF Ascending
  <2>1. QED
    BY <1>0, <1>1, AscendingCovers
<1>3. Cardinality(S) \in Nat
  BY FS_CardinalityType
<1>4. Ascending(S) \in Seq(S)
  BY <1>1, <1>3, SeqDef
<1>5. QED
  BY <1>1, <1>2, <1>4

LEMMA MinIsLeast ==
    ASSUME NEW S \in SUBSET Nat, S # {}
    PROVE  Min(S) \in S /\ \A n \in S : Min(S) <= n
BY Least DEF Min

LEMMA JoinedMaps ==
    ASSUME NEW T, NEW f, NEW g, f \in [DOMAIN f -> T], g \in [DOMAIN g -> T]
    PROVE  Joined(f, g) \in [DOMAIN f \cup DOMAIN g -> T]
BY DEF Joined

-----------------------------------------------------------------------------
(* Each pass makes a decoded spec of one.                                  *)

LEMMA SecretServicesFinite ==
    ASSUME NEW s, IsSpec(s)
    PROVE  SecretServices(s) \in SUBSET Services /\ IsFiniteSet(SecretServices(s))
<1> DEFINE q == [i \in DOMAIN s.secrets |-> ServiceKey[s.secrets[i]]]
<1>1. s.secrets \in Seq(Envs) /\ Len(s.secrets) \in Nat /\ DOMAIN s.secrets = 1 .. Len(s.secrets)
  BY SpecFields, LenProperties
<1>2. q \in [1 .. Len(s.secrets) -> Services] /\ IsFiniteSet(1 .. Len(s.secrets))
  <2>1. IsFiniteSet(1 .. Len(s.secrets))
    BY <1>1, FS_Interval
  <2>2. \A i \in 1 .. Len(s.secrets) : s.secrets[i] \in Envs
    BY <1>1, ElementOfSeq
  <2>3. QED
    BY <1>1, <2>1, <2>2, KeysAreServices
<1>3. SecretServices(s) = Range(q)
  BY <1>1 DEF SecretServices, Range
<1>4. Range(q) \in SUBSET Services /\ IsFiniteSet(Range(q))
  <2> HIDE DEF q
  <2> DEFINE D == 1 .. Len(s.secrets)
  <2>1. IsFiniteSet(D) /\ q \in [D -> Services]
    BY <1>2
  <2> HIDE DEF D
  <2>2. QED
    BY <2>1, FiniteRange
<1>5. QED
  BY <1>3, <1>4

LEMMA SecretSourceType ==
    ASSUME NEW s, IsSpec(s), NEW svc \in SecretServices(s)
    PROVE  SecretSource(s, svc) \in Sources
<1>1. Range(s.secrets) \in SUBSET Envs
  BY SpecFields, FiniteSeqRange
<1>2. \E e \in Range(s.secrets) : ServiceKey[e] = svc
  BY DEF SecretServices
<1>3. (CHOOSE e \in Range(s.secrets) : ServiceKey[e] = svc) \in Envs
  BY <1>1, <1>2
<1>4. QED
  BY <1>3 DEF SecretSource, Sources

LEMMA SecretsKeepSpec ==
    ASSUME NEW s, IsSpec(s)
    PROVE  LET t == WithSecrets(s)
           IN  /\ IsSpec(t)
               /\ t.sources = Joined(s.sources, [svc \in SecretServices(s) |-> SecretSource(s, svc)])
               /\ t.list = s.list /\ t.secrets = s.secrets /\ t.routes = s.routes
               /\ t.auth = s.auth /\ t.egress = s.egress /\ t.proxy = s.proxy /\ t.oauth = s.oauth
<1> DEFINE g == [svc \in SecretServices(s) |-> SecretSource(s, svc)]
           f == Joined(s.sources, g)
           D == DOMAIN s.sources \cup SecretServices(s)
<1>1. s.sources \in [DOMAIN s.sources -> Sources] /\ g \in [DOMAIN g -> Sources]
  BY SpecFields, SecretSourceType
<1>2. DOMAIN g = SecretServices(s)
  OBVIOUS
<1>3. f \in [D -> Sources]
  <2> HIDE DEF g
  <2> QED BY <1>1, <1>2, JoinedMaps
<1>4. D \in SUBSET Services /\ IsFiniteSet(D)
  BY SpecMaps, SecretServicesFinite, FS_Union
<1>5. WithSecrets(s) = [s EXCEPT !.sources = f]
  BY DEF WithSecrets
<1> HIDE DEF f, D
<1>6. LET t == [s EXCEPT !.sources = f]
      IN  /\ IsSpec(t)
          /\ t.sources = f /\ t.list = s.list /\ t.secrets = s.secrets
          /\ t.routes = s.routes /\ t.auth = s.auth /\ t.egress = s.egress
          /\ t.proxy = s.proxy /\ t.oauth = s.oauth
  BY <1>3, <1>4, SourcesAssigned
<1>7. QED
  BY <1>5, <1>6 DEF f

LEMMA EgressKeepsSpec ==
    ASSUME NEW s, IsSpec(s)
    PROVE  LET t == WithEgress(s)
           IN  /\ IsSpec(t)
               /\ t.routes = Joined(s.routes, s.egress)
               /\ t.list = s.list /\ t.secrets = s.secrets /\ t.sources = s.sources
               /\ t.egress = s.egress /\ t.proxy = s.proxy /\ t.oauth = s.oauth
<1> DEFINE f == Joined(s.routes, s.egress)
           a == s.auth \cup (Range(s.egress) \cap WellKnown)
           D == DOMAIN s.routes \cup DOMAIN s.egress
<1>1. f \in [D -> Services]
  BY SpecFields, JoinedMaps
<1>2. D \in SUBSET Domains /\ IsFiniteSet(D)
  BY SpecMaps, FS_Union
<1>3. a \in SUBSET Services
  BY SpecFields, KeysAreServices
<1> DEFINE t == WithEgress(s)
<1>4. t = [s EXCEPT !.routes = f, !.auth = a]
  BY DEF WithEgress
<1> HIDE DEF f, D, a, t
<1>5. /\ IsSpec(t)
      /\ t.routes = f /\ t.auth = a /\ t.list = s.list /\ t.secrets = s.secrets
      /\ t.sources = s.sources /\ t.egress = s.egress
      /\ t.proxy = s.proxy /\ t.oauth = s.oauth
  BY <1>1, <1>2, <1>3, <1>4 DEF IsSpec
<1>6. QED
  BY <1>5 DEF f, t

LEMMA ServiceOfType ==
    ASSUME NEW s, IsSpec(s), NEW at \in Orders(DOMAIN s.sources), NEW e \in Envs
    PROVE  /\ ServiceOf(s, e, at) \in Services
           /\ Holders(s, e) # {} => ServiceOf(s, e, at) \in Holders(s, e)
           /\ Holders(s, e) \subseteq DOMAIN s.sources
<1> DEFINE H == Holders(s, e)
           P == {at[svc] : svc \in H}
           n == Cardinality(DOMAIN s.sources)
<1>1. H \in SUBSET DOMAIN s.sources /\ H \in SUBSET Services /\ IsFiniteSet(H)
  <2>1. H \in SUBSET DOMAIN s.sources
    BY DEF Holders
  <2>2. DOMAIN s.sources \subseteq Services /\ IsFiniteSet(DOMAIN s.sources)
    BY SpecMaps
  <2> HIDE DEF H
  <2>3. QED
    BY <2>1, <2>2, FS_Subset
<1>2. at \in [DOMAIN s.sources -> 1 .. n] /\ n \in Nat
  BY SpecMaps, FS_CardinalityType DEF Orders
<1>3. CASE H = {}
  BY <1>1, <1>3, KeysAreServices DEF ServiceOf
<1>4. CASE H # {}
  <2>1. P \in SUBSET (1 .. n) /\ P # {}
    BY <1>1, <1>2, <1>4
  <2>2. IsFiniteSet(P) /\ P \in SUBSET Int
    <3>1. IsFiniteSet(1 .. n)
      BY <1>2, FS_Interval
    <3> HIDE DEF P, n
    <3>2. IsFiniteSet(P)
      BY <2>1, <3>1, FS_Subset
    <3>3. QED
      BY <2>1, <3>2
  <2>3. PICK m \in P : \A k \in P : k <= m
    <3> HIDE DEF P
    <3> QED BY <2>1, <2>2, Greatest
  <2>4. \E svc \in H : \A other \in H : at[other] <= at[svc]
    BY <2>3
  <2>5. ServiceOf(s, e, at) \in H
    BY <2>4, <1>4 DEF ServiceOf
  <2>6. QED
    BY <2>5, <1>1
<1>5. QED
  BY <1>3, <1>4

LEMMA ManagedType ==
    ASSUME NEW s, IsSpec(s), NEW svc, NEW at
    PROVE  /\ Managed(s, svc, at) \in SUBSET DOMAIN s.proxy
           /\ Managed(s, svc, at) # {} => s.proxy[Min(Managed(s, svc, at))] \in Envs
<1>1. Managed(s, svc, at) \in SUBSET DOMAIN s.proxy
  BY DEF Managed
<1>2. s.proxy \in Seq(Envs) /\ DOMAIN s.proxy = 1 .. Len(s.proxy) /\ Len(s.proxy) \in Nat
  BY SpecFields, LenProperties
<1>3. Managed(s, svc, at) \in SUBSET Nat
  BY <1>1, <1>2
<1>4. Managed(s, svc, at) # {} => Min(Managed(s, svc, at)) \in 1 .. Len(s.proxy)
  BY <1>1, <1>2, <1>3, MinIsLeast
<1>5. QED
  BY <1>1, <1>2, <1>4, ElementOfSeq

LEMMA NameOfType ==
    ASSUME NEW s, IsSpec(s), NEW svc, NEW at
    PROVE  /\ NameOf(s, svc, at) \in Envs \cup {None}
           /\ Managed(s, svc, at) # {} => NameOf(s, svc, at) \in Envs
<1>1. ASSUME svc \in DOMAIN s.sources, s.sources[svc].env # <<>>
      PROVE  Head(s.sources[svc].env) \in Envs
  <2>1. s.sources[svc].env \in Seq(Envs)
    BY <1>1, SpecFields DEF Sources
  <2>2. QED
    BY <1>1, <2>1, HeadTailProperties
<1>2. QED
  BY <1>1, ManagedType DEF NameOf

LEMMA InjectedType ==
    ASSUME NEW s, IsSpec(s), NEW svc
    PROVE  LET D == {d \in DOMAIN s.routes : s.routes[d] = svc}
           IN  /\ Injected(s, svc) \in Seq(Injects)
               /\ {inj.domain : inj \in Range(Injected(s, svc))} = D
               /\ D # {} => Injected(s, svc) # <<>>
<1> DEFINE D == {d \in DOMAIN s.routes : s.routes[d] = svc}
           q == Ascending(D)
           by == IF svc \in s.auth THEN "header" ELSE "nothing"
           f == [i \in DOMAIN q |-> [domain |-> q[i], by |-> by]]
<1>1. Injected(s, svc) = f
  BY DEF Injected
<1>2. D \in SUBSET Domains /\ D \in SUBSET Nat /\ IsFiniteSet(D)
  <2>1. D \in SUBSET DOMAIN s.routes
    OBVIOUS
  <2>2. DOMAIN s.routes \subseteq Domains /\ IsFiniteSet(DOMAIN s.routes)
    BY SpecMaps
  <2> HIDE DEF D
  <2>3. QED
    BY <2>1, <2>2, FS_Subset, NamesAreOrdered
<1> HIDE DEF D
<1>3. q \in Seq(D) /\ Range(q) = D /\ DOMAIN q = 1 .. Cardinality(D)
  BY <1>2, AscendingSorts
<1>4. Cardinality(D) \in Nat /\ (D # {} => Cardinality(D) # 0)
  BY <1>2, FS_CardinalityType, FS_EmptySet
<1>5. \A i \in 1 .. Cardinality(D) : q[i] \in D
  BY <1>3 DEF Range
<1> HIDE DEF q
<1>6. f \in [1 .. Cardinality(D) -> Injects]
  BY <1>2, <1>3, <1>5 DEF Injects, Ways
<1>7. f \in Seq(Injects) /\ Len(f) = Cardinality(D)
  <2> HIDE DEF f
  <2> QED BY <1>4, <1>6, FunctionIsSeq
<1>8. {inj.domain : inj \in Range(f)} = D
  <2>1. DOMAIN f = DOMAIN q /\ \A i \in DOMAIN q : f[i].domain = q[i]
    OBVIOUS
  <2> HIDE DEF f
  <2>2. {inj.domain : inj \in Range(f)} = {f[i].domain : i \in DOMAIN f}
    BY DEF Range
  <2>3. {f[i].domain : i \in DOMAIN f} = {q[i] : i \in DOMAIN q}
    BY <2>1
  <2>4. QED
    BY <1>3, <2>2, <2>3 DEF Range
<1>9. D # {} => f # <<>>
  <2> HIDE DEF f
  <2> QED BY <1>4, <1>7
<1>10. QED
  BY <1>1, <1>7, <1>8, <1>9 DEF D

LEMMA FoldedType ==
    ASSUME NEW s, IsSpec(s), NEW svc \in Services, NEW at
    PROVE  /\ Folded(s, svc, at) \in Credentials
           /\ Folded(s, svc, at).service = svc
           /\ Folded(s, svc, at).key = FoldedKey(s, svc, at)
           /\ Folded(s, svc, at).oauth = None
           /\ FoldedKey(s, svc, at) \in Keys \cup {None}
<1>1. FoldedKey(s, svc, at) \in Keys \cup {None}
  BY NameOfType, InjectedType DEF FoldedKey, Keys
<1>2. (svc \in DOMAIN s.sources /\ s.sources[svc].required) \in BOOLEAN
  OBVIOUS
<1>3. QED
  BY <1>1, <1>2 DEF Folded, Credentials

LEMMA NewServicesType ==
    ASSUME NEW s, IsSpec(s), NEW at \in Orders(DOMAIN s.sources)
    PROVE  NewServices(s, at) \in SUBSET Services /\ IsFiniteSet(NewServices(s, at))
<1> DEFINE named == [i \in DOMAIN s.proxy |-> ServiceOf(s, s.proxy[i], at)]
           All == DOMAIN s.sources \cup Range(s.routes) \cup Range(named)
<1>1. s.proxy \in Seq(Envs) /\ DOMAIN s.proxy = 1 .. Len(s.proxy) /\ Len(s.proxy) \in Nat
  BY SpecFields, LenProperties
<1>2. \A i \in DOMAIN s.proxy : s.proxy[i] \in Envs
  BY <1>1, ElementOfSeq
<1>3. named \in [DOMAIN s.proxy -> Services]
  BY <1>2, ServiceOfType
<1>4. IsFiniteSet(DOMAIN s.proxy)
  BY <1>1, FS_Interval
<1>5. {ServiceOf(s, e, at) : e \in Range(s.proxy)} = Range(named)
  BY DEF Range
<1>6. Range(named) \in SUBSET Services /\ IsFiniteSet(Range(named))
  <2> HIDE DEF named
  <2> QED BY <1>3, <1>4, FiniteRange
<1>7. Range(s.routes) \in SUBSET Services /\ IsFiniteSet(Range(s.routes))
  <2>1. s.routes \in [DOMAIN s.routes -> Services] /\ IsFiniteSet(DOMAIN s.routes)
    BY SpecFields, SpecMaps
  <2>2. QED
    BY <2>1, FiniteRange
<1>8. All \in SUBSET Services /\ IsFiniteSet(All)
  <2> HIDE DEF named
  <2>1. IsFiniteSet(DOMAIN s.sources \cup Range(s.routes))
    BY <1>7, SpecMaps, FS_Union
  <2>2. QED
    BY <1>6, <1>7, <2>1, SpecMaps, FS_Union
<1>9. NewServices(s, at) \in SUBSET All
  BY <1>5 DEF NewServices
<1> HIDE DEF All
<1>10. QED
  BY <1>8, <1>9, FS_Subset

(* What is materialized: one credential for each new service.              *)
LEMMA MaterializedType ==
    ASSUME NEW s, IsSpec(s), NEW at \in Orders(DOMAIN s.sources)
    PROVE  /\ Materialized(s, at) \in Seq(Credentials)
           /\ Range(Materialized(s, at)) = {Folded(s, svc, at) : svc \in NewServices(s, at)}
<1> DEFINE N == NewServices(s, at)
           q == Ascending(N)
           f == [i \in DOMAIN q |-> Folded(s, q[i], at)]
<1>1. Materialized(s, at) = f
  BY DEF Materialized
<1>2. N \in SUBSET Services /\ N \in SUBSET Nat /\ IsFiniteSet(N)
  BY NewServicesType, NamesAreOrdered
<1> HIDE DEF N
<1>3. Range(q) = N /\ DOMAIN q = 1 .. Cardinality(N)
  BY <1>2, AscendingSorts
<1>4. Cardinality(N) \in Nat
  BY <1>2, FS_CardinalityType
<1>5. \A i \in DOMAIN q : q[i] \in Services
  BY <1>2, <1>3 DEF Range
<1> HIDE DEF q
<1>6. f \in [1 .. Cardinality(N) -> Credentials]
  BY <1>3, <1>5, FoldedType
<1>7. f \in Seq(Credentials)
  <2> HIDE DEF f
  <2> QED BY <1>4, <1>6, FunctionIsSeq
<1>8. Range(f) = {Folded(s, svc, at) : svc \in N}
  BY <1>3 DEF Range
<1>9. QED
  BY <1>1, <1>7, <1>8 DEF N

LEMMA CredentialsKeepSpec ==
    ASSUME NEW s, IsSpec(s), NEW at \in Orders(DOMAIN s.sources)
    PROVE  LET t == WithCredentials(s, at)
           IN  /\ IsSpec(t)
               /\ t.list = s.list \o Materialized(s, at)
               /\ t.oauth = s.oauth /\ t.proxy = s.proxy
<1> DEFINE list == s.list \o Materialized(s, at)
<1>1. list \in Seq(Credentials)
  BY SpecFields, MaterializedType, ConcatProperties
<1> DEFINE t == WithCredentials(s, at)
<1>2. t = [s EXCEPT !.list = list]
  BY DEF WithCredentials
<1> HIDE DEF list, t
<1>3. IsSpec(t) /\ t.list = list /\ t.oauth = s.oauth /\ t.proxy = s.proxy
  BY <1>1, <1>2, ListAssigned
<1>4. QED
  BY <1>3 DEF list, t

LEMMA MovedType ==
    ASSUME NEW k \in Keys \cup {None}, NEW block \in Standalone
    PROVE  Moved(k, block) \in SUBSET Domains
<1>1. CASE RoutesOnly(k)
  <2>1. k \in Keys
    BY <1>1 DEF RoutesOnly
  <2>2. Range(k.inject) \in SUBSET Injects
    BY <2>1, FiniteSeqRange DEF Keys
  <2>3. QED
    BY <2>2 DEF Moved, DomainsOf, Injects
<1>2. CASE ~RoutesOnly(k)
  BY <1>2 DEF Moved
<1>3. QED
  BY <1>1, <1>2

LEMMA AttachedType ==
    ASSUME NEW c \in Credentials, NEW block \in Standalone
    PROVE  /\ Attached(c, block) \in Credentials
           /\ Attached(c, block).service = c.service
           /\ Attached(c, block).required = c.required
           /\ Attached(c, block).key = IF RoutesOnly(c.key) THEN None ELSE c.key
           /\ Attached(c, block).oauth \in OAuths
           /\ Attached(c, block).oauth.endpoint =
                 IF c.oauth = None THEN block.endpoint ELSE c.oauth.endpoint
           /\ Attached(c, block).oauth.hosts =
                 (IF c.oauth = None THEN {} ELSE c.oauth.hosts) \cup Moved(c.key, block)
<1> DEFINE key == IF RoutesOnly(c.key) THEN None ELSE c.key
           endpoint == IF c.oauth = None THEN block.endpoint ELSE c.oauth.endpoint
           hosts == (IF c.oauth = None THEN {} ELSE c.oauth.hosts) \cup Moved(c.key, block)
           oauth == [endpoint |-> endpoint, hosts |-> hosts]
           t == Attached(c, block)
<1>1. c.key \in Keys \cup {None} /\ c.oauth \in OAuths \cup {None} /\ block.endpoint \in Domains
  BY DEF Credentials, Standalone
<1>2. Moved(c.key, block) \in SUBSET Domains
  BY <1>1, MovedType
<1>3. key \in Keys \cup {None}
  BY <1>1
<1>4. endpoint \in Domains /\ hosts \in SUBSET Domains
  BY <1>1, <1>2 DEF OAuths
<1>5. t = [c EXCEPT !.key = key, !.oauth = oauth]
  BY DEF Attached
<1> HIDE DEF key, endpoint, hosts, t
<1>6. t \in Credentials /\ t.service = c.service /\ t.required = c.required
      /\ t.key = key /\ t.oauth = oauth
  BY <1>3, <1>4, <1>5 DEF Credentials, OAuths
<1>7. QED
  BY <1>4, <1>6 DEF key, endpoint, hosts, t, OAuths

LEMMA OAuthKeepsSpec ==
    ASSUME NEW s, IsSpec(s), ~NamelessBlock(s)
    PROVE  LET t == WithOAuth(s)
           IN  /\ IsSpec(t)
               /\ t.list = IF s.oauth = None THEN s.list
                           ELSE IF Matches(s) = {} THEN Append(s.list, Synthesized(s.oauth))
                           ELSE [s.list EXCEPT ![Min(Matches(s))] = Attached(@, s.oauth)]
               /\ t.proxy = s.proxy /\ t.oauth = s.oauth
<1>1. CASE s.oauth = None
  BY <1>1 DEF WithOAuth
<1>2. CASE s.oauth # None
  <2> DEFINE list == IF Matches(s) = {} THEN Append(s.list, Synthesized(s.oauth))
                     ELSE [s.list EXCEPT ![Min(Matches(s))] = Attached(@, s.oauth)]
             t == WithOAuth(s)
  <2>1. /\ s.list \in Seq(Credentials) /\ Len(s.list) \in Nat /\ DOMAIN s.list = 1 .. Len(s.list)
        /\ s.oauth \in Standalone /\ s.oauth.service \in Services /\ s.oauth.endpoint \in Domains
    BY <1>2, SpecFields, LenProperties DEF NamelessBlock, Standalone
  <2>2. list \in Seq(Credentials)
    <3>1. Synthesized(s.oauth) \in Credentials
      BY <2>1 DEF Synthesized, Credentials, OAuths
    <3>2. CASE Matches(s) = {}
      BY <2>1, <3>1, <3>2, AppendProperties
    <3>3. CASE Matches(s) # {}
      <4>1. Matches(s) \in SUBSET Nat /\ Matches(s) \subseteq DOMAIN s.list
        BY <2>1 DEF Matches
      <4>2. Min(Matches(s)) \in 1 .. Len(s.list)
        BY <2>1, <3>3, <4>1, MinIsLeast
      <4>3. s.list[Min(Matches(s))] \in Credentials
        BY <2>1, <4>2, ElementOfSeq
      <4>4. Attached(s.list[Min(Matches(s))], s.oauth) \in Credentials
        BY <2>1, <4>3, AttachedType
      <4>5. QED
        BY <2>1, <3>3, <4>2, <4>4, ExceptSeq
    <3>4. QED
      BY <3>2, <3>3
  <2>3. t = [s EXCEPT !.list = list]
    BY <1>2 DEF WithOAuth
  <2> HIDE DEF t, list
  <2>4. IsSpec(t) /\ t.list = list /\ t.oauth = s.oauth /\ t.proxy = s.proxy
    BY <2>2, <2>3, ListAssigned
  <2>5. QED
    BY <1>2, <2>4 DEF t, list
<1>3. QED
  BY <1>1, <1>2

LEMMA SentinelsType ==
    ASSUME NEW list \in Seq(Credentials)
    PROVE  Sentinels(list) \in SUBSET Envs /\ IsFiniteSet(Sentinels(list))
<1> DEFINE name == [i \in DOMAIN list |-> IF list[i].key = None THEN None ELSE list[i].key.name]
<1>1. DOMAIN list = 1 .. Len(list) /\ Len(list) \in Nat
  BY LenProperties
<1>2. IsFiniteSet(DOMAIN list)
  BY <1>1, FS_Interval
<1>3. \A i \in DOMAIN list : list[i] \in Credentials
  BY <1>1, ElementOfSeq
<1>4. name \in [DOMAIN list -> Envs \cup {None}]
  BY <1>3 DEF Credentials, Keys
<1>5. Sentinels(list) \subseteq Range(name) \ {None}
  BY <1>3 DEF Sentinels, Range
<1> HIDE DEF name
<1>6. Range(name) \in SUBSET (Envs \cup {None}) /\ IsFiniteSet(Range(name))
  BY <1>2, <1>4, FiniteRange
<1>7. Sentinels(list) \in SUBSET Range(name)
  BY <1>5
<1>8. QED
  BY <1>5, <1>6, <1>7, FS_Subset

LEMMA SentinelsKeepSpec ==
    ASSUME NEW s, IsSpec(s)
    PROVE  LET t == WithSentinels(s)
           IN  IsSpec(t) /\ t.list = s.list /\ Range(t.proxy) = Sentinels(s.list)
               /\ t.proxy = Ascending(Sentinels(s.list))
<1> DEFINE S == Sentinels(s.list)
           q == Ascending(S)
           t == WithSentinels(s)
<1>1. S \in SUBSET Envs /\ S \in SUBSET Nat /\ IsFiniteSet(S)
  BY SpecFields, SentinelsType, NamesAreOrdered
<1> HIDE DEF S
<1>2. q \in Seq(S) /\ Range(q) = S
  BY <1>1, AscendingSorts
<1>3. q \in Seq(Envs)
  BY <1>1, <1>2, SeqMonotonic
<1>4. t = [s EXCEPT !.proxy = q]
  BY DEF WithSentinels, S
<1> HIDE DEF q, t
<1>5. IsSpec(t) /\ t.proxy = q /\ t.list = s.list
  BY <1>3, <1>4, ProxyAssigned
<1>6. QED
  BY <1>2, <1>5 DEF S, q, t

-----------------------------------------------------------------------------
(* A load, from the decoded spec to the loaded one; at is the order the    *)
(* range over the sources has.                                             *)

Mapped(s)   == WithEgress(WithSecrets(s))
Places(s)   == Orders(DOMAIN Mapped(s).sources)
Fold(s, at) == WithCredentials(Mapped(s), at)
Join(s, at) == WithOAuth(Fold(s, at))
Load(s, at) == WithSentinels(Join(s, at))
Loadable(s) == ~SecretsClash(s) /\ ~EgressClashes(WithSecrets(s)) /\ ~NamelessBlock(s)

LEMMA MappedSpec ==
    ASSUME NEW s, IsSpec(s)
    PROVE  LET t == Mapped(s)
           IN  /\ IsSpec(t)
               /\ t.sources = Joined(s.sources, [svc \in SecretServices(s) |-> SecretSource(s, svc)])
               /\ t.routes = Joined(s.routes, s.egress)
               /\ t.list = s.list /\ t.proxy = s.proxy /\ t.oauth = s.oauth
<1> DEFINE u == WithSecrets(s)
           t == WithEgress(u)
<1>1. /\ IsSpec(u)
      /\ u.sources = Joined(s.sources, [svc \in SecretServices(s) |-> SecretSource(s, svc)])
      /\ u.list = s.list /\ u.routes = s.routes
      /\ u.egress = s.egress /\ u.proxy = s.proxy /\ u.oauth = s.oauth
  BY SecretsKeepSpec
<1> HIDE DEF u
<1>2. /\ IsSpec(t)
      /\ t.routes = Joined(u.routes, u.egress)
      /\ t.list = u.list /\ t.sources = u.sources /\ t.proxy = u.proxy /\ t.oauth = u.oauth
  BY <1>1, EgressKeepsSpec
<1> HIDE DEF t
<1>3. Mapped(s) = t
  BY DEF Mapped, t, u
<1>4. QED
  BY <1>1, <1>2, <1>3

LEMMA FoldSpec ==
    ASSUME NEW s, IsSpec(s), NEW at \in Places(s)
    PROVE  /\ IsSpec(Fold(s, at))
           /\ Fold(s, at).list = s.list \o Materialized(Mapped(s), at)
           /\ Fold(s, at).oauth = s.oauth /\ Fold(s, at).proxy = s.proxy
           /\ s.list \in Seq(Credentials)
           /\ Materialized(Mapped(s), at) \in Seq(Credentials)
           /\ Range(Fold(s, at).list) = Range(s.list)
                 \cup {Folded(Mapped(s), svc, at) : svc \in NewServices(Mapped(s), at)}
<1> DEFINE t == Mapped(s)
<1>1. IsSpec(t) /\ t.list = s.list /\ t.oauth = s.oauth /\ t.proxy = s.proxy
  BY MappedSpec
<1> HIDE DEF t
<1>2. at \in Orders(DOMAIN t.sources)
  BY DEF Places, t
<1> DEFINE u == WithCredentials(t, at)
<1>3. IsSpec(u) /\ u.list = t.list \o Materialized(t, at) /\ u.oauth = t.oauth /\ u.proxy = t.proxy
  BY <1>1, <1>2, CredentialsKeepSpec
<1> HIDE DEF u
<1>4. Fold(s, at) = u
  BY DEF Fold, t, u
<1>5. /\ Materialized(t, at) \in Seq(Credentials)
      /\ Range(Materialized(t, at)) = {Folded(t, svc, at) : svc \in NewServices(t, at)}
  BY <1>1, <1>2, MaterializedType
<1>6. s.list \in Seq(Credentials)
  BY SpecFields
<1>7. Range(s.list \o Materialized(t, at)) = Range(s.list) \cup Range(Materialized(t, at))
  BY <1>5, <1>6, RangeConcatenation
<1>8. QED
  BY <1>1, <1>3, <1>4, <1>5, <1>6, <1>7 DEF t

LEMMA JoinSpec ==
    ASSUME NEW s, IsSpec(s), Loadable(s), NEW at \in Places(s)
    PROVE  /\ IsSpec(Join(s, at))
           /\ ~NamelessBlock(Fold(s, at))
           /\ Join(s, at).list =
                 IF s.oauth = None THEN Fold(s, at).list
                 ELSE IF Matches(Fold(s, at)) = {}
                 THEN Append(Fold(s, at).list, Synthesized(s.oauth))
                 ELSE [Fold(s, at).list EXCEPT ![Min(Matches(Fold(s, at)))] = Attached(@, s.oauth)]
<1> DEFINE t == Fold(s, at)
<1>1. IsSpec(t) /\ t.oauth = s.oauth
  BY FoldSpec
<1>2. ~NamelessBlock(t)
  BY <1>1 DEF Loadable, NamelessBlock
<1> HIDE DEF t
<1> DEFINE u == WithOAuth(t)
<1>3. /\ IsSpec(u)
      /\ u.list = IF t.oauth = None THEN t.list
                  ELSE IF Matches(t) = {} THEN Append(t.list, Synthesized(t.oauth))
                  ELSE [t.list EXCEPT ![Min(Matches(t))] = Attached(@, t.oauth)]
  BY <1>1, <1>2, OAuthKeepsSpec
<1> HIDE DEF u
<1>4. Join(s, at) = u
  BY DEF Join, t, u
<1>5. QED
  BY <1>1, <1>2, <1>3, <1>4, Zenon DEF t

LEMMA LoadSpec ==
    ASSUME NEW s, IsSpec(s), Loadable(s), NEW at \in Places(s)
    PROVE  /\ IsSpec(Load(s, at))
           /\ Load(s, at).list = Join(s, at).list
           /\ Range(Load(s, at).proxy) = Sentinels(Join(s, at).list)
           /\ Load(s, at).proxy = Ascending(Sentinels(Join(s, at).list))
BY JoinSpec, SentinelsKeepSpec DEF Load

(* What the OAuth pass leaves of each credential, and what it may add.     *)
LEMMA JoinPlaces ==
    ASSUME NEW s, IsSpec(s), Loadable(s), NEW at \in Places(s)
    PROVE  LET old == Fold(s, at).list
               new == Join(s, at).list
           IN  /\ old \in Seq(Credentials) /\ new \in Seq(Credentials)
               /\ DOMAIN old \subseteq DOMAIN new
               /\ s.oauth # None => s.oauth \in Standalone
               /\ \A i \in DOMAIN old :
                     \/ new[i] = old[i]
                     \/ /\ s.oauth # None /\ old[i].service = s.oauth.service
                        /\ new[i] = Attached(old[i], s.oauth)
               /\ \A i \in DOMAIN new \ DOMAIN old :
                     /\ s.oauth # None /\ new[i].service = s.oauth.service
                     /\ \A j \in DOMAIN old : old[j].service # s.oauth.service
<1> DEFINE t == Fold(s, at)
           old == t.list
           new == Join(s, at).list
<1>1. /\ IsSpec(t) /\ t.oauth = s.oauth
      /\ old \in Seq(Credentials) /\ new \in Seq(Credentials)
      /\ s.oauth # None => s.oauth \in Standalone
  BY FoldSpec, JoinSpec, SpecFields
<1>2. new = IF s.oauth = None THEN old
            ELSE IF Matches(t) = {} THEN Append(old, Synthesized(s.oauth))
            ELSE [old EXCEPT ![Min(Matches(t))] = Attached(@, s.oauth)]
  BY JoinSpec
<1>3. Matches(t) = {i \in DOMAIN old : old[i].service = s.oauth.service}
  BY <1>1 DEF Matches
<1>4. DOMAIN old = 1 .. Len(old) /\ Len(old) \in Nat
  BY <1>1, LenProperties
<1> DEFINE M == Matches(t)
<1> HIDE DEF old, new
<1>5. CASE s.oauth = None
  BY <1>1, <1>2, <1>5 DEF old, new
<1>6. CASE s.oauth # None /\ M = {}
  <2>1. new = Append(old, Synthesized(s.oauth))
    BY <1>2, <1>6
  <2>2. DOMAIN new = 1 .. Len(old) + 1 /\ (\A i \in DOMAIN old : new[i] = old[i])
        /\ new[Len(old) + 1] = Synthesized(s.oauth)
    BY <2>1, <1>1, <1>4
  <2>3. Synthesized(s.oauth).service = s.oauth.service
    BY DEF Synthesized
  <2>4. \A j \in DOMAIN old : old[j].service # s.oauth.service
    BY <1>3, <1>6
  <2>5. \A i \in DOMAIN new \ DOMAIN old : i = Len(old) + 1
    BY <2>2, <1>4
  <2>6. QED
    BY <1>1, <1>4, <1>6, <2>2, <2>3, <2>4, <2>5 DEF old, new
<1>7. CASE s.oauth # None /\ M # {}
  <2> DEFINE m == Min(M)
  <2>1. m \in DOMAIN old /\ old[m].service = s.oauth.service
    <3>1. M \in SUBSET Nat /\ M \subseteq DOMAIN old
      BY <1>3, <1>4
    <3>2. m \in M
      <4> HIDE DEF M
      <4> QED BY <1>7, <3>1, MinIsLeast
    <3>3. QED
      BY <3>2, <1>3
  <2>2. new = [old EXCEPT ![m] = Attached(old[m], s.oauth)]
    BY <1>2, <1>7
  <2> HIDE DEF m, M
  <2>3. DOMAIN new = DOMAIN old /\ (\A i \in DOMAIN old \ {m} : new[i] = old[i])
        /\ new[m] = Attached(old[m], s.oauth)
    BY <2>1, <2>2, <1>1
  <2>4. QED
    BY <1>1, <1>7, <2>1, <2>3 DEF old, new
<1>8. QED
  BY <1>5, <1>6, <1>7

LEMMA CredentialFields ==
    ASSUME NEW c \in Credentials
    PROVE  /\ c.service \in Services /\ c.required \in BOOLEAN
           /\ c.key \in Keys \cup {None} /\ c.oauth \in OAuths \cup {None}
BY DEF Credentials

-----------------------------------------------------------------------------
(* Routes.                                                                 *)

(* A map joined with another one, and a route of either.                   *)
LEMMA MappedRoutes ==
    ASSUME NEW s, IsSpec(s), Loadable(s), NEW d, NEW svc,
           \/ d \in DOMAIN s.routes /\ s.routes[d] = svc
           \/ d \in DOMAIN s.egress /\ s.egress[d] = svc
    PROVE  d \in DOMAIN Mapped(s).routes /\ Mapped(s).routes[d] = svc
<1>1. WithSecrets(s).egress = s.egress /\ WithSecrets(s).routes = s.routes
  BY SecretsKeepSpec
<1>2. DOMAIN s.egress \cap DOMAIN s.routes = {}
  BY <1>1 DEF Loadable, EgressClashes
<1>3. Mapped(s).routes = Joined(s.routes, s.egress)
  BY MappedSpec
<1>4. QED
  BY <1>2, <1>3 DEF Joined

LEMMA FoldedRoutes ==
    ASSUME NEW s, IsSpec(s), NEW at, NEW d \in DOMAIN s.routes
    PROVE  d \in RoutingHosts(Folded(s, s.routes[d], at))
<1> DEFINE svc == s.routes[d]
           c == Folded(s, svc, at)
           inject == Injected(s, svc)
<1>1. svc \in Services /\ d \in Domains /\ d # None
  <2>1. s.routes \in [DOMAIN s.routes -> Services] /\ DOMAIN s.routes \subseteq Domains
    BY SpecFields, SpecMaps
  <2>2. QED
    BY <2>1, NamesAreOrdered, NoneIsNothing
<1>2. d \in {inj.domain : inj \in Range(inject)} /\ inject # <<>>
  <2>1. d \in {e \in DOMAIN s.routes : s.routes[e] = svc}
    OBVIOUS
  <2>2. QED
    BY <2>1, InjectedType
<1>3. c.key = FoldedKey(s, svc, at) /\ c.key \in Keys \cup {None}
  BY <1>1, FoldedType
<1>4. c.key.inject = inject /\ c.key # None
  <2>1. FoldedKey(s, svc, at) = [name |-> NameOf(s, svc, at), managed |-> Managed(s, svc, at) # {},
                                 inject |-> inject]
    BY <1>2 DEF FoldedKey
  <2>2. NameOf(s, svc, at) \in Envs \cup {None} /\ inject \in Seq(Injects)
    BY NameOfType, InjectedType
  <2>3. FoldedKey(s, svc, at) \in Keys
    BY <2>1, <2>2 DEF Keys
  <2>4. QED
    BY <1>3, <2>1, <2>3, NoneIsNothing
<1>5. d \in DomainsOf(c.key)
  BY <1>1, <1>2, <1>4 DEF DomainsOf
<1>6. QED
  BY <1>4, <1>5 DEF RoutingHosts

LEMMA AttachedRoutes ==
    ASSUME NEW c \in Credentials, NEW block \in Standalone,
           c.oauth # None => c.oauth.endpoint = block.endpoint
    PROVE  RoutingHosts(c) \subseteq RoutingHosts(Attached(c, block))
<1> DEFINE a == Attached(c, block)
<1>1. /\ a \in Credentials
      /\ a.key = IF RoutesOnly(c.key) THEN None ELSE c.key
      /\ a.oauth \in OAuths
      /\ a.oauth.endpoint = IF c.oauth = None THEN block.endpoint ELSE c.oauth.endpoint
      /\ a.oauth.hosts = (IF c.oauth = None THEN {} ELSE c.oauth.hosts) \cup Moved(c.key, block)
  BY AttachedType
<1> HIDE DEF a
<1>2. a.oauth # None
  BY <1>1, NoneIsNothing
<1>3. RoutingHosts(a) = (IF a.key = None THEN {} ELSE DomainsOf(a.key))
                            \cup ({a.oauth.endpoint} \cup a.oauth.hosts)
  BY <1>2 DEF RoutingHosts
<1>4. a.oauth.endpoint = block.endpoint
  BY <1>1
<1>5. ASSUME c.oauth # None
      PROVE  {c.oauth.endpoint} \cup c.oauth.hosts \subseteq RoutingHosts(a)
  BY <1>1, <1>3, <1>5
<1>6. ASSUME c.key # None
      PROVE  DomainsOf(c.key) \subseteq RoutingHosts(a)
  <2>1. CASE RoutesOnly(c.key)
    BY <1>1, <1>3, <1>4, <2>1 DEF Moved
  <2>2. CASE ~RoutesOnly(c.key)
    BY <1>1, <1>3, <1>6, <2>2
  <2>3. QED
    BY <2>1, <2>2
<1>7. QED
  BY <1>5, <1>6 DEF RoutingHosts, a

(* No pass loses a host.                                                   *)
LEMMA LoadKeepsRoutes ==
    ASSUME NEW s, IsSpec(s), Loadable(s), NEW at \in Places(s),
           NEW svc \in Services, ~TwoEndpoints(s, svc)
    PROVE  DeclaredHosts(s, svc) \subseteq HostsOf(svc, Load(s, at).list)
<1> DEFINE old == Fold(s, at).list
           new == Join(s, at).list
<1>1. /\ old \in Seq(Credentials) /\ new \in Seq(Credentials)
      /\ DOMAIN old \subseteq DOMAIN new
      /\ s.oauth # None => s.oauth \in Standalone
      /\ \A i \in DOMAIN old :
            \/ new[i] = old[i]
            \/ /\ s.oauth # None /\ old[i].service = s.oauth.service
               /\ new[i] = Attached(old[i], s.oauth)
  BY JoinPlaces
<1>2. Load(s, at).list = new
  BY LoadSpec
<1>3. Range(old) = Range(s.list)
                 \cup {Folded(Mapped(s), v, at) : v \in NewServices(Mapped(s), at)}
  BY FoldSpec
<1>4. IsSpec(Mapped(s)) /\ Mapped(s).list = s.list /\ at \in Orders(DOMAIN Mapped(s).sources)
  BY MappedSpec DEF Places
<1>5. NewServices(Mapped(s), at) \in SUBSET Services
  BY <1>4, NewServicesType
<1> HIDE DEF old, new
<1>6. ASSUME NEW i \in DOMAIN old, old[i].service = svc
      PROVE  RoutingHosts(old[i]) \subseteq HostsOf(svc, new)
  <2>1. old[i] \in Credentials /\ old[i] \in Range(old) /\ new[i] \in Range(new)
    BY <1>1 DEF Range
  <2>2. CASE new[i] = old[i]
    BY <1>6, <2>1, <2>2 DEF HostsOf
  <2>3. CASE s.oauth # None /\ old[i].service = s.oauth.service /\ new[i] = Attached(old[i], s.oauth)
    <3>1. old[i].oauth # None => old[i].oauth.endpoint = s.oauth.endpoint
      <4>1. CASE old[i] \in Range(s.list)
        BY <1>6, <2>3, <4>1 DEF TwoEndpoints
      <4>2. CASE old[i] \notin Range(s.list)
        <5>1. PICK v \in NewServices(Mapped(s), at) : old[i] = Folded(Mapped(s), v, at)
          BY <1>3, <2>1, <4>2
        <5>2. QED
          BY <1>4, <1>5, <5>1, FoldedType
      <4>3. QED
        BY <4>1, <4>2
    <3>2. RoutingHosts(old[i]) \subseteq RoutingHosts(new[i])
      BY <1>1, <2>1, <2>3, <3>1, AttachedRoutes
    <3>3. new[i].service = svc
      BY <1>1, <1>6, <2>1, <2>3, AttachedType
    <3>4. QED
      BY <2>1, <3>2, <3>3 DEF HostsOf
  <2>4. QED
    BY <1>1, <2>2, <2>3
<1>7. CASE svc \in Listed(s)
  <2>1. ASSUME NEW c \in Range(s.list), c.service = svc
        PROVE  RoutingHosts(c) \subseteq HostsOf(svc, new)
    <3>1. PICK i \in DOMAIN old : old[i] = c
      BY <1>3, <2>1 DEF Range
    <3>2. QED
      BY <1>6, <2>1, <3>1
  <2>2. HostsOf(svc, s.list) \subseteq HostsOf(svc, new)
    BY <2>1 DEF HostsOf
  <2>3. QED
    BY <1>2, <1>7, <2>2 DEF DeclaredHosts
<1>8. CASE svc \notin Listed(s)
  <2>1. ASSUME NEW d, \/ d \in DOMAIN s.routes /\ s.routes[d] = svc
                      \/ d \in DOMAIN s.egress /\ s.egress[d] = svc
        PROVE  d \in HostsOf(svc, new)
    <3>1. d \in DOMAIN Mapped(s).routes /\ Mapped(s).routes[d] = svc
      BY <2>1, MappedRoutes
    <3>2. svc \in NewServices(Mapped(s), at)
      BY <1>4, <1>8, <3>1 DEF NewServices, Listed, Range
    <3>3. Folded(Mapped(s), svc, at) \in Range(old)
      BY <1>3, <3>2
    <3>4. PICK i \in DOMAIN old : old[i] = Folded(Mapped(s), svc, at)
      BY <3>3 DEF Range
    <3>5. d \in RoutingHosts(old[i]) /\ old[i].service = svc
      BY <1>4, <3>1, <3>4, FoldedRoutes, FoldedType
    <3>6. QED
      BY <1>6, <3>5
  <2>2. QED
    BY <1>2, <1>8, <2>1 DEF DeclaredHosts
<1>9. QED
  BY <1>7, <1>8

-----------------------------------------------------------------------------
(* What is listed stays.                                                   *)

LEMMA AttachedKeepsKey ==
    ASSUME NEW c \in Credentials, NEW block \in Standalone
    PROVE  /\ Attached(c, block).service = c.service
           /\ Attached(c, block).required = c.required
           /\ \/ Attached(c, block).key = c.key
              \/ Attached(c, block).key = None /\ Attached(c, block).oauth # None
           /\ c.key # None /\ ~RoutesOnly(c.key) => Attached(c, block).key = c.key
BY AttachedType, NoneIsNothing

LEMMA LoadKeepsListed ==
    ASSUME NEW s, IsSpec(s), Loadable(s), NEW at \in Places(s), NEW new, new = Load(s, at).list
    PROVE  /\ Len(new) >= Len(s.list)
           /\ \A i \in DOMAIN s.list :
                 /\ new[i].service = s.list[i].service
                 /\ new[i].required = s.list[i].required
                 /\ new[i].key = s.list[i].key \/ (new[i].key = None /\ new[i].oauth # None)
                 /\ s.list[i].key # None /\ ~RoutesOnly(s.list[i].key) => new[i].key = s.list[i].key
           /\ \A i \in DOMAIN new : i > Len(s.list) => new[i].service \notin Listed(s)
<1> DEFINE old == Fold(s, at).list
           more == Materialized(Mapped(s), at)
<1>1. /\ old = s.list \o more
      /\ s.list \in Seq(Credentials) /\ more \in Seq(Credentials)
      /\ at \in Orders(DOMAIN Mapped(s).sources) /\ IsSpec(Mapped(s)) /\ Mapped(s).list = s.list
  BY FoldSpec, MappedSpec DEF Places
<1>2. /\ old \in Seq(Credentials) /\ new \in Seq(Credentials)
      /\ DOMAIN old \subseteq DOMAIN new
      /\ s.oauth # None => s.oauth \in Standalone
      /\ \A i \in DOMAIN old :
            \/ new[i] = old[i]
            \/ /\ s.oauth # None /\ old[i].service = s.oauth.service
               /\ new[i] = Attached(old[i], s.oauth)
      /\ \A i \in DOMAIN new \ DOMAIN old :
            /\ s.oauth # None /\ new[i].service = s.oauth.service
            /\ \A j \in DOMAIN old : old[j].service # s.oauth.service
  <2>1. new = Join(s, at).list
    BY LoadSpec
  <2>2. QED
    BY <2>1, JoinPlaces
<1>3. \A i \in DOMAIN more : more[i].service \notin Listed(s)
  <2>1. Range(more) = {Folded(Mapped(s), svc, at) : svc \in NewServices(Mapped(s), at)}
    BY <1>1, MaterializedType
  <2>2. NewServices(Mapped(s), at) \in SUBSET Services
    BY <1>1, NewServicesType
  <2>3. NewServices(Mapped(s), at) \cap Listed(s) = {}
    BY <1>1 DEF NewServices, Listed
  <2>4. \A svc \in NewServices(Mapped(s), at) :
            Folded(Mapped(s), svc, at).service = svc /\ svc \notin Listed(s)
    BY <1>1, <2>2, <2>3, FoldedType
  <2> HIDE DEF more
  <2>5. QED
    BY <2>1, <2>4 DEF Range
<1> HIDE DEF old, more
<1>4. /\ Len(s.list) \in Nat /\ DOMAIN s.list = 1 .. Len(s.list)
      /\ Len(more) \in Nat /\ DOMAIN more = 1 .. Len(more)
      /\ Len(new) \in Nat /\ DOMAIN new = 1 .. Len(new)
  BY <1>1, <1>2, LenProperties
<1>5. /\ DOMAIN old = 1 .. Len(s.list) + Len(more)
      /\ \A i \in DOMAIN s.list : old[i] = s.list[i]
      /\ \A i \in DOMAIN old : i > Len(s.list) => old[i] = more[i - Len(s.list)]
  <2>1. Len(old) = Len(s.list) + Len(more) /\ DOMAIN old = 1 .. Len(old)
    BY <1>1, <1>2, ConcatProperties, LenProperties
  <2>2. \A i \in 1 .. Len(s.list) + Len(more) :
            old[i] = IF i <= Len(s.list) THEN s.list[i] ELSE more[i - Len(s.list)]
    BY <1>1, ConcatProperties
  <2>3. QED
    BY <1>4, <2>1, <2>2
<1>6. \A i \in DOMAIN old : old[i] \in Credentials
  BY <1>2, <1>4, <1>5, ElementOfSeq, LenProperties
<1>7. Len(new) >= Len(s.list)
  <2>1. CASE Len(s.list) = 0
    BY <1>4, <2>1
  <2>2. CASE Len(s.list) # 0
    <3>1. Len(s.list) \in DOMAIN new
      <4>1. Len(s.list) \in 1 .. Len(s.list) + Len(more)
        BY <1>4, <2>2
      <4>2. QED
        BY <1>2, <1>5, <4>1
    <3>2. QED
      BY <1>4, <3>1
  <2>3. QED
    BY <2>1, <2>2
<1>8. ASSUME NEW i \in DOMAIN s.list
      PROVE  /\ new[i].service = s.list[i].service
             /\ new[i].required = s.list[i].required
             /\ new[i].key = s.list[i].key \/ (new[i].key = None /\ new[i].oauth # None)
             /\ s.list[i].key # None /\ ~RoutesOnly(s.list[i].key) => new[i].key = s.list[i].key
  <2>1. i \in DOMAIN old /\ old[i] = s.list[i] /\ s.list[i] \in Credentials
    BY <1>4, <1>5, <1>6
  <2>2. CASE new[i] = old[i]
    BY <2>1, <2>2
  <2>3. CASE s.oauth \in Standalone /\ new[i] = Attached(old[i], s.oauth)
    <3>1. new[i] = Attached(s.list[i], s.oauth)
      BY <2>1, <2>3
    <3>2. QED
      BY <2>1, <2>3, <3>1, AttachedKeepsKey
  <2>4. QED
    BY <1>2, <2>1, <2>2, <2>3
<1>9. ASSUME NEW i \in DOMAIN new, i > Len(s.list)
      PROVE  new[i].service \notin Listed(s)
  <2>1. CASE i \in DOMAIN old
    <3>1. old[i].service \notin Listed(s)
      <4>1. old[i] = more[i - Len(s.list)] /\ i - Len(s.list) \in DOMAIN more
        BY <1>4, <1>5, <1>9, <2>1
      <4>2. QED
        BY <1>3, <4>1
    <3>2. new[i].service = old[i].service
      <4>1. CASE new[i] = old[i]
        BY <4>1
      <4>2. CASE s.oauth \in Standalone /\ new[i] = Attached(old[i], s.oauth)
        BY <1>6, <2>1, <4>2, AttachedKeepsKey
      <4>3. QED
        BY <1>2, <2>1, <4>1, <4>2
    <3>3. QED
      BY <3>1, <3>2
  <2>2. CASE i \notin DOMAIN old
    <3>1. new[i].service = s.oauth.service /\ \A j \in DOMAIN old : old[j].service # s.oauth.service
      BY <1>2, <2>2
    <3>2. ASSUME NEW j \in DOMAIN s.list
          PROVE  s.list[j].service # new[i].service
      BY <1>4, <1>5, <3>1
    <3>3. QED
      BY <3>2 DEF Listed, Range
  <2>3. QED
    BY <2>1, <2>2
<1>10. QED
  BY <1>7, <1>8, <1>9

-----------------------------------------------------------------------------
(* Whose a variable is.                                                    *)

(* The secrets pass makes sources of the secrets and of nothing else.      *)
LEMMA HoldersAreSources ==
    ASSUME NEW s, IsSpec(s), ~SecretsClash(s), NEW e
    PROVE  Holders(Mapped(s), e) = SourcesOf(s, e)
<1> DEFINE src == Mapped(s).sources
<1>1. /\ DOMAIN src = DOMAIN s.sources \cup SecretServices(s)
      /\ \A svc \in DOMAIN s.sources : src[svc] = s.sources[svc]
      /\ \A svc \in SecretServices(s) \ DOMAIN s.sources : src[svc] = SecretSource(s, svc)
  <2> DEFINE g == [svc \in SecretServices(s) |-> SecretSource(s, svc)]
  <2>1. src = Joined(s.sources, g)
    BY MappedSpec
  <2>2. DOMAIN g = SecretServices(s) /\ \A svc \in SecretServices(s) : g[svc] = SecretSource(s, svc)
    OBVIOUS
  <2> HIDE DEF src, g
  <2>3. QED
    BY <2>1, <2>2 DEF Joined
<1>2. SecretServices(s) \cap DOMAIN s.sources = {}
  BY DEF SecretsClash
<1>3. Holders(Mapped(s), e) = {svc \in DOMAIN src : e \in Range(src[svc].env)}
  BY DEF Holders
<1> HIDE DEF src
<1>4. ASSUME NEW svc \in SecretServices(s)
      PROVE  e \in Range(SecretSource(s, svc).env) <=> e \in Range(s.secrets) /\ ServiceKey[e] = svc
  <2> DEFINE x == CHOOSE x \in Range(s.secrets) : ServiceKey[x] = svc
  <2>1. SecretSource(s, svc).env = <<x>>
    BY DEF SecretSource
  <2>2. x \in Range(s.secrets) /\ ServiceKey[x] = svc
    BY DEF SecretServices
  <2> HIDE DEF x
  <2>3. Range(<<x>>) = {x}
    BY DEF Range
  <2>4. ASSUME e \in Range(s.secrets), ServiceKey[e] = svc
        PROVE  e = x
    <3>1. PICK i \in DOMAIN s.secrets : s.secrets[i] = e
      BY <2>4 DEF Range
    <3>2. PICK j \in DOMAIN s.secrets : s.secrets[j] = x
      BY <2>2 DEF Range
    <3>3. i = j
      BY <2>2, <2>4, <3>1, <3>2 DEF SecretsClash
    <3>4. QED
      BY <3>1, <3>2, <3>3
  <2>5. QED
    BY <2>1, <2>2, <2>3, <2>4
<1>5. ASSUME NEW svc
      PROVE  svc \in Holders(Mapped(s), e) <=> svc \in SourcesOf(s, e)
  <2>1. CASE svc \in DOMAIN s.sources
    <3>1. svc \in Holders(Mapped(s), e) <=> e \in Range(s.sources[svc].env)
      BY <1>1, <1>3, <2>1
    <3>2. e \in Range(s.secrets) => ServiceKey[e] \in SecretServices(s)
      BY DEF SecretServices
    <3>3. QED
      BY <1>2, <2>1, <3>1, <3>2 DEF SourcesOf
  <2>2. CASE svc \notin DOMAIN s.sources
    <3>1. svc \in Holders(Mapped(s), e)
              <=> svc \in SecretServices(s) /\ e \in Range(SecretSource(s, svc).env)
      BY <1>1, <1>3, <2>2
    <3>2. svc \in SourcesOf(s, e) <=> e \in Range(s.secrets) /\ svc = ServiceKey[e]
      BY <2>2 DEF SourcesOf
    <3>3. e \in Range(s.secrets) => ServiceKey[e] \in SecretServices(s)
      BY DEF SecretServices
    <3>4. QED
      BY <1>4, <3>1, <3>2, <3>3
  <2>3. QED
    BY <2>1, <2>2
<1>6. QED
  BY <1>5

(* A variable of one source at most is its source's in every order.        *)
LEMMA OwnerIsServiceOf ==
    ASSUME NEW s, IsSpec(s), ~SecretsClash(s), Unambiguous(s), NEW at \in Places(s), NEW e \in Envs
    PROVE  ServiceOf(Mapped(s), e, at) = OwnerIn(s, e)
<1>1. Holders(Mapped(s), e) = SourcesOf(s, e)
  BY HoldersAreSources
<1>2. IsSpec(Mapped(s)) /\ at \in Orders(DOMAIN Mapped(s).sources)
  BY MappedSpec DEF Places
<1>3. SourcesOf(s, e) # {} => ServiceOf(Mapped(s), e, at) \in SourcesOf(s, e)
  BY <1>1, <1>2, ServiceOfType
<1>4. SourcesOf(s, e) # {} => OwnerIn(s, e) \in SourcesOf(s, e)
  BY DEF OwnerIn
<1>5. \A a, b \in SourcesOf(s, e) : a = b
  BY DEF Unambiguous
<1>6. SourcesOf(s, e) = {} => ServiceOf(Mapped(s), e, at) = OwnerIn(s, e)
  BY <1>1 DEF ServiceOf, OwnerIn
<1>7. QED
  BY <1>3, <1>4, <1>5, <1>6

(* A managed variable's service gets a key that is more than a route.      *)
LEMMA ManagedKey ==
    ASSUME NEW s, IsSpec(s), NEW svc \in Services, NEW at, Managed(s, svc, at) # {}
    PROVE  LET k == Folded(s, svc, at).key
           IN  k \in Keys /\ k # None /\ k.managed /\ k.name # None /\ ~RoutesOnly(k)
<1> DEFINE k == Folded(s, svc, at).key
<1>1. NameOf(s, svc, at) # None
  BY NameOfType, NamesAreOrdered, NoneIsNothing
<1>2. k = FoldedKey(s, svc, at) /\ k \in Keys \cup {None}
  BY FoldedType
<1>3. FoldedKey(s, svc, at) = [name |-> NameOf(s, svc, at), managed |-> TRUE, inject |-> Injected(s, svc)]
  BY <1>1 DEF FoldedKey
<1>4. FoldedKey(s, svc, at) \in Keys
  BY <1>3, NameOfType, InjectedType DEF Keys
<1> HIDE DEF k
<1>5. k \in Keys /\ k # None
  BY <1>2, <1>4, NoneIsNothing
<1>6. k.managed /\ k.name # None
  BY <1>1, <1>2, <1>3
<1>7. QED
  BY <1>5, <1>6 DEF RoutesOnly, k

LEMMA LoadKeepsSentinels ==
    ASSUME NEW s, IsSpec(s), Loadable(s), Unambiguous(s), NEW at \in Places(s), NEW e \in Range(s.proxy)
    PROVE  \/ OwnerIn(s, e) \in Listed(s)
           \/ \E c \in Range(Load(s, at).list) :
                 /\ c.service = OwnerIn(s, e)
                 /\ c.key # None /\ c.key.managed
                 /\ c.key.name \in Range(Load(s, at).proxy)
<1> DEFINE m == Mapped(s)
           svc == OwnerIn(s, e)
           old == Fold(s, at).list
           new == Join(s, at).list
<1>1. IsSpec(m) /\ m.proxy = s.proxy /\ m.list = s.list /\ at \in Orders(DOMAIN m.sources)
  BY MappedSpec DEF Places
<1>2. e \in Envs /\ \E i \in DOMAIN s.proxy : s.proxy[i] = e
  <2>1. Range(s.proxy) \in SUBSET Envs
    BY SpecFields, FiniteSeqRange
  <2>2. QED
    BY <2>1 DEF Range
<1>3. svc = ServiceOf(m, e, at) /\ svc \in Services
  BY <1>1, <1>2, OwnerIsServiceOf, ServiceOfType DEF Loadable
<1>4. Managed(m, svc, at) # {}
  BY <1>1, <1>2, <1>3 DEF Managed
<1> HIDE DEF svc
<1>5. ASSUME svc \notin Listed(s)
      PROVE  \E c \in Range(new) : /\ c.service = svc
                                   /\ c.key # None /\ c.key.managed
                                   /\ c.key.name \in Sentinels(new)
  <2> DEFINE c0 == Folded(m, svc, at)
  <2>1. svc \in NewServices(m, at)
    <3>1. svc \notin Listed(m)
      BY <1>1, <1>5 DEF Listed
    <3>2. QED
      BY <1>1, <1>3, <3>1 DEF NewServices
  <2>2. c0 \in Range(old)
    BY <2>1, FoldSpec
  <2>3. PICK i \in DOMAIN old : old[i] = c0
    BY <2>2 DEF Range
  <2>4. c0 \in Credentials /\ c0.service = svc /\ c0.key \in Keys /\ c0.key # None
        /\ c0.key.managed /\ c0.key.name # None /\ ~RoutesOnly(c0.key)
    BY <1>1, <1>3, <1>4, FoldedType, ManagedKey
  <2> HIDE DEF c0, old, new, m
  <2>5. /\ i \in DOMAIN new
        /\ s.oauth # None => s.oauth \in Standalone
        /\ new[i] = c0 \/ (s.oauth # None /\ new[i] = Attached(c0, s.oauth))
    BY <2>3, JoinPlaces DEF old, new
  <2>6. new[i].service = svc /\ new[i].key = c0.key
    BY <2>4, <2>5, AttachedKeepsKey
  <2>7. new[i] \in Range(new)
    BY <2>5 DEF Range
  <2>8. new[i].key.name \in Sentinels(new)
    BY <2>4, <2>6, <2>7 DEF Sentinels
  <2>9. QED
    BY <2>4, <2>6, <2>7, <2>8
<1>6. Load(s, at).list = new /\ Range(Load(s, at).proxy) = Sentinels(new)
  BY LoadSpec
<1>7. QED
  BY <1>5, <1>6 DEF svc

-----------------------------------------------------------------------------
(* Loads that agree.                                                       *)

(* What the range over the sources decides, it decides through ServiceOf.  *)
LEMMA MaterializedAgrees ==
    ASSUME NEW s, IsSpec(s), NEW at1, NEW at2,
           \A e \in Envs : ServiceOf(s, e, at1) = ServiceOf(s, e, at2)
    PROVE  Materialized(s, at1) = Materialized(s, at2)
<1>1. Range(s.proxy) \in SUBSET Envs /\ \A i \in DOMAIN s.proxy : s.proxy[i] \in Envs
  <2>1. Range(s.proxy) \in SUBSET Envs
    BY SpecFields, FiniteSeqRange
  <2>2. QED
    BY <2>1 DEF Range
<1>2. ASSUME NEW svc
      PROVE  Managed(s, svc, at1) = Managed(s, svc, at2)
  BY <1>1 DEF Managed
<1>3. ASSUME NEW svc
      PROVE  NameOf(s, svc, at1) = NameOf(s, svc, at2)
  BY <1>2 DEF NameOf
<1>4. ASSUME NEW svc
      PROVE  Folded(s, svc, at1) = Folded(s, svc, at2)
  <2>1. NameOf(s, svc, at1) = NameOf(s, svc, at2) /\ Managed(s, svc, at1) = Managed(s, svc, at2)
    BY <1>2, <1>3
  <2>2. FoldedKey(s, svc, at1) = FoldedKey(s, svc, at2)
    BY <2>1 DEF FoldedKey
  <2>3. QED
    BY <2>2 DEF Folded
<1>5. {ServiceOf(s, e, at1) : e \in Range(s.proxy)} = {ServiceOf(s, e, at2) : e \in Range(s.proxy)}
  BY <1>1
<1>6. NewServices(s, at1) = NewServices(s, at2)
  BY <1>5, Zenon DEF NewServices
<1>7. QED
  BY <1>4, <1>6 DEF Materialized

LEMMA LoadIsDeterministic ==
    ASSUME NEW s, IsSpec(s), ~SecretsClash(s), Unambiguous(s), NEW at1 \in Places(s), NEW at2 \in Places(s)
    PROVE  Load(s, at1) = Load(s, at2)
<1>1. IsSpec(Mapped(s))
  BY MappedSpec
<1>2. \A e \in Envs : ServiceOf(Mapped(s), e, at1) = ServiceOf(Mapped(s), e, at2)
  BY OwnerIsServiceOf
<1>3. Materialized(Mapped(s), at1) = Materialized(Mapped(s), at2)
  BY <1>1, <1>2, MaterializedAgrees
<1>4. QED
  BY <1>3, Zenon DEF Load, Join, Fold, WithCredentials

ArtifactOf(s) == [list |-> s.list, proxy |-> s.proxy]

LEMMA MarshalledSpec ==
    ASSUME NEW a \in Artifacts
    PROVE  /\ IsSpec(Marshalled(a))
           /\ Loadable(Marshalled(a))
<1> DEFINE m == Marshalled(a)
<1>1. DOMAIN EmptyMap = {}
  BY DEF EmptyMap
<1>2. m = [list |-> a.list, sources |-> EmptyMap, secrets |-> <<>>,
           routes |-> EmptyMap, auth |-> {}, egress |-> EmptyMap,
           proxy |-> a.proxy, oauth |-> None]
  BY DEF Marshalled
<1> HIDE DEF m
<1>3. /\ EmptyMap \in [DOMAIN EmptyMap -> Sources]
      /\ EmptyMap \in [DOMAIN EmptyMap -> Services]
  BY <1>1 DEF EmptyMap
<1>4. IsSpec(m)
  <2>1. IsFiniteSet({})
    BY FS_EmptySet
  <2>2. a.list \in Seq(Credentials) /\ a.proxy \in Seq(Envs)
    BY DEF Artifacts
  <2>3. m \in [list    : Seq(Credentials),
               sources : [DOMAIN EmptyMap -> Sources],
               secrets : Seq(Envs),
               routes  : [DOMAIN EmptyMap -> Services],
               auth    : SUBSET Services,
               egress  : [DOMAIN EmptyMap -> Services],
               proxy   : Seq(Envs),
               oauth   : Standalone \cup {None}]
    BY <1>2, <1>3, <2>2
  <2>4. m.sources = EmptyMap /\ m.routes = EmptyMap /\ m.egress = EmptyMap
    BY <1>2
  <2>5. QED
    BY <1>1, <2>1, <2>3, <2>4 DEF IsSpec
<1>5. m.sources = EmptyMap /\ m.egress = EmptyMap /\ m.secrets = <<>> /\ m.oauth = None
  BY <1>2
<1>6. ~SecretsClash(m)
  BY <1>1, <1>5 DEF SecretsClash, SecretServices
<1>7. ~EgressClashes(WithSecrets(m))
  <2>1. WithSecrets(m).egress = EmptyMap
    BY <1>4, <1>5, SecretsKeepSpec
  <2>2. QED
    BY <1>1, <2>1 DEF EgressClashes
<1>8. QED
  BY <1>4, <1>5, <1>6, <1>7 DEF Loadable, NamelessBlock, m

(* What Marshal wrote is loaded as it is: there is nothing to fold.        *)
LEMMA MarshalledLoad ==
    ASSUME NEW a \in Artifacts, a.proxy = Ascending(Sentinels(a.list)),
           NEW at \in Places(Marshalled(a)),
           \A e \in Range(Marshalled(a).proxy) : ServiceKey[e] \in Listed(Marshalled(a))
    PROVE  ArtifactOf(Load(Marshalled(a), at)) = a
<1> DEFINE s == Marshalled(a)
           m == Mapped(s)
<1>1. IsSpec(s) /\ Loadable(s) /\ at \in Places(s)
  BY MarshalledSpec
<1>2. s.list = a.list /\ s.proxy = a.proxy /\ s.secrets = <<>> /\ s.oauth = None
      /\ DOMAIN s.sources = {} /\ DOMAIN s.routes = {} /\ DOMAIN s.egress = {}
  BY DEF Marshalled, EmptyMap
<1> HIDE DEF s
<1>3. SecretServices(s) = {}
  BY <1>2 DEF SecretServices, Range
<1>4. /\ IsSpec(m) /\ m.list = s.list /\ m.proxy = s.proxy
      /\ DOMAIN m.sources = {} /\ DOMAIN m.routes = {}
  <2> DEFINE g == [svc \in SecretServices(s) |-> SecretSource(s, svc)]
  <2>1. /\ IsSpec(m) /\ m.list = s.list /\ m.proxy = s.proxy
        /\ m.sources = Joined(s.sources, g) /\ m.routes = Joined(s.routes, s.egress)
    BY <1>1, MappedSpec
  <2>2. DOMAIN g = {}
    BY <1>3
  <2> HIDE DEF g, m
  <2>3. QED
    BY <1>2, <2>1, <2>2 DEF Joined
<1> HIDE DEF m
<1>5. ASSUME NEW e \in Range(m.proxy)
      PROVE  ServiceOf(m, e, at) \in Listed(m)
  <2>1. Holders(m, e) = {}
    BY <1>4 DEF Holders
  <2>2. ServiceOf(m, e, at) = ServiceKey[e]
    BY <2>1 DEF ServiceOf
  <2>3. Listed(m) = Listed(s) /\ e \in Range(s.proxy)
    BY <1>4 DEF Listed
  <2>4. QED
    BY <2>2, <2>3 DEF s
<1>6. NewServices(m, at) = {}
  <2>1. Range(m.routes) = {}
    BY <1>4 DEF Range
  <2>2. QED
    BY <1>4, <1>5, <2>1 DEF NewServices
<1>7. Materialized(m, at) = <<>>
  <2>1. at \in Orders(DOMAIN m.sources) /\ IsSpec(m)
    BY <1>1, <1>4 DEF Places, m
  <2>2. /\ Materialized(m, at) \in Seq(Credentials)
        /\ Range(Materialized(m, at)) = {Folded(m, svc, at) : svc \in NewServices(m, at)}
    BY <2>1, MaterializedType
  <2>3. Range(Materialized(m, at)) = {}
    BY <1>6, <2>2
  <2>4. QED
    <3>1. ASSUME NEW q \in Seq(Credentials), q # <<>>
          PROVE  q[1] \in Range(q)
      <4>1. Len(q) \in Nat \ {0} /\ DOMAIN q = 1 .. Len(q)
        BY <3>1, EmptySeq, LenProperties
      <4>2. QED
        BY <4>1 DEF Range
    <3>2. QED
      BY <2>2, <2>3, <3>1
<1>8. Fold(s, at).list = s.list \o <<>> /\ s.list \in Seq(Credentials)
  BY <1>1, <1>7, FoldSpec DEF m
<1>9. Fold(s, at).list = s.list
  BY <1>8, ConcatEmptySeq
<1>10. Load(s, at).list = s.list /\ Load(s, at).proxy = Ascending(Sentinels(s.list))
  <2>1. Join(s, at).list = s.list
    BY <1>1, <1>2, <1>9, JoinSpec
  <2>2. QED
    BY <1>1, <2>1, LoadSpec
<1>11. a = [list |-> a.list, proxy |-> a.proxy]
  BY DEF Artifacts
<1>12. QED
  BY <1>2, <1>10, <1>11 DEF ArtifactOf, s

-----------------------------------------------------------------------------
(* The inductive invariant: how far the load has come, and what the load   *)
(* before it was.                                                          *)

Progress ==
    /\ pass = "secrets" => spec = input
    /\ pass = "egress" => spec = WithSecrets(input) /\ ~SecretsClash(input)
    /\ pass = "credentials" => /\ spec = Mapped(input)
                               /\ ~SecretsClash(input) /\ ~EgressClashes(WithSecrets(input))
    /\ pass = "oauth" => /\ \E at \in Places(input) : spec = Fold(input, at)
                         /\ ~SecretsClash(input) /\ ~EgressClashes(WithSecrets(input))
    /\ pass = "derive" => Loadable(input) /\ \E at \in Places(input) : spec = Join(input, at)
    /\ pass = "loaded" => Loadable(input) /\ \E at \in Places(input) : spec = Load(input, at)

History ==
    IF before = None THEN TRUE
    ELSE \E prior \in Documents : \E at \in Places(prior) :
             /\ Loadable(prior)
             /\ before = ArtifactOf(Load(prior, at))
             /\ input \in {prior, Marshalled(before)}

IInv == TypeOK /\ Progress /\ History

LEMMA PassNames ==
    /\ Range(Passes) = {"secrets", "egress", "credentials", "oauth", "derive"}
    /\ TypeOK => pass \in {"secrets", "egress", "credentials", "oauth", "derive", "loaded", "refused"}
<1>1. Range(Passes) = {"secrets", "egress", "credentials", "oauth", "derive"}
  <2>1. DOMAIN Passes = 1 .. 5
    BY DEF Passes
  <2>2. Range(Passes) = {Passes[1], Passes[2], Passes[3], Passes[4], Passes[5]}
    BY <2>1 DEF Range
  <2>3. QED
    BY <2>2 DEF Passes
<1>2. QED
  BY <1>1 DEF TypeOK

LEMMA ArtifactType ==
    ASSUME NEW s, IsSpec(s)
    PROVE  ArtifactOf(s) \in Artifacts /\ ArtifactOf(s) # None
<1>1. ArtifactOf(s) \in Artifacts
  BY SpecFields DEF ArtifactOf, Artifacts
<1>2. QED
  BY <1>1, NoneIsNothing

LEMMA InitIInv == Init => IInv
<1> SUFFICES ASSUME Init PROVE IInv
  OBVIOUS
<1>1. TypeOK
  BY PassNames, DocumentsDecode DEF Init, TypeOK
<1>2. Progress
  BY DEF Init, Progress
<1>3. History
  BY DEF Init, History
<1>4. QED
  BY <1>1, <1>2, <1>3 DEF IInv

LEMMA NextIInv == IInv /\ [Next]_vars => IInv'
<1> SUFFICES ASSUME IInv, [Next]_vars PROVE IInv'
  OBVIOUS
<1> USE DEF IInv
<1>1. IsSpec(input) /\ IsSpec(spec) /\ TypeOK /\ Progress /\ History
  BY DEF TypeOK
<1>2. ASSUME UNCHANGED <<input, before>>
      PROVE  History'
  BY <1>1, <1>2 DEF History
<1>3. ASSUME Refuse
      PROVE  TypeOK' /\ Progress'
  BY <1>1, <1>3, PassNames DEF Refuse, TypeOK, Progress
<1>4. ASSUME NormalizeSecrets
      PROVE  IInv'
  <2>1. UNCHANGED <<input, before>>
    BY <1>4 DEF NormalizeSecrets, Refuse
  <2>2. CASE Refuse
    BY <1>2, <1>3, <2>1, <2>2
  <2>3. CASE ~SecretsClash(spec) /\ spec' = WithSecrets(spec) /\ pass' = "egress" /\ UNCHANGED <<input, warnings, before>>
    <3>1. spec = input
      BY <1>1, <1>4 DEF NormalizeSecrets, Progress
    <3>2. IsSpec(spec')
      BY <1>1, <2>3, SecretsKeepSpec
    <3>3. TypeOK'
      BY <1>1, <2>3, <3>2, PassNames DEF TypeOK
    <3>4. Progress'
      BY <2>3, <3>1 DEF Progress
    <3>5. QED
      BY <1>2, <2>1, <3>3, <3>4
  <2>4. QED
    BY <1>4, <2>2, <2>3 DEF NormalizeSecrets
<1>5. ASSUME NormalizeEgress
      PROVE  IInv'
  <2>1. UNCHANGED <<input, before>>
    BY <1>5 DEF NormalizeEgress, Refuse
  <2>2. CASE Refuse
    BY <1>2, <1>3, <2>1, <2>2
  <2>3. CASE ~EgressClashes(spec) /\ spec' = WithEgress(spec) /\ pass' = "credentials" /\ UNCHANGED <<input, warnings, before>>
    <3>1. spec = WithSecrets(input) /\ ~SecretsClash(input)
      BY <1>1, <1>5 DEF NormalizeEgress, Progress
    <3>2. IsSpec(spec')
      BY <1>1, <2>3, EgressKeepsSpec
    <3>3. TypeOK'
      BY <1>1, <2>3, <3>2, PassNames DEF TypeOK
    <3>4. Progress'
      BY <2>3, <3>1 DEF Progress, Mapped
    <3>5. QED
      BY <1>2, <2>1, <3>3, <3>4
  <2>4. QED
    BY <1>5, <2>2, <2>3 DEF NormalizeEgress
<1>6. ASSUME NormalizeLegacyCredentials
      PROVE  IInv'
  <2>1. /\ spec = Mapped(input)
        /\ ~SecretsClash(input) /\ ~EgressClashes(WithSecrets(input))
        /\ pass' = "oauth" /\ UNCHANGED <<input, before>>
    BY <1>1, <1>6 DEF NormalizeLegacyCredentials, Progress
  <2>2. PICK at \in Orders(DOMAIN spec.sources) : spec' = WithCredentials(spec, at)
    BY <1>6 DEF NormalizeLegacyCredentials
  <2>3. at \in Places(input) /\ spec' = Fold(input, at)
    BY <2>1, <2>2 DEF Places, Fold
  <2>4. IsSpec(spec')
    BY <1>1, <2>3, FoldSpec
  <2>5. warnings' \subseteq Surfaces
    BY <1>1, <1>6 DEF NormalizeLegacyCredentials, FoldWarnings, TypeOK
  <2>6. TypeOK'
    BY <1>1, <2>1, <2>4, <2>5, PassNames DEF TypeOK
  <2>7. Progress'
    BY <2>1, <2>3 DEF Progress
  <2>8. QED
    BY <1>2, <2>1, <2>6, <2>7
<1>7. ASSUME NormalizeLegacyOAuthBlock
      PROVE  IInv'
  <2>1. UNCHANGED <<input, before>>
    BY <1>7 DEF NormalizeLegacyOAuthBlock, Refuse
  <2>2. CASE Refuse
    BY <1>2, <1>3, <2>1, <2>2
  <2>3. CASE /\ ~NamelessBlock(spec) /\ spec' = WithOAuth(spec) /\ pass' = "derive"
             /\ warnings' = warnings \cup IF spec.oauth = None THEN {} ELSE {"oauth"}
    <3>1. PICK at \in Places(input) : spec = Fold(input, at)
      BY <1>1, <1>7 DEF NormalizeLegacyOAuthBlock, Progress
    <3>2. ~SecretsClash(input) /\ ~EgressClashes(WithSecrets(input))
      BY <1>1, <1>7 DEF NormalizeLegacyOAuthBlock, Progress
    <3>3. spec.oauth = input.oauth
      BY <1>1, <3>1, FoldSpec
    <3>4. Loadable(input)
      BY <2>3, <3>2, <3>3 DEF Loadable, NamelessBlock
    <3>5. spec' = Join(input, at)
      BY <2>3, <3>1 DEF Join
    <3>6. IsSpec(spec')
      BY <1>1, <3>4, <3>5, JoinSpec
    <3>7. warnings' \subseteq Surfaces
      BY <1>1, <2>3 DEF TypeOK, Surfaces
    <3>8. TypeOK'
      BY <1>1, <2>1, <2>3, <3>6, <3>7, PassNames DEF TypeOK
    <3>9. Progress'
      BY <2>1, <2>3, <3>4, <3>5 DEF Progress
    <3>10. QED
      BY <1>2, <2>1, <3>8, <3>9
  <2>4. QED
    BY <1>7, <2>2, <2>3 DEF NormalizeLegacyOAuthBlock
<1>8. ASSUME DeriveProxyManagedEnv
      PROVE  IInv'
  <2>1. spec' = WithSentinels(spec) /\ pass' = "loaded" /\ UNCHANGED <<input, warnings, before>>
    BY <1>8 DEF DeriveProxyManagedEnv
  <2>2. PICK at \in Places(input) : spec = Join(input, at)
    BY <1>1, <1>8 DEF DeriveProxyManagedEnv, Progress
  <2>3. Loadable(input)
    BY <1>1, <1>8 DEF DeriveProxyManagedEnv, Progress
  <2>4. spec' = Load(input, at)
    BY <2>1, <2>2 DEF Load
  <2>5. IsSpec(spec')
    BY <1>1, <2>3, <2>4, LoadSpec
  <2>6. TypeOK'
    BY <1>1, <2>1, <2>5, PassNames DEF TypeOK
  <2>7. Progress'
    BY <2>1, <2>3, <2>4 DEF Progress
  <2>8. QED
    BY <1>2, <2>1, <2>6, <2>7
<1>9. ASSUME LoadAgain
      PROVE  IInv'
  <2>1. /\ pass = "loaded" /\ input \in Documents
        /\ input' \in {input, Marshalled(Artifact)}
        /\ spec' = input' /\ pass' = "secrets" /\ warnings' = {} /\ before' = Artifact
    BY <1>9 DEF LoadAgain
  <2>2. PICK at \in Places(input) : spec = Load(input, at)
    BY <1>1, <2>1 DEF Progress
  <2>3. Loadable(input)
    BY <1>1, <2>1 DEF Progress
  <2>4. Artifact = ArtifactOf(spec) /\ Artifact \in Artifacts
    BY <1>1, ArtifactType DEF Artifact, ArtifactOf
  <2>5. IsSpec(input')
    BY <1>1, <2>1, <2>4, MarshalledSpec
  <2>6. TypeOK'
    BY <2>1, <2>4, <2>5, PassNames DEF TypeOK
  <2>7. Progress'
    BY <2>1 DEF Progress
  <2>8. History'
    <3>1. before' = ArtifactOf(Load(input, at)) /\ input' \in {input, Marshalled(before')}
      BY <2>1, <2>2, <2>4
    <3>2. QED
      BY <2>1, <2>3, <3>1 DEF History
  <2>9. QED
    BY <2>6, <2>7, <2>8
<1>10. ASSUME UNCHANGED vars
       PROVE  IInv'
  <2>1. TypeOK' /\ Progress'
    BY <1>1, <1>10 DEF vars, TypeOK, Progress
  <2>2. QED
    BY <1>2, <1>10, <2>1 DEF vars
<1>11. QED
  BY <1>4, <1>5, <1>6, <1>7, <1>8, <1>9, <1>10 DEF Next

(* Every pass leaves a spec that decodes: the lists are sequences, the     *)
(* maps finite, the names the services', hosts' and variables', for any    *)
(* documents that decode and any order of the range over a map.            *)
THEOREM CredentialTypes == Spec => []TypeOK
<1>1. IInv => TypeOK
  BY DEF IInv
<1>2. QED
  BY InitIInv, NextIInv, <1>1, PTL DEF Spec

LEMMA IInvFaithful == IInv => FoldIsFaithful
<1> SUFFICES ASSUME IInv PROVE FoldIsFaithful
  OBVIOUS
<1>1. CASE pass = "loaded"
  <2>1. IsSpec(input) /\ Loadable(input)
    BY <1>1 DEF IInv, TypeOK, Progress
  <2>2. PICK at \in Places(input) : spec = Load(input, at)
    BY <1>1 DEF IInv, Progress
  <2>3. RoutesAreKept
    <3>1. \A svc \in Services : ~TwoEndpoints(input, svc) =>
              DeclaredHosts(input, svc) \subseteq HostsOf(svc, spec.list)
      BY <2>1, <2>2, LoadKeepsRoutes
    <3>2. QED
      BY <3>1 DEF RoutesAreKept
  <2>4. ListedWins
    <3>1. /\ Len(spec.list) >= Len(input.list)
          /\ \A i \in DOMAIN input.list :
                /\ spec.list[i].service = input.list[i].service
                /\ spec.list[i].required = input.list[i].required
                /\ \/ spec.list[i].key = input.list[i].key
                   \/ spec.list[i].key = None /\ spec.list[i].oauth # None
                /\ input.list[i].key # None /\ ~RoutesOnly(input.list[i].key)
                      => spec.list[i].key = input.list[i].key
          /\ \A i \in DOMAIN spec.list :
                i > Len(input.list) => spec.list[i].service \notin Listed(input)
      BY <2>1, <2>2, LoadKeepsListed
    <3>2. QED
      BY <3>1 DEF ListedWins
  <2>5. SentinelsAreKept
    BY <2>1, <2>2, LoadKeepsSentinels DEF SentinelsAreKept
  <2>6. QED
    BY <2>3, <2>4, <2>5 DEF FoldIsFaithful
<1>2. CASE pass # "loaded"
  BY <1>2 DEF FoldIsFaithful, RoutesAreKept, ListedWins, SentinelsAreKept, Loaded
<1>3. QED
  BY <1>1, <1>2

(* What a v1 spec says on its deprecated surfaces is what its credentials  *)
(* say once loaded: every host stays routed to its service, a listed       *)
(* credential stays as written and alone, and a managed variable of one    *)
(* source at most has a sentinel.                                          *)
THEOREM FoldKeepsWhatIsDeclared == Spec => []FoldIsFaithful
BY InitIInv, NextIInv, IInvFaithful, PTL DEF Spec

LEMMA IInvAgree == IInv => LoadsAgree
<1> SUFFICES ASSUME IInv, Loaded, before # None, Rereadable PROVE Artifact = before
  BY DEF LoadsAgree
<1>1. IsSpec(input) /\ Loadable(input)
  BY DEF IInv, TypeOK, Progress, Loaded
<1>2. PICK at \in Places(input) : spec = Load(input, at)
  BY DEF IInv, Progress, Loaded
<1> DEFINE Prior(p, at0) == /\ Loadable(p)
                            /\ before = ArtifactOf(Load(p, at0))
                            /\ input \in {p, Marshalled(before)}
<1>0. PICK prior \in Documents : \E at0 \in Places(prior) : Prior(prior, at0)
  BY DEF IInv, History
<1>3. PICK first \in Places(prior) : Prior(prior, first)
  BY <1>0
<1>4. Artifact = ArtifactOf(Load(input, at))
  BY <1>2 DEF Artifact, ArtifactOf
<1>5. IsSpec(prior)
  BY DocumentsDecode
<1>6. CASE input = Marshalled(before)
  <2>1. before \in Artifacts
    BY <1>3, <1>5, LoadSpec, ArtifactType
  <2>2. before.proxy = Ascending(Sentinels(before.list))
    BY <1>3, <1>5, LoadSpec DEF ArtifactOf
  <2>3. \A e \in Range(Marshalled(before).proxy) : ServiceKey[e] \in Listed(Marshalled(before))
    BY <1>6 DEF Rereadable, WrittenBack
  <2>4. QED
    BY <1>2, <1>4, <1>6, <2>1, <2>2, <2>3, MarshalledLoad
<1>7. CASE input # Marshalled(before)
  <2>1. input = prior /\ Unambiguous(input)
    BY <1>3, <1>7 DEF Rereadable, WrittenBack
  <2>2. Load(input, at) = Load(prior, first)
    BY <1>1, <1>2, <1>3, <2>1, LoadIsDeterministic DEF Loadable
  <2>3. QED
    BY <1>3, <1>4, <2>2
<1>8. QED
  BY <1>6, <1>7

(* Loading a kit twice, from its file or from what Marshal wrote of it,    *)
(* gives the same credentials and the same sentinels, whatever order the   *)
(* range over the sources had in each, when the kit says of each variable  *)
(* whose it is.                                                            *)
THEOREM LoadsGiveOneArtifact == Spec => []LoadsAgree
BY InitIInv, NextIInv, IInvAgree, PTL DEF Spec
=============================================================================
