------------------------ MODULE NormalizeCredentials ------------------------
(***************************************************************************)
(* The credential passes of spec/normalize.go: how a schemaVersion "1"     *)
(* spec.yaml, which may declare one service's credential on seven          *)
(* surfaces, becomes one list of credentials.  Each pass is a step; a Go   *)
(* map is ranged over in any order.  A spec that has been loaded may be    *)
(* loaded again, from the same bytes or from what Marshal made of it.      *)
(*                                                                         *)
(* Strings that the code sorts are natural numbers, their places in the    *)
(* order of strings.  None stands for nil and for the empty string.        *)
(***************************************************************************)
EXTENDS Naturals, FiniteSets, SequencesExt

CONSTANTS
    Services,    \* credential services
    Domains,     \* hosts a credential is injected on or routed to
    Envs,        \* names of environment variables
    ServiceKey,  \* the service a variable is named for
    WellKnown,   \* the services the loader knows the header of
    Documents,   \* the specs as decoded, before any pass
    None

ASSUME NamesAreOrdered ==
    /\ Services \subseteq Nat /\ Domains \subseteq Nat /\ Envs \subseteq Nat

ASSUME KeysAreServices ==
    /\ ServiceKey \in [Envs -> Services]
    /\ WellKnown \subseteq Services

VARIABLES
    pass,      \* the pass that runs next, or how the load ended
    input,     \* what this load decoded
    spec,      \* the SpecFile, as far as the passes have come
    warnings,  \* the v1 surfaces a deprecation warning names
    before     \* what the previous load of the kit returned
vars == <<pass, input, spec, warnings, before>>

-----------------------------------------------------------------------------
(* Data.                                                                   *)

\* What an inject entry puts into a request.
Ways        == {"nothing", "header", "username"}
Injects     == [domain : Domains \cup {None}, by : Ways]
Keys        == [name : Envs \cup {None}, managed : BOOLEAN, inject : Seq(Injects)]
OAuths      == [endpoint : Domains, hosts : SUBSET Domains]
Credentials == [service : Services, required : BOOLEAN,
                key : Keys \cup {None}, oauth : OAuths \cup {None}]
Sources     == [env : Seq(Envs), required : BOOLEAN]
Standalone  == [service : Services \cup {None}, endpoint : Domains]

EmptyMap     == [x \in {} |-> x]
Joined(f, g) == [x \in DOMAIN f \cup DOMAIN g |-> IF x \in DOMAIN f THEN f[x] ELSE g[x]]

\* A Go map has finitely many keys.
IsSpec(s) ==
    /\ s \in [list    : Seq(Credentials),
              sources : [DOMAIN s.sources -> Sources],
              secrets : Seq(Envs),
              routes  : [DOMAIN s.routes -> Services],
              auth    : SUBSET Services,
              egress  : [DOMAIN s.egress -> Services],
              proxy   : Seq(Envs),
              oauth   : Standalone \cup {None}]
    /\ DOMAIN s.sources \subseteq Services /\ IsFiniteSet(DOMAIN s.sources)
    /\ DOMAIN s.routes \subseteq Domains /\ IsFiniteSet(DOMAIN s.routes)
    /\ DOMAIN s.egress \subseteq Domains /\ IsFiniteSet(DOMAIN s.egress)
Artifacts == [list : Seq(Credentials), proxy : Seq(Envs)]

Surfaces == {"sources", "serviceAuth", "serviceDomains", "proxyManaged", "oauth"}
Passes   == <<"secrets", "egress", "credentials", "oauth", "derive">>

\* `credentials:` is a list (v2) or a mapping with sources (v1), never both.
OneShape(s) == s.list = <<>> \/ s.sources = EmptyMap

ASSUME DocumentsDecode == \A d \in Documents : IsSpec(d) /\ OneShape(d)

ASSUME NoneIsNothing == None \notin Nat \cup Keys \cup OAuths \cup Standalone \cup Artifacts

Listed(s) == {c.service : c \in Range(s.list)}

-----------------------------------------------------------------------------
Init ==
    /\ pass = "secrets"
    /\ input \in Documents
    /\ spec = input
    /\ warnings = {}
    /\ before = None

Refuse == /\ pass' = "refused"
          /\ UNCHANGED <<input, spec, warnings, before>>

\* normalizeSecrets: a secret is a required source of the service its name
\* says, and must be the only source of it.
SecretServices(s) == {ServiceKey[e] : e \in Range(s.secrets)}
SecretsClash(s) ==
    \/ SecretServices(s) \cap DOMAIN s.sources # {}
    \/ \E i, j \in DOMAIN s.secrets :
          i # j /\ ServiceKey[s.secrets[i]] = ServiceKey[s.secrets[j]]
SecretSource(s, svc) ==
    [env |-> <<CHOOSE e \in Range(s.secrets) : ServiceKey[e] = svc>>, required |-> TRUE]
WithSecrets(s) ==
    [s EXCEPT !.sources = Joined(@, [svc \in SecretServices(s) |-> SecretSource(s, svc)])]

NormalizeSecrets ==
    /\ pass = "secrets"
    /\ \/ SecretsClash(spec) /\ Refuse
       \/ /\ ~SecretsClash(spec)
          /\ spec' = WithSecrets(spec)
          /\ pass' = "egress"
          /\ UNCHANGED <<input, warnings, before>>

\* normalizeEgress: an egress rule is a serviceDomain, and brings the header
\* of its service along when the loader knows one.
EgressClashes(s) == DOMAIN s.egress \cap DOMAIN s.routes # {}
WithEgress(s) ==
    [s EXCEPT !.routes = Joined(@, s.egress),
              !.auth = @ \cup (Range(s.egress) \cap WellKnown)]

NormalizeEgress ==
    /\ pass = "egress"
    /\ \/ EgressClashes(spec) /\ Refuse
       \/ /\ ~EgressClashes(spec)
          /\ spec' = WithEgress(spec)
          /\ pass' = "credentials"
          /\ UNCHANGED <<input, warnings, before>>

-----------------------------------------------------------------------------
(* normalizeLegacyCredentials: the sources, the serviceDomains with the    *)
(* serviceAuth and the proxyManaged list become one credential per service,*)
(* behind those the spec already lists; a service it lists is left alone.  *)

\* The variable's service is the last of its sources the range comes to.
\* `at` is the place each source has in this range over the map.
Holders(s, e) == {svc \in DOMAIN s.sources : e \in Range(s.sources[svc].env)}
ServiceOf(s, e, at) ==
    IF Holders(s, e) = {} THEN ServiceKey[e]
    ELSE CHOOSE svc \in Holders(s, e) : \A other \in Holders(s, e) : at[other] <= at[svc]

Ascending(S) ==
    CHOOSE q \in [1 .. Cardinality(S) -> S] : \A i, j \in DOMAIN q : i < j => q[i] < q[j]

Injected(s, svc) ==
    LET domains == Ascending({d \in DOMAIN s.routes : s.routes[d] = svc})
    IN  [i \in DOMAIN domains |->
            [domain |-> domains[i], by |-> IF svc \in s.auth THEN "header" ELSE "nothing"]]

\* The places of the listed variables that are the service's.
Managed(s, svc, at) == {i \in DOMAIN s.proxy : ServiceOf(s, s.proxy[i], at) = svc}

\* Mutation: a variable with no source is not named.
NameFromSource(s, svc, at) ==
    IF svc \in DOMAIN s.sources /\ s.sources[svc].env # <<>>
    THEN Head(s.sources[svc].env) ELSE None

\* The first of its source's variables, or else of the listed ones.
NameOf(s, svc, at) ==
    IF svc \in DOMAIN s.sources /\ s.sources[svc].env # <<>>
    THEN Head(s.sources[svc].env)
    ELSE IF Managed(s, svc, at) # {} THEN s.proxy[Min(Managed(s, svc, at))] ELSE None

FoldedKey(s, svc, at) ==
    IF NameOf(s, svc, at) = None /\ Injected(s, svc) = <<>> THEN None
    ELSE [name |-> NameOf(s, svc, at), managed |-> Managed(s, svc, at) # {},
          inject |-> Injected(s, svc)]

Folded(s, svc, at) ==
    [service  |-> svc,
     required |-> svc \in DOMAIN s.sources /\ s.sources[svc].required,
     key      |-> FoldedKey(s, svc, at),
     oauth    |-> None]

\* Mutation: a service with a listed credential is folded too.
NewServicesAll(s, at) ==
    DOMAIN s.sources \cup Range(s.routes) \cup {ServiceOf(s, e, at) : e \in Range(s.proxy)}

NewServices(s, at) ==
    (DOMAIN s.sources \cup Range(s.routes)
        \cup {ServiceOf(s, e, at) : e \in Range(s.proxy)}) \ Listed(s)

\* Mutation: the credentials are in the order the range over the map has.
MaterializedAsRanged(s, at) ==
    LET Precedes(a, b) == IF {a, b} \subseteq DOMAIN at THEN at[a] < at[b] ELSE a < b
        services == SetToSortSeq(NewServices(s, at), Precedes)
    IN  [i \in DOMAIN services |-> Folded(s, services[i], at)]

\* The credentials of the new services, by service name.
Materialized(s, at) ==
    LET services == Ascending(NewServices(s, at))
    IN  [i \in DOMAIN services |-> Folded(s, services[i], at)]

WithCredentials(s, at) == [s EXCEPT !.list = @ \o Materialized(s, at)]

FoldWarnings(s) ==
    {w \in Surfaces :
        \/ w = "sources" /\ DOMAIN s.sources \ Listed(s) # {}
        \/ w = "serviceAuth" /\ s.auth # {}
        \/ w = "serviceDomains" /\ Range(s.routes) \ Listed(s) # {}
        \/ w = "proxyManaged" /\ s.proxy # <<>>}

\* The orders in which a range may come to the members of S.
Orders(S) == {at \in [S -> 1..Cardinality(S)] : IsInjective(at)}

NormalizeLegacyCredentials ==
    /\ pass = "credentials"
    /\ \E at \in Orders(DOMAIN spec.sources) : spec' = WithCredentials(spec, at)
    /\ warnings' = warnings \cup FoldWarnings(spec)
    /\ pass' = "oauth"
    /\ UNCHANGED <<input, before>>

-----------------------------------------------------------------------------
(* normalizeLegacyOAuthBlock: the standalone block joins the credential of *)
(* its service.  A key that only routes is taken apart: its domains are the*)
(* OAuth block's, save the token endpoint, which that block has already.   *)

RoutesOnly(k) == k # None /\ k.name = None /\ \A inj \in Range(k.inject) : inj.by # "header"

\* Mutation: an entry without a domain is moved like the others.
DomainsAsListed(k) == {inj.domain : inj \in Range(k.inject)}

DomainsOf(k) == {inj.domain : inj \in Range(k.inject)} \ {None}

\* Mutation: the key is dropped, and its domains with it.
MovedNone(k, block) == {}

Moved(k, block) == IF RoutesOnly(k) THEN DomainsOf(k) \ {block.endpoint} ELSE {}

Attached(c, block) ==
    [c EXCEPT !.key = IF RoutesOnly(@) THEN None ELSE @,
              !.oauth = [endpoint |-> IF @ = None THEN block.endpoint ELSE @.endpoint,
                         hosts |-> (IF @ = None THEN {} ELSE @.hosts) \cup Moved(c.key, block)]]

Synthesized(block) ==
    [service |-> block.service, required |-> FALSE, key |-> None,
     oauth |-> [endpoint |-> block.endpoint, hosts |-> {}]]

Matches(s) == {i \in DOMAIN s.list : s.list[i].service = s.oauth.service}
WithOAuth(s) ==
    IF s.oauth = None THEN s
    ELSE IF Matches(s) = {} THEN [s EXCEPT !.list = Append(@, Synthesized(s.oauth))]
    ELSE [s EXCEPT !.list[Min(Matches(s))] = Attached(@, s.oauth)]

NamelessBlock(s) == s.oauth # None /\ s.oauth.service = None

NormalizeLegacyOAuthBlock ==
    /\ pass = "oauth"
    /\ \/ NamelessBlock(spec) /\ Refuse
       \/ /\ ~NamelessBlock(spec)
          /\ spec' = WithOAuth(spec)
          /\ warnings' = warnings \cup IF spec.oauth = None THEN {} ELSE {"oauth"}
          /\ pass' = "derive"
          /\ UNCHANGED <<input, before>>

-----------------------------------------------------------------------------
(* deriveProxyManagedEnv: the variables that hold a sentinel in the        *)
(* container are the names of the managed keys, whatever the spec listed.  *)

Sentinels(list) == {c.key.name : c \in {c \in Range(list) : /\ c.key # None
                                                           /\ c.key.managed
                                                           /\ c.key.name # None}}
WithSentinels(s) == [s EXCEPT !.proxy = Ascending(Sentinels(s.list))]
Artifact == [list |-> spec.list, proxy |-> spec.proxy]

DeriveProxyManagedEnv ==
    /\ pass = "derive"
    /\ spec' = WithSentinels(spec)
    /\ pass' = "loaded"
    /\ UNCHANGED <<input, warnings, before>>

\* Marshal of the SpecFile, compacted: the decode shims are cleared, the list
\* of credentials and the environment are not.
Marshalled(artifact) ==
    [list |-> artifact.list, sources |-> EmptyMap, secrets |-> <<>>,
     routes |-> EmptyMap, auth |-> {}, egress |-> EmptyMap,
     proxy |-> artifact.proxy, oauth |-> None]

\* The kit is loaded again: the same file, or the one written back.
LoadAgain ==
    /\ pass = "loaded" /\ input \in Documents
    /\ input' \in {input, Marshalled(Artifact)}
    /\ spec' = input'
    /\ pass' = "secrets"
    /\ warnings' = {}
    /\ before' = Artifact

Next == \/ NormalizeSecrets
        \/ NormalizeEgress
        \/ NormalizeLegacyCredentials
        \/ NormalizeLegacyOAuthBlock
        \/ DeriveProxyManagedEnv
        \/ LoadAgain

Spec == Init /\ [][Next]_vars

-----------------------------------------------------------------------------
(* Properties.                                                             *)

\* Every variable has its type.
TypeOK ==
    /\ pass \in Range(Passes) \cup {"loaded", "refused"}
    /\ IsSpec(input) /\ IsSpec(spec)
    /\ warnings \subseteq Surfaces
    /\ before \in Artifacts \cup {None}

Loaded == pass = "loaded"

\* Credential.RoutingHosts: every host a credential's traffic goes to.
RoutingHosts(c) == (IF c.key = None THEN {} ELSE DomainsOf(c.key))
                       \cup (IF c.oauth = None THEN {} ELSE {c.oauth.endpoint} \cup c.oauth.hosts)
HostsOf(svc, list) == UNION {RoutingHosts(c) : c \in {c \in Range(list) : c.service = svc}}

\* The hosts the decoded spec routes to a service, on whichever surface, when
\* the surface is one the loader folds: a service with a listed credential
\* has its routes there and nowhere else.
DeclaredHosts(s, svc) ==
    IF svc \in Listed(s) THEN HostsOf(svc, s.list)
    ELSE {d \in DOMAIN s.routes : s.routes[d] = svc}
            \cup {d \in DOMAIN s.egress : s.egress[d] = svc}

\* The standalone block and the listed credential name two token endpoints.
TwoEndpoints(s, svc) ==
    /\ s.oauth # None /\ s.oauth.service = svc
    /\ \E c \in Range(s.list) : /\ c.service = svc /\ c.oauth # None
                                /\ c.oauth.endpoint # s.oauth.endpoint

\* No pass loses a host: what the spec routes to a service is routed by its
\* credential once loaded, though the fold may have made a key of it and the
\* OAuth pass taken that key apart again.
RoutesAreKept ==
    Loaded => \A svc \in Services : ~TwoEndpoints(input, svc) =>
                 DeclaredHosts(input, svc) \subseteq HostsOf(svc, spec.list)

\* A listed credential suppresses the fold for its service entirely: it is
\* there as written, but for a routing key the OAuth pass may take, and no
\* other surface adds to it or stands beside it.
ListedWins ==
    Loaded =>
        /\ Len(spec.list) >= Len(input.list)
        /\ \A i \in DOMAIN input.list :
              LET was == input.list[i]  now == spec.list[i]
              IN  /\ now.service = was.service /\ now.required = was.required
                  /\ now.key = was.key \/ (now.key = None /\ now.oauth # None)
                  /\ was.key # None /\ ~RoutesOnly(was.key) => now.key = was.key
        /\ \A i \in DOMAIN spec.list :
              i > Len(input.list) => spec.list[i].service \notin Listed(input)

\* The sources of a decoded spec, its secrets among them.
SourcesOf(s, e) == {svc \in DOMAIN s.sources : e \in Range(s.sources[svc].env)}
                      \cup {ServiceKey[x] : x \in Range(s.secrets) \cap {e}}
Unambiguous(s)  == \A e \in Envs : \A a, b \in SourcesOf(s, e) : a = b
OwnerIn(s, e)   == IF SourcesOf(s, e) = {} THEN ServiceKey[e]
                   ELSE CHOOSE svc \in SourcesOf(s, e) : TRUE

\* A variable the spec wants a sentinel in belongs to a credential, and that
\* credential's variable is given one, unless the service has a listed one.
SentinelsAreKept ==
    Loaded /\ Unambiguous(input) =>
        \A e \in Range(input.proxy) :
            \/ OwnerIn(input, e) \in Listed(input)
            \/ \E c \in Range(spec.list) :
                  /\ c.service = OwnerIn(input, e)
                  /\ c.key # None /\ c.key.managed
                  /\ c.key.name \in Range(spec.proxy)

\* What the passes make of the deprecated surfaces says what those said: no
\* host and no sentinel is lost between two passes, and none of them touches
\* what the spec lists.
FoldIsFaithful == RoutesAreKept /\ ListedWins /\ SentinelsAreKept

\* Whether the kit's text says which service a variable is for: a file has
\* one source for it at most, the written-back one none but its name.
WrittenBack == before # None /\ input = Marshalled(before)
Rereadable ==
    IF WrittenBack THEN \A e \in Range(input.proxy) : ServiceKey[e] \in Listed(input)
    ELSE Unambiguous(input)

\* One kit has one meaning: loading the same bytes again, or the spec that
\* Marshal writes, gives the credentials and sentinels of the load before -
\* when no variable has two sources, and every managed variable is named for
\* a service that has a credential.
LoadsAgree ==
    Loaded /\ before # None /\ Rereadable => Artifact = before

\* The same with no condition on the kit, for loads of the same bytes.
SameBytesSameArtifact ==
    Loaded /\ before # None /\ ~WrittenBack => Artifact = before
=============================================================================
