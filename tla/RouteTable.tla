---------------------------- MODULE RouteTable ----------------------------
(***************************************************************************)
(* The live route table and its hot-swap: build_route_table, build_route   *)
(* and RouteTable::resolve_with (src/router.rs), the cache of TLS          *)
(* configurations they draw from (src/tls.rs TlsConfigCache) and the two   *)
(* calls of the JavaScript thread that use it, update_config and           *)
(* resolve_connection (src/proxy.rs).                                      *)
(*                                                                         *)
(* The loop of build_route_table over the specs is one action per spec,    *)
(* because connection tasks take and release routes, and with them         *)
(* references to TLS configurations, while it runs.  A configuration is    *)
(* its cache key and an identity: two configurations with one key and two  *)
(* identities share no session state.                                      *)
(***************************************************************************)
EXTENDS Integers, Sequences, FiniteSets, Functions, FiniteSetsExt

CONSTANTS
  ExactSnis,      \* configured names without "*."
  WildcardSnis,   \* configured "*.suffix" names
  OtherNames,     \* client names that no spec configures exactly
  WildcardOf,     \* the one wildcard a client name can match, or NoName
  SpecLists,      \* the route lists update_config may be given
  ResolvedKeys,   \* cache keys of routes given to resolve_connection
  Conns,          \* connection tasks
  MinEvictAt      \* MIN_EVICT_AT

DefaultSni == ""
NoName == "-"
Snis == ExactSnis \cup WildcardSnis \cup {DefaultSni}
ClientNames == ExactSnis \cup OtherNames \cup {DefaultSni}

Passthrough == "passthrough"

\* A slot of a table: a route, or why there is none.
Absent == [kind |-> "absent"]
Dropped == [kind |-> "dropped"]
NoTls == [key |-> <<>>, id |-> 0]
NoAuth == "unset"
NoSpec == [sni |-> NoName]

\* One route of a config: the client-certificate policy it asks for, its certificate,
\* whether its upstreams parse and its protocols are declared, its lists.
Specs ==
  [sni : Snis, auth : STRING \ {NoAuth}, cert : STRING, upstreams : BOOLEAN, declared : BOOLEAN,
   allow : STRING, failover : STRING]

\* A ClientHello without a name matches no wildcard.
ASSUME RouteTableConstants ==
  /\ IsFiniteSet(Conns) /\ IsFiniteSet(ExactSnis \cup WildcardSnis \cup OtherNames)
  /\ MinEvictAt \in Nat
  /\ {DefaultSni, NoName} \cap (ExactSnis \cup WildcardSnis \cup OtherNames) = {}
  /\ ExactSnis \cap WildcardSnis = {}
  /\ WildcardOf \in [ClientNames -> WildcardSnis \cup {NoName}]
  /\ WildcardOf[DefaultSni] = NoName
  /\ SpecLists \subseteq Seq(Specs)
  /\ ResolvedKeys \subseteq STRING \X STRING

VARIABLES
  live,     \* the table connections resolve against
  applied,  \* history: the spec that decided each SNI of live
  build,    \* the table under construction by update_config
  cache,    \* TlsConfigCache.cache: key -> identity of the configuration
  used,     \* TlsConfigCache.used
  evictAt,  \* TlsConfigCache.evict_at
  conn      \* the TLS configurations each connection task holds

vars == <<live, applied, build, cache, used, evictAt, conn>>

EmptyTable == [slot |-> [s \in Snis |-> Absent], auth |-> [s \in Snis |-> NoAuth]]
Idle == [pc |-> "idle", specs |-> <<>>, next |-> 1, table |-> EmptyTable]

IsRoute(r) == r.kind = "route"

(***************************************************************************)
(* TlsConfigCache                                                          *)
(***************************************************************************)
RoutesOf(table) == {r \in {table.slot[s] : s \in Snis} : IsRoute(r)}

\* The identities held outside the cache: Arc::strong_count > 1.
Referenced(tables, holders) ==
  {r.tls.id : r \in UNION {RoutesOf(t) : t \in tables}} \cup
  {h.id : h \in UNION {holders[c] : c \in Conns}}

KeepReferenced(c, ids) == Restrict(c, {k \in DOMAIN c : c[k] \in ids})

EvictAtFor(c) == Max({MinEvictAt, 2 * Cardinality(DOMAIN c)})

\* A new ServerConfig: any identity nothing holds is as good as another.
FreshId(ids) == CHOOSE i \in 1 .. Cardinality(ids) + 1 : i \notin ids

\* lookup_or_build: the configuration, the cache and the eviction threshold
\* after it.  The caller's own handle keeps the new entry across the eviction.
LookupOrBuild(key, ids) ==
  IF key \in DOMAIN cache
  THEN [id |-> cache[key], cache |-> cache, evictAt |-> evictAt]
  ELSE LET id == FreshId(ids \cup Range(cache))
           grown == [k \in DOMAIN cache \cup {key} |-> IF k = key THEN id ELSE cache[k]]
           over == Cardinality(DOMAIN grown) > evictAt
           kept == IF over THEN KeepReferenced(grown, ids \cup {id}) ELSE grown
       IN [id |-> id, cache |-> kept,
           evictAt |-> IF over THEN EvictAtFor(kept) ELSE evictAt]

\* Mutant: a build starts from an empty cache.
ClearUsedAll(ids) ==
  /\ used' = {}
  /\ cache' = Restrict(cache, {})
  /\ evictAt' = MinEvictAt

ClearUsed(ids) ==
  LET kept == KeepReferenced(cache, ids)
  IN /\ used' = {}
     /\ cache' = kept
     /\ evictAt' = EvictAtFor(kept)

\* Mutant: the marks alone decide what the sweep keeps.
RetainUsedMarksOnly ==
  /\ cache' = Restrict(cache, DOMAIN cache \cap used)
  /\ used' = {}

\* retain_used, run once the new table is live.
RetainUsed ==
  LET ids == Referenced({live}, conn)
  IN /\ cache' = Restrict(cache, {k \in DOMAIN cache : k \in used \/ cache[k] \in ids})
     /\ used' = {}

(***************************************************************************)
(* resolve_with                                                            *)
(***************************************************************************)
DefaultRoute(table, allowDefault) ==
  IF allowDefault THEN table.slot[DefaultSni] ELSE Absent

ExactSlot(table, name) == IF name \in ExactSnis THEN table.slot[name] ELSE Absent
WildcardSlot(table, name) ==
  IF WildcardOf[name] # NoName THEN table.slot[WildcardOf[name]] ELSE Absent

\* The empty name stands for a ClientHello without SNI.
ResolveWith(table, name, allowDefault) ==
  IF name = DefaultSni THEN DefaultRoute(table, allowDefault)
  ELSE IF ExactSlot(table, name) # Absent THEN ExactSlot(table, name)
  ELSE IF WildcardSlot(table, name) # Absent THEN WildcardSlot(table, name)
  ELSE DefaultRoute(table, allowDefault)

(***************************************************************************)
(* build_route_table                                                       *)
(***************************************************************************)
Indices(specs, sni) == {i \in DOMAIN specs : specs[i].sni = sni}

\* One spec decides each SNI: the last of an exact name or of the default,
\* the first of a wildcard.
Deciding(specs, sni) ==
  IF sni \in WildcardSnis THEN Min(Indices(specs, sni)) ELSE Max(Indices(specs, sni))

DecidingSpecs(specs) ==
  [s \in Snis |-> IF Indices(specs, s) = {} THEN NoSpec ELSE specs[Deciding(specs, s)]]

KeyOf(spec) == <<spec.cert, spec.auth>>

\* What build_route takes for the route: the TLS configuration, marked as
\* used, then the destinations, which may fail after it.
Route(spec, id) ==
  [kind |-> "route", sni |-> spec.sni, allow |-> "any", failover |-> FALSE,
   tls |-> IF spec.auth = Passthrough THEN NoTls ELSE [key |-> KeyOf(spec), id |-> id]]

\* A failover policy that does not parse, or is set on the default route,
\* leaves the route without failover.
FailoverOf(spec) == spec.failover = "valid" /\ spec.sni # DefaultSni

\* Mutant: any last-good route is carried.
CarriesAny(spec) == IsRoute(live.slot[spec.sni])

\* The last-good route of a spec that failed to build is kept only while it
\* enforces the client-certificate policy the spec asks for.
Carries(spec) ==
  /\ IsRoute(live.slot[spec.sni])
  /\ live.auth[spec.sni] = spec.auth

\* Carried or new, a route takes the spec's allow list and failover policy.
Install(spec, route) ==
  [slot |-> [build.table.slot EXCEPT ![spec.sni] =
               [route EXCEPT !.allow = spec.allow, !.failover = FailoverOf(spec)]],
   auth |-> [build.table.auth EXCEPT ![spec.sni] = spec.auth]]

Tombstone(spec) == [build.table EXCEPT !.slot[spec.sni] = Dropped]

AfterFailure(spec) ==
  IF Carries(spec) THEN Install(spec, live.slot[spec.sni]) ELSE Tombstone(spec)

\* Permanent mistakes: a header-carried mode without a carrier or without the protocol it
\* needs, and an allow list that does not parse.
NoCarrier(spec) == ~ spec.declared
BadSources(spec) == spec.allow = "invalid"
Rejected(spec) == NoCarrier(spec) \/ BadSources(spec)

Advance(table) == build' = [build EXCEPT !.next = @ + 1, !.table = table]

Current == build.specs[build.next]

SkipDuplicate ==
  /\ Deciding(build.specs, Current.sni) # build.next
  /\ Advance(build.table)
  /\ UNCHANGED <<cache, used, evictAt>>

RejectSpec ==
  /\ Deciding(build.specs, Current.sni) = build.next
  /\ Rejected(Current)
  /\ Advance(Tombstone(Current))
  /\ UNCHANGED <<cache, used, evictAt>>

BuildPassthrough ==
  /\ Deciding(build.specs, Current.sni) = build.next
  /\ ~Rejected(Current)
  /\ Current.auth = Passthrough
  /\ Advance(IF Current.upstreams THEN Install(Current, Route(Current, 0)) ELSE AfterFailure(Current))
  /\ UNCHANGED <<cache, used, evictAt>>

\* A chain and key that do not belong together never enter the cache.
BuildMismatched ==
  /\ Deciding(build.specs, Current.sni) = build.next
  /\ ~Rejected(Current)
  /\ Current.auth # Passthrough
  /\ Current.cert = "mismatched"
  /\ Advance(AfterFailure(Current))
  /\ UNCHANGED <<cache, used, evictAt>>

BuildTerminating ==
  /\ Deciding(build.specs, Current.sni) = build.next
  /\ ~Rejected(Current)
  /\ Current.auth # Passthrough
  /\ Current.cert # "mismatched"
  /\ LET found == LookupOrBuild(KeyOf(Current), Referenced({live, build.table}, conn))
     IN /\ cache' = found.cache
        /\ evictAt' = found.evictAt
        /\ used' = used \cup {KeyOf(Current)}
        /\ Advance(IF Current.upstreams THEN Install(Current, Route(Current, found.id))
                   ELSE AfterFailure(Current))

BuildSpec ==
  /\ build.pc = "building"
  /\ build.next <= Len(build.specs)
  /\ \/ SkipDuplicate
     \/ RejectSpec
     \/ BuildPassthrough
     \/ BuildMismatched
     \/ BuildTerminating
  /\ UNCHANGED <<live, applied, conn>>

(***************************************************************************)
(* update_config                                                           *)
(***************************************************************************)
BeginUpdate(specs) ==
  /\ build.pc = "idle"
  /\ build' = [Idle EXCEPT !.pc = "building", !.specs = specs]
  /\ ClearUsed(Referenced({live}, conn))
  /\ UNCHANGED <<live, applied, conn>>

Built == build.pc = "building" /\ build.next > Len(build.specs)

\* A protection or ingress section that does not validate ends the update:
\* the table just built is dropped, its marks and configurations stay.
AbandonUpdate ==
  /\ Built
  /\ build' = Idle
  /\ UNCHANGED <<live, applied, cache, used, evictAt, conn>>

Swap ==
  /\ Built
  /\ live' = build.table
  /\ applied' = DecidingSpecs(build.specs)
  /\ build' = [Idle EXCEPT !.pc = "swapped"]
  /\ UNCHANGED <<cache, used, evictAt, conn>>

Sweep ==
  /\ build.pc = "swapped"
  /\ RetainUsed
  /\ build' = Idle
  /\ UNCHANGED <<live, applied, evictAt, conn>>

(***************************************************************************)
(* Connection tasks and resolve_connection                                 *)
(***************************************************************************)
Lookup(c, name, allowDefault) ==
  /\ conn[c] = {}
  /\ IsRoute(ResolveWith(live, name, allowDefault))
  /\ conn' = [conn EXCEPT ![c] = {ResolveWith(live, name, allowDefault).tls}]
  /\ UNCHANGED <<live, applied, build, cache, used, evictAt>>

\* The JavaScript thread answers a suspended connection with a terminating
\* route of its own: the configuration is cached, never marked.
ResolveConnection(c, key) ==
  /\ build.pc = "idle"
  /\ Cardinality(conn[c]) = 1
  /\ LET found == LookupOrBuild(key, Referenced({live}, conn))
     IN /\ cache' = found.cache
        /\ evictAt' = found.evictAt
        /\ conn' = [conn EXCEPT ![c] = @ \cup {[key |-> key, id |-> found.id]}]
  /\ UNCHANGED <<live, applied, build, used>>

Finish(c) ==
  /\ conn[c] # {}
  /\ conn' = [conn EXCEPT ![c] = {}]
  /\ UNCHANGED <<live, applied, build, cache, used, evictAt>>

Init ==
  /\ live = EmptyTable
  /\ applied = DecidingSpecs(<<>>)
  /\ build = Idle
  /\ cache = [k \in {} |-> 0]
  /\ used = {}
  /\ evictAt = MinEvictAt
  /\ conn = [c \in Conns |-> {}]

Next ==
  \/ \E specs \in SpecLists : BeginUpdate(specs)
  \/ BuildSpec
  \/ AbandonUpdate
  \/ Swap
  \/ Sweep
  \/ \E c \in Conns, name \in ClientNames, allowDefault \in BOOLEAN :
       Lookup(c, name, allowDefault)
  \/ \E c \in Conns, key \in ResolvedKeys : ResolveConnection(c, key)
  \/ \E c \in Conns : Finish(c)

Spec == Init /\ [][Next]_vars

-----------------------------------------------------------------------------
\* Every variable has its type.
TypeOK ==
  /\ \A table \in {live, build.table} : \A s \in Snis :
       /\ table.slot[s].kind \in {"absent", "dropped", "route"}
       /\ IsRoute(table.slot[s]) => table.slot[s].sni = s
       /\ IsRoute(table.slot[s]) <=> table.auth[s] # NoAuth
  /\ \A s \in Snis : applied[s].sni \in {s, NoName}
  /\ build.pc \in {"idle", "building", "swapped"}
  /\ IsInjective(cache)
  /\ evictAt \in Nat /\ evictAt >= MinEvictAt

Configured(sni) == applied[sni] # NoSpec

\* The most specific configured SNI that covers a client name.
Covering(name) ==
  IF name \in ExactSnis /\ Configured(name) THEN name
  ELSE IF WildcardOf[name] # NoName /\ Configured(WildcardOf[name]) THEN WildcardOf[name]
  ELSE DefaultSni

Healthy(spec) ==
  /\ ~Rejected(spec)
  /\ spec.upstreams
  /\ spec.auth # Passthrough => spec.cert # "mismatched"

\* A name is served only by the route configured for it most specifically,
\* however that route fared: a rejected route never falls through to a
\* wildcard or the default, a rejected wildcard never hides a healthy exact
\* route, and a healthy route is always served (router.rs resolve_with).
ServedByOwnRoute ==
  \A name \in ClientNames, allowDefault \in BOOLEAN :
    LET sni == Covering(name)
        found == ResolveWith(live, name, allowDefault)
        open == allowDefault \/ sni # DefaultSni
    IN /\ IsRoute(found) => found.sni = sni /\ open /\ Configured(sni)
       /\ Configured(sni) /\ Healthy(applied[sni]) /\ open
            => IsRoute(found)

\* Whatever a route was carried through, it enforces what the spec now asks
\* for: the client-certificate verifier inside its TLS configuration, the
\* allow list and the failover policy; and a spec that is a permanent mistake
\* is not served at all (router.rs build_route_table).
EnforcesCurrentPolicy ==
  \A s \in Snis : IsRoute(live.slot[s]) =>
    LET spec == applied[s]
        route == live.slot[s]
    IN /\ ~Rejected(spec)
       /\ route.allow = spec.allow
       /\ route.failover = FailoverOf(spec)
       /\ IF spec.auth = Passthrough THEN route.tls = NoTls
          ELSE route.tls # NoTls /\ route.tls.key[2] = spec.auth

\* The configuration of every route of the live table, and of the one being
\* built, is the one the cache answers for its key: marks, sweeps, abandoned
\* updates and evictions never lose it (tls.rs retain_used).
LiveConfigsCached ==
  \A r \in RoutesOf(live) \cup RoutesOf(build.table) :
    r.tls # NoTls => r.tls.key \in DOMAIN cache /\ cache[r.tls.key] = r.tls.id

\* A reload that leaves a route's certificate, key and policy alone leaves
\* its session store and ticket keys alone (tls.rs TlsConfigCache).
SessionsSurviveReload ==
  [][\A s \in Snis :
       /\ IsRoute(live.slot[s]) /\ IsRoute(live'.slot[s])
       /\ live.slot[s].tls.key = live'.slot[s].tls.key
       => live'.slot[s].tls.id = live.slot[s].tls.id]_vars

\* Neither abandoned reloads nor certificates that connections bring pile up:
\* the cache stays within evict_at, and evict_at within its floor and twice
\* what two tables and the connections can hold (tls.rs evict_unreferenced).
CacheBounded ==
  /\ Cardinality(DOMAIN cache) <= evictAt
  /\ evictAt <= Max({MinEvictAt, 2 * (2 * Cardinality(Snis) + 2 * Cardinality(Conns) + 1)})

\* The cache holds what is live and not much besides (tls.rs TlsConfigCache).
CacheSound == TypeOK /\ LiveConfigsCached /\ CacheBounded

\* A name gets its own route, with a TLS configuration the cache still holds.
RoutesSound == CacheSound /\ ServedByOwnRoute

=============================================================================
