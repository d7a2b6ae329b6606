------------------------------ MODULE CrudWiring ------------------------------
(***************************************************************************)
(* crud-gen: the factories of a resource.  They make the providers of an   *)
(* entity, its service and its loader, and its surfaces, a resolver and a  *)
(* controller, which inject them by token.  An application may bring any   *)
(* of them itself.                                                         *)
(***************************************************************************)
EXTENDS FiniteSets

CONSTANTS None

\* Options: backend, None or [service, loader, key]; graphql, None or
\* [resolver, service, loader]; rest, None or [service]; and the number of
\* primary columns.  "service" and "loader" are the default tokens.
Generated(o) == o.graphql # None /\ o.graphql.resolver = "generated"

\* normalizeBackendOptions(): what the surfaces lack is made.
NeedsService(o) ==
    /\ o.backend.service = None
    /\ \/ o.rest # None /\ o.rest.service = None
       \/ Generated(o) /\ o.graphql.service = None

NeedsLoader(o) == o.backend.loader = None /\ Generated(o) /\ o.graphql.loader = None

\* inferPrimaryDatabaseKey(): the key of a loader that is made.
WiringRefused(o) ==
    o.backend # None /\ NeedsLoader(o) /\ o.backend.key = None /\ o.primaries # 1

Or(a, b) == IF a # None THEN a ELSE b

ServiceToken(o) ==
    IF o.backend = None THEN None
    ELSE Or(o.backend.service, IF NeedsService(o) THEN "service" ELSE None)

LoaderToken(o) ==
    IF o.backend = None THEN None
    ELSE Or(o.backend.loader, IF NeedsLoader(o) \/ o.backend.key # None THEN "loader" ELSE None)

\* CrudGenBackendFactory()
Provided(o) == {ServiceToken(o), LoaderToken(o)} \ {None}

\* CrudGenGraphqlFactory() and the constructor of the resolver.
ResolverInjects(o) ==
    IF Generated(o)
      THEN {Or(Or(o.graphql.service, ServiceToken(o)), "service"),
            Or(Or(o.graphql.loader, LoaderToken(o)), "loader")}
      ELSE {}

ControllerInjects(o) ==
    IF o.rest # None THEN {Or(Or(o.rest.service, ServiceToken(o)), "service")} ELSE {}

\* DataLoaderFactory(); a loader that is brought injects what it likes.
LoaderInjects(o) ==
    IF LoaderToken(o) = "loader" THEN {Or(ServiceToken(o), "service")} ELSE {}

\* The tokens that the application named, and provides.
Named(o) ==
    (IF Generated(o) THEN {o.graphql.service, o.graphql.loader} ELSE {})
      \cup (IF o.rest # None THEN {o.rest.service} ELSE {})

\* The container finds what is injected, or the application does not start.
Starts(o) ==
    /\ ~WiringRefused(o)
    /\ ResolverInjects(o) \cup ControllerInjects(o) \cup LoaderInjects(o)
         \subseteq Provided(o) \cup Named(o)
=============================================================================
