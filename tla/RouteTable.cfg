\* Edits, rotations and mistakes of three SNIs, with a connection that keeps a route.
SPECIFICATION Spec
CONSTANTS
  ExactSnis = {"a.w"}
  WildcardSnis = {"*.w"}
  OtherNames = {"b.w", "z"}
  WildcardOf <- MCWildcardOf
  SpecLists <- MCSpecLists
  ResolvedKeys <- MCResolvedKeys
  Conns = {c1}
  MinEvictAt = 2
INVARIANTS RoutesSound EnforcesCurrentPolicy
PROPERTY SessionsSurviveReload
