----------------------------- MODULE MCAuthorization -----------------------------
(* TLC's instances of Authorization: three roles, two of them of one slug. *)
EXTENDS Authorization, TLC

CONSTANTS fin, FIN, hr, f, h, a, b, ann, cli, staff, odd

MCSlug == (fin :> f) @@ (FIN :> f) @@ (hr :> h)

Off == [mapped |-> TRUE, enabled |-> FALSE, complete |-> TRUE, endpoints |-> [mode |-> "none", rules |-> {}]]
On == [Off EXCEPT !.enabled = TRUE]
Absent == [Off EXCEPT !.mapped = FALSE]
Incomplete == [On EXCEPT !.complete = FALSE]
Lock(mode, rules) == [On EXCEPT !.endpoints = [mode |-> mode, rules |-> rules]]
Denied == Lock("deny", {[methods |-> {}, path |-> <<a>>, prefix |-> TRUE]})
DeniedPath == Lock("deny", {[methods |-> {}, path |-> <<a, b>>, prefix |-> FALSE]})
ReadOnly == Lock("allow", {[methods |-> {"GET"}, path |-> <<Empty, a>>, prefix |-> FALSE]})
Broken == Lock("malformed", {})

MCRoleMaps == {m \in [Roles -> {Absent, On, Off, Incomplete, Denied, DeniedPath, ReadOnly, Broken}] :
                  m[hr] \in {Absent, On} /\ m[FIN] \in {Absent, On}}

To(u, g, c) == [subjects |-> u, groups |-> g, workloads |-> c]
MCGrantDocs == [Slugs -> {To({}, {}, {}), To({ann}, {}, {}), To({}, {staff}, {}), To({}, {}, {cli})}]

MCPrincipals == {p \in Principal : p.azp = cli \/ p.oid = NoOne}

MCPaths == {<<f>>, <<f, a>>, <<h, b>>, <<a, b>>, <<Empty, a, b>>, <<a, Empty, b>>, <<a, b, Empty>>, <<a, Dots>>,
            <<Preflight, f>>, <<Preflight, h>>}
==================================================================================
