------------------------------- MODULE MCDataPath -------------------------------
EXTENDS DataPath

MCKeyHeaders == {"x-vendor-key", "x-api-key-id", "x-api-secret"}
MCCustom == {"x-trace", "token", "host", "x-vendor-key"}
MCPlatform == {"host", "x-ms-client-principal"}

Single == {{h} : h \in CREDENTIAL_HEADER_NAMES \cup HOP_BY_HOP_HEADER_NAMES \cup FORWARD_HEADER_ALLOWLIST
                        \cup CREDENTIAL_HEADERS \cup KeyHeaders \cup XMs \cup {"x-other"}}

\* Documents of depth two with one key that is credential-shaped everywhere,
\* one that is so only in responses, and one that never is.
Field == {"client_secret", "token", "item"}
Nothing == {Leaf, Arr(<<>>), Obj(<<>>)}
Flat == Nothing \cup {Obj([k \in {f} |-> Leaf]) : f \in Field}
Over(flat) ==
    flat \cup {Obj([k \in {f} |-> t]) : f \in Field, t \in flat}
         \cup {Arr(<<t>>) : t \in flat} \cup {Arr(<<t, u>>) : t \in flat, u \in flat}
         \cup {Obj([k \in {"item", f} |-> IF k = f THEN t ELSE u]) : f \in Field, t \in flat, u \in flat}
Tree == Over(Flat)

\* They and what redaction makes of them.
Redactions == Flat \cup {Redacted} \cup {Obj([k \in {f} |-> Redacted]) : f \in Field}
MCDocuments == Over(Redactions)
MCHeight == [t \in MCDocuments |->
    IF t \in Nothing \cup {Redacted} THEN 0 ELSE IF t \in Redactions THEN 1 ELSE 2]

Forms == {<<>>, <<"item">>, <<"token">>, <<"client_secret">>, <<"item", "client_secret">>, <<"item", "token">>}
Shallow == Flat \cup {Obj([k \in {"item"} |-> t]) : t \in Flat} \cup {Arr(<<Leaf, t>>) : t \in Flat}
Bodies ==
    {NoBody} \cup {Body("json", t, <<>>, large) : t \in Shallow, large \in BOOLEAN}
             \cup {Body("other", t, <<>>, large) : t \in Flat, large \in BOOLEAN}
             \cup {Body("form", Leaf, f, large) : f \in Forms, large \in BOOLEAN}
             \cup {Body("json-broken", t, <<>>, large) : t \in Flat, large \in BOOLEAN}

Request(via, headers, query, method, body) ==
    [via |-> via, headers |-> headers, query |-> query, method |-> method, body |-> body]

\* Every header with every library; every query and every body by themselves.
MCInputs ==
    {Request(via, h, {}, "GET", NoBody) : via \in Entries, h \in Single \cup {{}}}
        \cup {Request("raw", {"accept"}, {q}, "GET", NoBody) : q \in CREDENTIAL_HEADER_NAMES \cup {"page"}}
        \cup {Request("raw", {}, {}, "GET", b) : b \in Bodies}
        \cup {Request("raw", {h}, {}, "POST", b) : h \in {"content-type", "x-secret"}, b \in Bodies}

MCResponses ==
    {[headers |-> {"content-type"}, type |-> "json", tree |-> t] : t \in Tree}
        \cup {[headers |-> {"content-type"}, type |-> "other", tree |-> t] : t \in Flat}
        \cup {[headers |-> h, type |-> "json", tree |-> Leaf] : h \in Single}
================================================================================
