-------------------------- MODULE MCFileSelection --------------------------
(* A source file, a generated one in an ignored and pruned directory, and a *)
(* symlink to the first.                                                    *)
EXTENDS FileSelection

CONSTANTS source, generated, link, a, b

Targets == [f \in Links |-> source]

\* Only the source has two versions.
Versions == [f \in Files |-> IF f = source THEN {a, b} ELSE {a}]

Scope(named, within, excluded) ==
    [named |-> named, within |-> within, directoryLink |-> FALSE, excluded |-> excluded]

Scopes == {Scope({}, Files, {}), Scope({}, Files, {source}), Scope({source}, {}, {}),
           Scope({link}, {}, {}), Scope({generated}, {link}, {}),
           [Scope({source}, {}, {}) EXCEPT !.directoryLink = TRUE]}
============================================================================
