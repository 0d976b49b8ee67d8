---------------------------- MODULE MCDiscovery ----------------------------
(* Instances of Discovery for TLC. *)
EXTENDS Discovery

CONSTANTS f, g, a, Acme

\* One slug in two families: what an aggregator sights under one, the pack and the
\* careers page have under the other, and a portfolio and the crawl name the company.
TwoFamilies == {f, g}
OneSlug == {a}
OneCompany == {Acme}
ItsSlug == [c \in OneCompany |-> <<a>>]
ItsLinks == [c \in OneCompany |-> {<<g, a>>}]
Crawled == <<Acme>>
Sighted == {<<f, a>>}
Packed == {<<g, a>>}
=============================================================================
