------------------------------- MODULE Signature -------------------------------
(***************************************************************************)
(* The signature of a request of the HTTP API (prepareQueryString and      *)
(* Authentication of api/handlers.go): the query in a canonical form,      *)
(* signed with the method, the path and the secret of the application.     *)
(*                                                                         *)
(* A query is a function from its keys to the sequences of their values,   *)
(* auth_signature left out; a value is the set of its comma-separated      *)
(* parts.  HMAC is taken to be injective, so a signature is as good as     *)
(* what it signs.                                                          *)
(***************************************************************************)
EXTENDS Naturals, SequencesExt

CONSTANTS
    Keys,           \* keys of queries, in upper and lower case
    Lower,          \* strings.ToLower of each
    Rank            \* the order of strings

ASSUME SignatureAssumption ==
    /\ Lower \in [Keys -> Keys]
    /\ Rank \in [Keys -> Nat]
    /\ \A k \in Keys : Lower[Lower[k]] = Lower[k]
    /\ \A j, k \in Keys : Rank[j] = Rank[k] => j = k

NoValue == {}

\* url.Values.Get: the first value of the key.
Get(query, key) == IF key \in DOMAIN query THEN Head(query[key]) ELSE NoValue

\* sort.Strings and what a client does: the members of S one after the other, their
\* ranks rising.
Sorted(S, rank) ==
    CHOOSE order \in [1 .. Cardinality(S) -> S] :
        /\ IsInjective(order)
        /\ \A i, j \in DOMAIN order : i < j => rank[order[i]] <= rank[order[j]]

\* The keys are lowercased, and what was lowercased is looked up: a piece for each key,
\* with the first of its values.
Pieces(query, keys) ==
    [i \in DOMAIN keys |-> <<Lower[keys[i]], <<Get(query, Lower[keys[i]])>>>>]

\* Mutant: the keys stay in the order of the map.
PrepareUnsorted(query) == Pieces(query, SetToSeq(DOMAIN query))

prepareQueryString(query) ==
    Pieces(query, Sorted(DOMAIN query, [k \in DOMAIN query |-> Rank[Lower[k]]]))

\* handlers.go:62: "The query parameters sorted by key, with keys converted to
\* lowercase, then joined as in the query string": all values of a key, in its piece.
Documented(query) ==
    LET pieces == {<<Lower[k], query[k]>> : k \in DOMAIN query}
    IN  Sorted(pieces, [p \in pieces |-> Rank[p[1]]])

\* A query in which the two are meant to agree: its keys are in lower case, and none
\* has a second value.
Canonical(query) == \A k \in DOMAIN query : Lower[k] = k /\ query[k] = <<Head(query[k])>>
===============================================================================
