------------------------------ MODULE Vouching ------------------------------
(***************************************************************************)
(* What it means for a pinned anchor to vouch for an embedded certificate. *)
(* `issued` is a set of pairs <<certificate, issuer>>: Certificate::       *)
(* issued_by of rust/openssl/src/certificate.rs, as a relation.            *)
(***************************************************************************)

\* S holds every embedded copy of an anchor and every embedded certificate
\* that an anchor, or a member of S, issued.
ClosedUnderIssuing(S, embedded, anchors, issued) ==
    /\ embedded \cap anchors \subseteq S
    /\ \A c \in embedded :
         (\E i \in anchors \cup S : <<c, i>> \in issued) => c \in S

\* The embedded certificates an anchor vouched for, directly or through
\* certificates it vouched for: the least closed set.
Vouched(embedded, anchors, issued) ==
    {c \in embedded :
        \A S \in SUBSET embedded :
            ClosedUnderIssuing(S, embedded, anchors, issued) => c \in S}
=============================================================================
