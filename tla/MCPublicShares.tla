--------------------------- MODULE MCPublicShares ---------------------------
(***************************************************************************)
(* An instance of PublicShares for TLC: folder m, whose manual is public,   *)
(* lies under n and is transferred to the root of another workspace, where  *)
(* o is.                                                                    *)
(***************************************************************************)
EXTENDS PublicShares, TLC

CONSTANTS m, n, o, d1, d2, u, w1, w2, a, b, r1

Nested ==
    [k \in Folders |-> CASE k = m -> [ws |-> w1, live |-> TRUE, path |-> <<b, a>>]
                         [] k = n -> [ws |-> w1, live |-> TRUE, path |-> <<b>>]
                         [] OTHER -> [ws |-> w1, live |-> TRUE, path |-> <<a>>]]

DocsApart == [k \in Docs |-> [ws |-> w1, folder |-> IF k = d1 THEN m ELSE o,
                              live |-> TRUE, canonical |-> TRUE]]

OneLink == <<[ws |-> w1, target |-> m, author |-> u, secret |-> FALSE,
              revoked |-> FALSE, expired |-> FALSE]>>
=============================================================================
