-------------------------- MODULE CallbackCacheMC --------------------------
(***************************************************************************)
(* Small instances of CallbackCache for TLC.                               *)
(***************************************************************************)
EXTENDS CallbackCache, TLC

CONSTANTS s1, s2, s3

ThreeSessions == {s1, s2, s3}

MCBodies == {"a", "b", "c", "big", "d", "raw", "bad"}
MCLevels == {0, 1, 3}
MCLayouts == {"rom0", "rom1"}

BodySize == [a |-> 2, b |-> 3, c |-> 4, d |-> 1, big |-> 9, raw |-> 1, bad |-> 1]
MCSize == [k \in Keys |-> BodySize[k.body]]

BodyRank == [a |-> 4, b |-> 3, c |-> 2, big |-> 1, d |-> 6, raw |-> 5, bad |-> 0]
MCHash == [k \in Keys |-> 7 * k.level + BodyRank[k.body]]

Plan3(x, y, z) == <<x, y, z>>
Project(plan, level, layout) == [plan |-> plan, level |-> level, layout |-> layout]

\* The same callbacks at the unset and at the standard level and with other
\* ROM layouts, one callback twice, one that fails, one that cannot be
\* encoded, one too large for the cache, and more than MaxEntries of them.
AB == Project(Plan3("a", "b", NoBody), 0, "rom0")
ACB == Project(Plan3("a", "c", "b"), 3, "rom1")
ABD == Project(Plan3("a", "b", "d"), 3, "rom1")
MCProjects ==
  { AB, ACB, ABD,
    Project(Plan3("b", "b", NoBody), 1, "rom0"),
    Project(Plan3("bad", "bad", "a"), 3, "rom0"),
    Project(Plan3("raw", "big", "a"), 3, "rom1") }

\* Any project beside two that share callbacks: the third session reads a
\* generation while the others hit its entries or replace it.
MCWorkloads == {(s1 :> p) @@ (s2 :> q) @@ (s3 :> AB) : p \in MCProjects, q \in {ACB, ABD}}
=============================================================================
