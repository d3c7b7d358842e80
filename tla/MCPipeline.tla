----------------------------- MODULE MCPipeline -----------------------------
(***************************************************************************)
(* Small instances of Pipeline.  Values: "odd" is a raw spelling of "v",   *)
(* "bad" never validates, and "w" is what a drifting store may hold, or    *)
(* what a schema that converts makes of "v".                               *)
(***************************************************************************)
EXTENDS Pipeline, TLC

CONSTANTS alice, aliceBot, bob, i1, i2, r1, r2

MCIdOf == [a \in Actors |-> IF a = bob THEN "bob" ELSE "alice"]

\* A schema that normalises, one that takes less, and one that converts what
\* it is given, also what it has converted before (a transform).
Normalise == [v \in Values |-> CASE v = "odd" -> "v" [] v = "bad" -> None [] OTHER -> v]
Narrowed  == [v \in Values |-> CASE v \in {"bad", "odd", "w"} -> None [] OTHER -> v]
Convert   == [v \in Values |-> IF v = "v" THEN "w" ELSE "v"]

Version(exposed, gated, write, idempotent, retries, parse) ==
  [exposed |-> exposed, gated |-> gated, write |-> write,
   idempotent |-> idempotent, retries |-> retries, parse |-> parse]

GatedWrite == Version(TRUE, TRUE, TRUE, FALSE, 0, Normalise)
Withdrawn  == Version(FALSE, TRUE, TRUE, FALSE, 0, Normalise)
ConvertedWrite == Version(TRUE, TRUE, TRUE, FALSE, 0, Convert)
NarrowedWrite == Version(TRUE, FALSE, TRUE, FALSE, 0, Narrowed)
IdempotentWrite == Version(TRUE, FALSE, TRUE, TRUE, 2, Normalise)

ApprovalVersions == {ConvertedWrite, Withdrawn, NarrowedWrite}
ReparseVersions == {ConvertedWrite}
RetryVersions == {IdempotentWrite, GatedWrite}

\* Two resumptions, and two actors with different identities, can be exchanged:
\* Pipeline only compares them.
Symmetry ==
  {p @@ q : p \in Permutations({r1, r2}), q \in Permutations({alice, bob})}
=============================================================================
