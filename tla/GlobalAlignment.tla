-------------------------- MODULE GlobalAlignment --------------------------
(***************************************************************************)
(* align_all_streams of the homography web server up to the values its     *)
(* optimizer starts from: pairs of streams that share markers are joined,  *)
(* and from the anchor stream the joins are followed until every stream    *)
(* has its transform to the shared map, or the alignment is refused.       *)
(*                                                                         *)
(* A transform is a permutation of three points: like the projective maps  *)
(* of the code, these do not commute.  Markers are measured exactly, so    *)
(* that the joins of a cycle agree and the optimizer changes nothing.      *)
(***************************************************************************)
EXTENDS Integers, Sequences, FiniteSets, Functions

CONSTANTS
  Streams,    \* a set of numbers: streams are taken in their order
  Poses       \* how a stream may lie on the site

Points == 1 .. 3

ConstantAssumption ==
  /\ Streams \subseteq Nat /\ IsFiniteSet(Streams) /\ Poses # {}
  /\ \A p \in Poses : p \in [Points -> Points] /\ Range(p) = Points

VARIABLES
  pose,        \* per stream, external: from its own map to the site
  joined,      \* the pairs with enough markers in common, not on a line
  anchor,      \* the stream whose map becomes the shared one
  transforms,  \* per stream reached so far: from its own map to the shared one
  pending,     \* the streams whose joins are still to be followed
  outcome

vars == <<pose, joined, anchor, transforms, pending, outcome>>

matrix_multiply(f, g) == [x \in Points |-> f[g[x]]]
invert_matrix(f) == [x \in Points |-> CHOOSE y \in Points : f[y] = x]
Identity == [x \in Points |-> x]

-----------------------------------------------------------------------------
\* align_local_channel of a pair, the lower stream first ...
Measured(s, t) == matrix_multiply(invert_matrix(pose[t]), pose[s])

\* ... and what adjacency holds of it for either stream.
SourceToDestination(s, t) ==
  IF s < t THEN Measured(s, t) ELSE invert_matrix(Measured(t, s))

Joined(s, t) == <<s, t>> \in joined \/ <<t, s>> \in joined

\* The sequences of the members of S in their order: there is one.
InOrder(S) ==
  {q \in [1 .. Cardinality(S) -> S] :
     Range(q) = S /\ \A i, j \in DOMAIN q : i < j => q[i] < q[j]}

Onward(s, t) == matrix_multiply(transforms[s], invert_matrix(SourceToDestination(s, t)))

\* One turn of the loop: the joins of the first pending stream, in order, to the
\* streams that were not reached before.
Follow ==
  LET s == Head(pending)
      new == {t \in Streams : Joined(s, t) /\ t \notin DOMAIN transforms}
  IN /\ outcome = "joining" /\ pending # <<>>
     /\ transforms' = [t \in DOMAIN transforms \cup new |->
                         IF t \in DOMAIN transforms THEN transforms[t] ELSE Onward(s, t)]
     /\ \E queue \in InOrder(new) : pending' = Tail(pending) \o queue
     /\ UNCHANGED <<pose, joined, anchor, outcome>>

\* A stream that was not reached refuses the whole alignment.
Settle ==
  /\ outcome = "joining" /\ pending = <<>>
  /\ outcome' = IF DOMAIN transforms = Streams THEN "aligned" ELSE "refused"
  /\ UNCHANGED <<pose, joined, anchor, transforms, pending>>

Init ==
  /\ pose \in [Streams -> Poses] /\ anchor \in Streams
  /\ joined \in SUBSET {p \in Streams \X Streams : p[1] < p[2]}
  /\ transforms = [s \in {anchor} |-> Identity]
  /\ pending = <<anchor>> /\ outcome = "joining"

Next == Follow \/ Settle

Spec == Init /\ [][Next]_vars

-----------------------------------------------------------------------------
TypeOK ==
  /\ DOMAIN transforms \subseteq Streams /\ pending \in Seq(DOMAIN transforms)
  /\ \A s \in DOMAIN transforms : Range(transforms[s]) = Points
  /\ outcome \in {"joining", "aligned", "refused"}

\* Whatever pairs are joined and whichever way round they were measured, two
\* streams put a point of the site at the same place of the shared map.
StreamsAgree ==
  \A s, t \in DOMAIN transforms :
    matrix_multiply(transforms[s], invert_matrix(pose[s]))
      = matrix_multiply(transforms[t], invert_matrix(pose[t]))

\* No set of streams that holds the anchor is cut off from the others.
Connected ==
  \A part \in SUBSET Streams :
    anchor \in part /\ part # Streams => \E s \in part, t \in Streams \ part : Joined(s, t)

\* An alignment is refused if and only if the joins leave a stream apart, and
\* the shared map is the anchor's.
RefusedIfApart ==
  /\ outcome = "aligned" => Connected
  /\ outcome = "refused" => ~ Connected
  /\ transforms[anchor] = Identity

\* The invariants of the alignment: one map for all streams, or none.
Safety == TypeOK /\ StreamsAgree /\ RefusedIfApart

=============================================================================
