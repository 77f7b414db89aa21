---------------------------- MODULE MCRunSession ----------------------------
(***************************************************************************)
(* RunSession on a small instance, as two scopes: two runs that nest or    *)
(* follow one another with one value of everything else, or one run with   *)
(* every value.  Run identifiers are interchangeable.                      *)
(***************************************************************************)
EXTENDS RunSession, FiniteSets, TLC

CONSTANTS Spec1, Host1, Role1       \* what two runs have

Symmetry == Permutations(RunIds)

Used == {r \in RunIds : disk.runs[r] # NoRow} \cup OpenRuns \cup cut

Plain(r) == r.spec = Spec1 /\ r.host \in {Host1, UnknownHost} /\ r.target = NoTarget

Scope ==
    \/ Cardinality(Used) <= 1
    \/ /\ \A r \in RunIds : disk.runs[r] = NoRow \/ Plain(disk.runs[r])
       /\ \A d \in 1..top : Plain(sess[d]) /\ sess[d].arts \subseteq {Role1}
       /\ files \subseteq RunIds \X {Role1}

=============================================================================
