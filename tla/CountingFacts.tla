--------------------------- MODULE CountingFacts ---------------------------
(***************************************************************************)
(* The facts about finite sets and natural numbers that the proofs about   *)
(* PetHash count with.  The modules that use them take CountingFacts as a  *)
(* hypothesis, and PetHashProofs discharges it from the library: with the  *)
(* whole library in scope every leaf of those modules is slow.             *)
(***************************************************************************)
EXTENDS Integers, FiniteSets, Functions

(* A finite set has a size, and only the empty set has size 0.             *)
SizesAreNatural ==
    \A S : IsFiniteSet(S) =>
        Cardinality(S) \in Nat /\ (Cardinality(S) = 0 <=> S = {})

(* A subset is no larger, and equal if it is as large.                     *)
SubsetsAreSmaller ==
    \A S : IsFiniteSet(S) =>
        \A T \in SUBSET S : /\ IsFiniteSet(T)
                            /\ Cardinality(T) <= Cardinality(S)
                            /\ Cardinality(S) = Cardinality(T) => S = T

(* One element more or less.                                               *)
ElementsCountOne ==
    \A S, x : IsFiniteSet(S) =>
        /\ IsFiniteSet(S \cup {x}) /\ IsFiniteSet(S \ {x})
        /\ Cardinality(S \cup {x}) = IF x \in S THEN Cardinality(S) ELSE Cardinality(S) + 1
        /\ Cardinality(S \ {x}) = IF x \in S THEN Cardinality(S) - 1 ELSE Cardinality(S)

UnionsAdd ==
    \A S, T : IsFiniteSet(S) /\ IsFiniteSet(T) =>
        Cardinality(S \cup T) = Cardinality(S) + Cardinality(T) - Cardinality(S \cap T)

ProductsMultiply ==
    \A S, T : IsFiniteSet(S) /\ IsFiniteSet(T) =>
        IsFiniteSet(S \X T) /\ Cardinality(S \X T) = Cardinality(S) * Cardinality(T)

RangesCount ==
    \A n \in Nat : IsFiniteSet(0 .. n - 1) /\ Cardinality(0 .. n - 1) = n

BijectionsKeepSize ==
    \A S, T : IsFiniteSet(S) /\ ExistsBijection(S, T) =>
        IsFiniteSet(T) /\ Cardinality(T) = Cardinality(S)

(* A non-empty set of naturals has a least element.                        *)
LeastNaturals ==
    \A S \in SUBSET Nat : S # {} => \E e \in S : \A f \in S : e <= f

CountingFacts ==
    /\ IsFiniteSet({}) /\ SizesAreNatural /\ SubsetsAreSmaller
    /\ ElementsCountOne /\ UnionsAdd /\ ProductsMultiply
    /\ RangesCount /\ BijectionsKeepSize /\ LeastNaturals
===========================================================================
