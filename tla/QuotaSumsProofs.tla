--------------------------- MODULE QuotaSumsProofs ---------------------------
(***************************************************************************)
(* The facts about sums of quotas that the proofs about the controllers    *)
(* rest on.                                                                *)
(***************************************************************************)
EXTENDS QuotaSums, FiniteSetTheorems, TLAPS

\* The quota units that SumOver counts (sharedTeamQuotaForWorkspace's running
\* totals) form a finite set.
LEMMA UnitsFinite ==
    ASSUME NEW S, IsFiniteSet(S), NEW f \in [S -> Nat]
    PROVE  IsFiniteSet(Units(f))
<1> DEFINE T == {{x} \X (1..f[x]) : x \in S}
           g == [x \in S |-> {x} \X (1..f[x])]
<1>1. g \in Surjection(S, T)
  BY DEF Surjection
<1>2. IsFiniteSet(T)
  <2> HIDE DEF T, g
  <2> QED BY <1>1, FS_Surjection
<1>3. ASSUME NEW A \in T PROVE IsFiniteSet(A)
  <2>1. PICK x \in S : A = {x} \X (1..f[x])
    OBVIOUS
  <2>2. IsFiniteSet({x})
    BY FS_Singleton
  <2>3. IsFiniteSet(1..f[x])
    <3>1. 1 \in Int /\ f[x] \in Int
      OBVIOUS
    <3> QED BY <3>1, FS_Interval
  <2> QED BY <2>1, <2>2, <2>3, FS_Product
<1>4. IsFiniteSet(UNION T)
  <2> HIDE DEF T
  <2> QED BY <1>2, <1>3, FS_UNION
<1> QED BY <1>4 DEF Units

\* Sums of quotas are natural numbers.
LEMMA SumNat ==
    ASSUME NEW S, IsFiniteSet(S), NEW f \in [S -> Nat]
    PROVE  SumOver(f) \in Nat
BY UnitsFinite, FS_CardinalityType DEF SumOver

\* A loop over more objects, or one that charges each of them more, adds up to
\* no less: applySharedTeamPool sums over the listed teams, Kueue over all Cohorts.
LEMMA SumCovers ==
    ASSUME NEW S, IsFiniteSet(S), NEW f \in [S -> Nat],
           NEW T, IsFiniteSet(T), NEW g \in [T -> Nat],
           \A x \in S : f[x] = 0 \/ (x \in T /\ f[x] <= g[x])
    PROVE  SumOver(f) <= SumOver(g)
<1>1. Units(f) \subseteq Units(g)
  BY DEF Units
<1> QED BY <1>1, UnitsFinite, FS_Subset DEF SumOver

\* Charging each workspace less charges the team less (the accounting of
\* subtractWorkspaceGuarantee is monotone).
LEMMA SumMonotone ==
    ASSUME NEW S, IsFiniteSet(S), NEW f \in [S -> Nat], NEW g \in [S -> Nat],
           \A x \in S : f[x] <= g[x]
    PROVE  SumOver(f) <= SumOver(g)
BY SumCovers
=============================================================================
