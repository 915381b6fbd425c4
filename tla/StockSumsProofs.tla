--------------------------- MODULE StockSumsProofs ---------------------------
(***************************************************************************)
(* Facts about sums over sets of tasks, used by the proofs about the       *)
(* modules that keep counters of such sums.                                *)
(***************************************************************************)
EXTENDS StockSums, FiniteSetTheorems, TLAPS

(* One holder's units of a row are as many as its quantity.                *)
LEMMA UnitsOfOne ==
    ASSUME NEW t, NEW n \in Nat
    PROVE  IsFiniteSet({t} \X (1 .. n)) /\ Cardinality({t} \X (1 .. n)) = n
<1>1. IsFiniteSet({t}) /\ Cardinality({t}) = 1
  BY FS_Singleton
<1>2. IsFiniteSet(1 .. n) /\ Cardinality(1 .. n) = n
  BY FS_Interval
<1>3. /\ IsFiniteSet({t} \X (1 .. n))
      /\ Cardinality({t} \X (1 .. n)) = Cardinality({t}) * Cardinality(1 .. n)
  BY <1>1, <1>2, FS_Product
<1>4. Cardinality({t}) * Cardinality(1 .. n) = n
  BY <1>1, <1>2
<1>. QED
  BY <1>3, <1>4

(* The units held by a finite set of holders are finite.                   *)
LEMMA UnitsFinite ==
    ASSUME NEW S, IsFiniteSet(S), NEW f, NEW r, \A t \in S : f[t][r] \in Nat
    PROVE  IsFiniteSet(Units(S, f, r))
<1>. DEFINE Held == {{t} \X (1 .. f[t][r]) : t \in S}
            g    == [t \in S |-> {t} \X (1 .. f[t][r])]
<1>1. IsFiniteSet(Held)
  <2>1. g \in Surjection(S, Held)
    BY DEF Surjection
  <2>. QED
    BY <2>1, FS_Surjection
<1>2. ASSUME NEW H \in Held PROVE IsFiniteSet(H)
  <2>1. PICK t \in S : H = {t} \X (1 .. f[t][r])
    OBVIOUS
  <2>2. f[t][r] \in Nat
    OBVIOUS
  <2>. QED
    BY <2>1, <2>2, UnitsOfOne
<1>. QED
  BY <1>1, <1>2, FS_UNION DEF Units

(* A sum of natural numbers is one.                                        *)
LEMMA SumType ==
    ASSUME NEW S, IsFiniteSet(S), NEW f, NEW r, \A t \in S : f[t][r] \in Nat
    PROVE  SumOver(S, f, r) \in Nat
BY UnitsFinite, FS_CardinalityType DEF SumOver

(* The sum depends on the quantities of S alone.                           *)
LEMMA SumCongruence ==
    ASSUME NEW S, NEW f, NEW g, NEW r, \A t \in S : f[t][r] = g[t][r]
    PROVE  SumOver(S, f, r) = SumOver(S, g, r)
BY DEF SumOver, Units

(* Disjoint sets of holders add up.                                        *)
LEMMA SumDisjoint ==
    ASSUME NEW S, IsFiniteSet(S), NEW T, IsFiniteSet(T), S \cap T = {},
           NEW f, NEW r, \A t \in S \cup T : f[t][r] \in Nat
    PROVE  SumOver(S \cup T, f, r) = SumOver(S, f, r) + SumOver(T, f, r)
<1>1. Units(S \cup T, f, r) = Units(S, f, r) \cup Units(T, f, r)
  BY DEF Units
<1>2. Units(S, f, r) \cap Units(T, f, r) = {}
  BY DEF Units
<1>3. IsFiniteSet(Units(S, f, r)) /\ IsFiniteSet(Units(T, f, r))
  BY UnitsFinite
<1>4. Cardinality(Units(S, f, r) \cap Units(T, f, r)) = 0
  BY <1>2, FS_EmptySet
<1>5. SumOver(S, f, r) \in Nat /\ SumOver(T, f, r) \in Nat
  BY SumType
<1>6. Cardinality(Units(S, f, r) \cup Units(T, f, r))
          = Cardinality(Units(S, f, r)) + Cardinality(Units(T, f, r))
              - Cardinality(Units(S, f, r) \cap Units(T, f, r))
  BY <1>3, FS_Union
<1>7. SumOver(S \cup T, f, r) = SumOver(S, f, r) + SumOver(T, f, r) - 0
  BY <1>1, <1>4, <1>6, Zenon DEF SumOver
<1>. QED
  BY <1>5, <1>7

(* No holder, no units.                                                    *)
LEMMA SumEmpty ==
    ASSUME NEW f, NEW r
    PROVE  SumOver({}, f, r) = 0
<1>1. Units({}, f, r) = {}
  BY DEF Units
<1>. QED
  BY <1>1, FS_EmptySet DEF SumOver

(* A single holder's sum is its quantity.                                  *)
LEMMA SumSingle ==
    ASSUME NEW t, NEW f, NEW r, f[t][r] \in Nat
    PROVE  SumOver({t}, f, r) = f[t][r]
<1>1. Units({t}, f, r) = {t} \X (1 .. f[t][r])
  BY DEF Units
<1>. QED
  BY <1>1, UnitsOfOne DEF SumOver

(* Taking a holder out of the sum takes away its quantity.                 *)
LEMMA SumRemove ==
    ASSUME NEW S, IsFiniteSet(S), NEW t \in S,
           NEW f, NEW r, \A u \in S : f[u][r] \in Nat
    PROVE  SumOver(S, f, r) = SumOver(S \ {t}, f, r) + f[t][r]
<1>1. S = (S \ {t}) \cup {t} /\ (S \ {t}) \cap {t} = {}
  OBVIOUS
<1>2. IsFiniteSet(S \ {t}) /\ IsFiniteSet({t})
  BY FS_RemoveElement, FS_Singleton
<1>3. SumOver((S \ {t}) \cup {t}, f, r) = SumOver(S \ {t}, f, r) + SumOver({t}, f, r)
  BY <1>1, <1>2, SumDisjoint
<1>. QED
  BY <1>1, <1>3, SumSingle

(* Changing one holder's quantity changes the sum by the difference.       *)
LEMMA SumChange ==
    ASSUME NEW S, IsFiniteSet(S), NEW t \in S, NEW f, NEW g, NEW r,
           \A u \in S : f[u][r] \in Nat /\ g[u][r] \in Nat,
           \A u \in S \ {t} : g[u][r] = f[u][r]
    PROVE  SumOver(S, g, r) = SumOver(S, f, r) - f[t][r] + g[t][r]
<1>1. SumOver(S, f, r) = SumOver(S \ {t}, f, r) + f[t][r]
  BY SumRemove
<1>2. SumOver(S, g, r) = SumOver(S \ {t}, g, r) + g[t][r]
  BY SumRemove
<1>3. SumOver(S \ {t}, g, r) = SumOver(S \ {t}, f, r)
  BY SumCongruence
<1>4. IsFiniteSet(S \ {t})
  BY FS_RemoveElement
<1>5. SumOver(S \ {t}, f, r) \in Nat
  BY <1>4, SumType
<1>6. f[t][r] \in Nat /\ g[t][r] \in Nat
  OBVIOUS
<1>. QED
  BY <1>1, <1>2, <1>3, <1>5, <1>6

(* A sum over a subset is no larger.                                       *)
LEMMA SumMonotonic ==
    ASSUME NEW S, IsFiniteSet(S), NEW T \in SUBSET S,
           NEW f, NEW r, \A t \in S : f[t][r] \in Nat
    PROVE  SumOver(T, f, r) <= SumOver(S, f, r)
<1>1. Units(T, f, r) \subseteq Units(S, f, r)
  BY DEF Units
<1>. QED
  BY <1>1, UnitsFinite, FS_Subset DEF SumOver

(* A sum of zeros is zero.                                                 *)
LEMMA SumOfZeros ==
    ASSUME NEW S, NEW f, NEW r, \A t \in S : f[t][r] = 0
    PROVE  SumOver(S, f, r) = 0
<1>1. Units(S, f, r) = {}
  BY DEF Units
<1>. QED
  BY <1>1, FS_EmptySet DEF SumOver

(* The sum of quantities that may be negative, as two sums of natural      *)
(* numbers.                                                                *)
Gains(S, f, r)  == [t \in S |-> [q \in {r} |-> IF f[t][q] > 0 THEN f[t][q] ELSE 0]]
Losses(S, f, r) == [t \in S |-> [q \in {r} |-> IF f[t][q] < 0 THEN 0 - f[t][q] ELSE 0]]

LEMMA NetIsTwoSums ==
    ASSUME NEW S, NEW f, NEW r, \A t \in S : f[t][r] \in Int
    PROVE  NetOver(S, f, r) = SumOver(S, Gains(S, f, r), r) - SumOver(S, Losses(S, f, r), r)
<1>1. ASSUME NEW t \in S
      PROVE  /\ 1 .. f[t][r] = 1 .. Gains(S, f, r)[t][r]
             /\ 1 .. 0 - f[t][r] = 1 .. Losses(S, f, r)[t][r]
  BY DEF Gains, Losses
<1>2. Units(S, f, r) = Units(S, Gains(S, f, r), r)
  BY <1>1 DEF Units
<1>3. Debts(S, f, r) = Units(S, Losses(S, f, r), r)
  BY <1>1 DEF Units, Debts
<1>. QED
  BY <1>2, <1>3 DEF NetOver, SumOver

LEMMA NetType ==
    ASSUME NEW S, IsFiniteSet(S), NEW f, NEW r, \A t \in S : f[t][r] \in Int
    PROVE  NetOver(S, f, r) \in Int
<1>1. \A t \in S : Gains(S, f, r)[t][r] \in Nat /\ Losses(S, f, r)[t][r] \in Nat
  BY DEF Gains, Losses
<1>2. SumOver(S, Gains(S, f, r), r) \in Nat /\ SumOver(S, Losses(S, f, r), r) \in Nat
  BY <1>1, SumType
<1>. QED
  BY <1>2, NetIsTwoSums

(* Changing one holder's quantity changes the sum by the difference.       *)
LEMMA NetChange ==
    ASSUME NEW S, IsFiniteSet(S), NEW t \in S, NEW f, NEW g, NEW r,
           \A u \in S : f[u][r] \in Int /\ g[u][r] \in Int,
           \A u \in S \ {t} : g[u][r] = f[u][r]
    PROVE  NetOver(S, g, r) = NetOver(S, f, r) - f[t][r] + g[t][r]
<1>. DEFINE fg == Gains(S, f, r)
            fl == Losses(S, f, r)
            gg == Gains(S, g, r)
            gl == Losses(S, g, r)
<1>1. /\ \A u \in S : fg[u][r] \in Nat /\ fl[u][r] \in Nat /\ gg[u][r] \in Nat /\ gl[u][r] \in Nat
      /\ \A u \in S \ {t} : gg[u][r] = fg[u][r] /\ gl[u][r] = fl[u][r]
      /\ f[t][r] = fg[t][r] - fl[t][r]
      /\ g[t][r] = gg[t][r] - gl[t][r]
  BY DEF Gains, Losses
<1>2. NetOver(S, f, r) = SumOver(S, fg, r) - SumOver(S, fl, r)
  BY NetIsTwoSums
<1>3. NetOver(S, g, r) = SumOver(S, gg, r) - SumOver(S, gl, r)
  BY NetIsTwoSums
<1>. HIDE DEF fg, fl, gg, gl
<1>4. SumOver(S, gg, r) = SumOver(S, fg, r) - fg[t][r] + gg[t][r]
  BY <1>1, SumChange
<1>5. SumOver(S, gl, r) = SumOver(S, fl, r) - fl[t][r] + gl[t][r]
  BY <1>1, SumChange
<1>6. SumOver(S, fg, r) \in Nat /\ SumOver(S, fl, r) \in Nat
  BY <1>1, SumType
<1>. QED
  BY <1>1, <1>2, <1>3, <1>4, <1>5, <1>6

(* Where nobody owes anything the two sums are the same.                   *)
LEMMA NetOfNaturals ==
    ASSUME NEW S, IsFiniteSet(S), NEW f, NEW r, \A t \in S : f[t][r] \in Nat
    PROVE  NetOver(S, f, r) = SumOver(S, f, r)
<1>1. \A t \in S : 1 .. 0 - f[t][r] = {}
  OBVIOUS
<1>2. Debts(S, f, r) = {}
  BY <1>1 DEF Debts
<1>3. Cardinality(Debts(S, f, r)) = 0
  BY <1>2, FS_EmptySet
<1>4. SumOver(S, f, r) \in Nat
  BY SumType
<1>. QED
  BY <1>3, <1>4 DEF NetOver
=============================================================================
