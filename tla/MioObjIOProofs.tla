--------------------------- MODULE MioObjIOProofs ----------------------------
(***************************************************************************)
(* Theorems about MioObjIO: what Motr is given is legal, the arrays of a   *)
(* call are large enough, and the size that is stored is that of the       *)
(* writes, for any vectors and any number of calls.                        *)
(*                                                                         *)
(* The lists of a call are built by folds over its vectors, so these are   *)
(* proofs by induction.  Induct is the principle, for a set; FoldExists    *)
(* and FoldRun turn a fold into a run: a function with the value after     *)
(* each of the elements.                                                   *)
(***************************************************************************)
EXTENDS MioObjIO, WellFoundedInduction, TLAPS

(* A set of natural numbers has a least element.                           *)
LEMMA Least ==
    ASSUME NEW T \in SUBSET Nat, T # {}
    PROVE  \E x \in T : \A y \in T : x <= y
  <1> DEFINE R == OpToRel(<, Nat)
  <1>1. \A y, x \in Nat : y < x => <<y, x>> \in R
    BY DEF OpToRel
  <1>2. IsWellFoundedOn(R, Nat)
    BY NatLessThanWellFounded
  <1> HIDE DEF R
  <1>3. PICK x \in T : \A y \in T : ~ (<<y, x>> \in R)
    BY <1>2, WFMin
  <1>4. ASSUME NEW y \in T PROVE x <= y
    <2>1. ~ (<<y, x>> \in R) /\ x \in Nat /\ y \in Nat
      BY <1>3
    <2>2. ~ (y < x)
      BY <1>1, <2>1
    <2> QED BY <2>1, <2>2
  <1> QED BY <1>4

(* Induction up to n: a set that has 0, and with k also k + 1, has n.      *)
LEMMA Induct ==
    ASSUME NEW n \in Nat, NEW T, 0 \in T, \A k \in 0..(n - 1) : k \in T => k + 1 \in T
    PROVE  0..n \subseteq T
  <1> SUFFICES ASSUME (0..n) \ T # {} PROVE FALSE
    OBVIOUS
  <1>1. (0..n) \ T \in SUBSET Nat
    OBVIOUS
  <1>2. PICK x \in (0..n) \ T : \A y \in (0..n) \ T : x <= y
    BY <1>1, Least
  <1>3. x # 0 /\ x - 1 \in 0..(n - 1) /\ (x - 1) + 1 = x
    BY <1>2
  <1>4. x - 1 \in T
    BY <1>2, <1>3
  <1> QED BY <1>2, <1>3, <1>4

(* A set of natural numbers with a bound has a greatest element.           *)
LEMMA Greatest ==
    ASSUME NEW T \in SUBSET Nat, T # {}, NEW b \in Nat, \A x \in T : x <= b
    PROVE  Max(T) \in T /\ \A x \in T : x <= Max(T)
  <1> DEFINE U == {u \in Nat : \A x \in T : x <= u}
  <1>1. U \in SUBSET Nat /\ b \in U
    OBVIOUS
  <1>2. PICK u \in U : \A w \in U : u <= w
    BY <1>1, Least
  <1>3. u \in T
    <2> SUFFICES ASSUME u \notin T PROVE FALSE
      OBVIOUS
    <2>1. \A x \in T : x <= u /\ x # u /\ x \in Nat /\ u \in Nat
      BY <1>2
    <2>2. PICK x \in T : TRUE
      OBVIOUS
    <2>3. u - 1 \in Nat /\ ~(u <= u - 1)
      BY <2>1, <2>2
    <2>4. \A y \in T : y <= u - 1
      BY <2>1
    <2> QED BY <1>2, <2>3, <2>4
  <1>4. \E x \in T : \A y \in T : x >= y
    BY <1>2, <1>3
  <1> HIDE DEF U
  <1>5. Max(T) \in T /\ \A y \in T : Max(T) >= y
    BY <1>4 DEF Max
  <1> QED BY <1>5


(* The greatest of the places of a part of a sequence, if it is the last.  *)
LEMMA LastPlace ==
    ASSUME NEW n \in Nat \ {0}, NEW t \in SUBSET (1..n), n \in t
    PROVE  Max(t) = n
  <1>1. t \in SUBSET Nat /\ n \in Nat /\ \A x \in t : x <= n
    OBVIOUS
  <1>2. Max(t) \in t /\ n <= Max(t)
    BY <1>1, Greatest
  <1>3. Max(t) <= n /\ Max(t) \in Nat
    BY <1>1, <1>2
  <1> QED BY <1>2, <1>3

(***************************************************************************)
(* Folds.  The function iter of a fold over s, from a, whose step is the   *)
(* function G.                                                             *)
(***************************************************************************)
Iterates(iter, G, a, s, n) ==
    iter = [t \in SUBSET (1..n) |-> IF t = {} THEN a ELSE G[<<iter[t \ {Max(t)}], s[Max(t)]>>]]

(* There is such a function.                                               *)
LEMMA FoldExists ==
    ASSUME NEW A, NEW V, NEW s \in Seq(V), NEW G \in [A \X V -> A], NEW a \in A
    PROVE  \E iter \in [SUBSET (1..Len(s)) -> A] : Iterates(iter, G, a, s, Len(s))
  <1> DEFINE T == {n \in Nat : \E iter \in [SUBSET (1..n) -> A] : Iterates(iter, G, a, s, n)}
  <1>1. 0 \in T
    <2> DEFINE iter == [t \in SUBSET (1..0) |-> a]
    <2>1. SUBSET (1..0) = {{}}
      OBVIOUS
    <2>2. iter = [t \in SUBSET (1..0) |-> IF t = {} THEN a ELSE G[<<iter[t \ {Max(t)}], s[Max(t)]>>]]
      BY <2>1
    <2>3. iter \in [SUBSET (1..0) -> A]
      OBVIOUS
    <2> QED BY <2>2, <2>3 DEF Iterates
  <1>2. ASSUME NEW n \in 0..(Len(s) - 1), n \in T PROVE n + 1 \in T
    <2>1. PICK f \in [SUBSET (1..n) -> A] : Iterates(f, G, a, s, n)
      BY <1>2
    <2>2. n \in Nat /\ n + 1 \in Nat \ {0} /\ n + 1 \in 1..Len(s) /\ s[n + 1] \in V
      OBVIOUS
    <2> DEFINE g == [t \in SUBSET (1..n+1) |-> IF n + 1 \in t THEN G[<<f[t \ {n + 1}], s[n + 1]>>]
                                                            ELSE f[t]]
    <2>3. ASSUME NEW t \in SUBSET (1..n+1), n + 1 \notin t PROVE t \in SUBSET (1..n)
      BY <2>2, <2>3
    <2>4. ASSUME NEW t \in SUBSET (1..n+1) PROVE t \ {n + 1} \in SUBSET (1..n)
      BY <2>2
    <2>5. g \in [SUBSET (1..n+1) -> A]
      <3> SUFFICES ASSUME NEW t \in SUBSET (1..n+1) PROVE g[t] \in A
        OBVIOUS
      <3>1. CASE n + 1 \in t
        <4>1. f[t \ {n + 1}] \in A
          BY <2>4
        <4> QED BY <2>2, <3>1, <4>1
      <3>2. CASE n + 1 \notin t
        BY <2>3, <3>2
      <3> QED BY <3>1, <3>2
    <2>6. ASSUME NEW t \in SUBSET (1..n+1)
          PROVE  g[t] = IF t = {} THEN a ELSE G[<<g[t \ {Max(t)}], s[Max(t)]>>]
      <3>1. CASE n + 1 \in t
        <4>1. Max(t) = n + 1
          BY <2>2, <3>1, LastPlace
        <4>2. g[t \ {n + 1}] = f[t \ {n + 1}]
          BY <2>4
        <4> QED BY <3>1, <4>1, <4>2
      <3>2. CASE n + 1 \notin t
        <4>1. t \in SUBSET (1..n) /\ g[t] = f[t]
          BY <2>3, <3>2
        <4>2. f[t] = IF t = {} THEN a ELSE G[<<f[t \ {Max(t)}], s[Max(t)]>>]
          BY <2>1, <4>1 DEF Iterates
        <4>3. g[t \ {Max(t)}] = f[t \ {Max(t)}]
          BY <3>2, <4>1
        <4> QED BY <4>1, <4>2, <4>3
      <3> QED BY <3>1, <3>2
    <2> HIDE DEF g
    <2>7. g = [t \in SUBSET (1..n+1) |-> IF t = {} THEN a ELSE G[<<g[t \ {Max(t)}], s[Max(t)]>>]]
      BY <2>5, <2>6
    <2> QED BY <2>2, <2>5, <2>7 DEF Iterates
  <1> HIDE DEF T
  <1>3. Len(s) \in Nat /\ Len(s) \in 0..Len(s)
    OBVIOUS
  <1>4. 0..Len(s) \subseteq T
    BY <1>1, <1>2, <1>3, Induct
  <1> QED BY <1>3, <1>4 DEF T


(* The arguments of its steps.                                             *)
LEMMA FoldArgs ==
    ASSUME NEW A, NEW V, NEW s \in Seq(V), NEW iter \in [SUBSET (1..Len(s)) -> A],
           NEW t \in SUBSET (1..Len(s)), t # {}
    PROVE  iter[t \ {Max(t)}] \in A /\ s[Max(t)] \in V
  <1>1. t \in SUBSET Nat /\ Len(s) \in Nat /\ \A x \in t : x <= Len(s)
    OBVIOUS
  <1>2. Max(t) \in t
    BY <1>1, Greatest
  <1>3. Max(t) \in 1..Len(s) /\ t \ {Max(t)} \in SUBSET (1..Len(s))
    BY <1>2
  <1> QED BY <1>3

(* The values for the first k elements follow one another; a run has them. *)
StepsBy(iter, G, a, s, A, V) ==
    /\ s \in Seq(V) /\ G \in [A \X V -> A] /\ a \in A /\ iter[{}] = a
    /\ \A k \in 1..Len(s) : iter[1..(k - 1)] \in A => iter[1..k] = G[<<iter[1..(k - 1)], s[k]>>]

IsRun(run, G, a, s, A) ==
    /\ run \in [0..Len(s) -> A] /\ run[0] = a
    /\ \A k \in 1..Len(s) : run[k] = G[<<run[k - 1], s[k]>>]

(* What it gives for the whole sequence is the end of a run.               *)
LEMMA FoldRun ==
    ASSUME NEW iter, NEW G, NEW a, NEW s, NEW A, NEW V, StepsBy(iter, G, a, s, A, V)
    PROVE  \E run : IsRun(run, G, a, s, A) /\ run[Len(s)] = iter[1..Len(s)]
  <1> DEFINE T   == {k \in Nat : iter[1..k] \in A}
             run == [k \in 0..Len(s) |-> iter[1..k]]
  <1>0. s \in Seq(V) /\ G \in [A \X V -> A] /\ a \in A /\ iter[{}] = a
    BY DEF StepsBy
  <1>1. Len(s) \in Nat /\ 1..0 = {}
    BY <1>0
  <1>2. 0 \in T
    BY <1>0, <1>1
  <1>3. ASSUME NEW k \in 0..(Len(s) - 1), k \in T PROVE k + 1 \in T
    <2>1. k + 1 \in 1..Len(s) /\ (k + 1) - 1 = k /\ s[k + 1] \in V
      BY <1>0
    <2>2. iter[1..(k + 1)] = G[<<iter[1..k], s[k + 1]>>]
      BY <1>3, <2>1 DEF StepsBy
    <2> QED BY <1>0, <1>3, <2>1, <2>2
  <1>4. 0..Len(s) \subseteq T
    BY <1>1, <1>2, <1>3, Induct
  <1>5. run \in [0..Len(s) -> A] /\ run[0] = a /\ run[Len(s)] = iter[1..Len(s)]
    BY <1>0, <1>1, <1>4
  <1>6. ASSUME NEW k \in 1..Len(s) PROVE run[k] = G[<<run[k - 1], s[k]>>]
    <2>1. k - 1 \in 0..Len(s) /\ k \in 0..Len(s)
      BY <1>1
    <2>2. iter[1..(k - 1)] \in A
      BY <1>4, <2>1
    <2> QED BY <2>1, <2>2 DEF StepsBy
  <1>7. IsRun(run, G, a, s, A)
    BY <1>5, <1>6 DEF IsRun
  <1> QED BY <1>5, <1>7

(* The places before the k-th.                                             *)
LEMMA LastOf ==
    ASSUME NEW k \in Nat \ {0}
    PROVE  1..k # {} /\ Max(1..k) = k /\ (1..k) \ {k} = 1..(k - 1)
  <1>1. 1..k \in SUBSET (1..k) /\ k \in 1..k
    OBVIOUS
  <1>2. Max(1..k) = k
    BY <1>1, LastPlace
  <1> QED BY <1>1, <1>2


(***************************************************************************)
(* Division.                                                               *)
(***************************************************************************)
(* Quotient and remainder.                                                 *)
LEMMA Division ==
    ASSUME NEW x \in Nat, NEW w \in Nat \ {0}
    PROVE  x \div w \in Nat /\ x % w \in 0..(w - 1) /\ x = w * (x \div w) + (x % w)
  <1> DEFINE q == x \div w
             r == x % w
  <1>1. q \in Int /\ x = w * q + r /\ r \in 0..(w - 1)
    OBVIOUS
  <1> HIDE DEF q, r
  <1>2. ASSUME q <= -1 PROVE FALSE
    <2>1. w * q <= -w
      BY <1>1, <1>2
    <2> QED BY <1>1, <2>1
  <1>3. q \in Nat /\ r \in 0..(w - 1) /\ x = w * q + r
    BY <1>1, <1>2
  <1> QED BY <1>3 DEF q, r

(* The order of products is that of their factors.                         *)
LEMMA Products ==
    ASSUME NEW w \in Nat \ {0}, NEW p \in Nat, NEW q \in Nat
    PROVE  /\ p < q => w * p + w <= w * q
           /\ w * p \in Nat /\ w * q \in Nat
  <1>1. w * p \in Nat /\ w * q \in Nat
    OBVIOUS
  <1>2. ASSUME p < q PROVE w * p + w <= w * q
    <2>1. q - p \in Nat /\ q - p >= 1 /\ q = p + (q - p)
      BY <1>2
    <2>2. w * (q - p) >= w
      BY <2>1
    <2>3. w * q = w * p + w * (q - p)
      BY <2>1
    <2> QED BY <1>1, <2>1, <2>2, <2>3
  <1> QED BY <1>1, <1>2

(* They are the only ones.                                                 *)
LEMMA Remainder ==
    ASSUME NEW x \in Nat, NEW w \in Nat \ {0}, NEW k \in Nat, NEW r \in 0..(w - 1), x = w * k + r
    PROVE  x \div w = k /\ x % w = r
  <1> DEFINE q == x \div w
             d == x % w
  <1>1. q \in Nat /\ d \in 0..(w - 1) /\ x = w * q + d
    BY Division
  <1> HIDE DEF q, d
  <1>2. ~(q < k) /\ ~(k < q)
    <2>1. (q < k => w * q + w <= w * k) /\ (k < q => w * k + w <= w * q)
          /\ w * q \in Nat /\ w * k \in Nat
      BY <1>1, Products
    <2> QED BY <1>1, <2>1
  <1>3. q = k
    BY <1>1, <1>2
  <1>4. d = r
    BY <1>1, <1>3
  <1> QED BY <1>3, <1>4 DEF q, d

(* Multiples of w are apart by w, and sums, differences and products of    *)
(* them are multiples.                                                     *)
LEMMA Multiples ==
    ASSUME NEW w \in Nat \ {0}, NEW x \in Nat, NEW y \in Nat, x % w = 0, y % w = 0
    PROVE  /\ x < y => x + w <= y
           /\ (x + y) % w = 0
           /\ x <= y => (y - x) % w = 0
           /\ \A k \in Nat : (x * k) % w = 0
  <1> DEFINE p == x \div w
             q == y \div w
  <1>0. p \in Nat /\ q \in Nat /\ x = w * p + (x % w) /\ y = w * q + (y % w)
    BY Division
  <1> HIDE DEF p, q
  <1>1. p \in Nat /\ x = w * p
    BY <1>0
  <1>2. q \in Nat /\ y = w * q
    BY <1>0
  <1>3. ASSUME x < y PROVE x + w <= y
    <2>1. p < q
      <3> SUFFICES ASSUME ~(p < q) PROVE FALSE
        OBVIOUS
      <3>1. p = q \/ q < p
        BY <1>1, <1>2
      <3>2. q < p => w * q + w <= w * p
        BY <1>1, <1>2, Products
      <3> QED BY <1>1, <1>2, <1>3, <3>1, <3>2
    <2> QED BY <1>1, <1>2, <2>1, Products
  <1>4. (x + y) % w = 0
    <2>1. x + y = w * (p + q) + 0
      BY <1>1, <1>2
    <2>2. p + q \in Nat /\ x + y \in Nat /\ 0 \in 0..(w - 1)
      BY <1>1, <1>2
    <2> QED BY <2>1, <2>2, Remainder
  <1>5. ASSUME x <= y PROVE (y - x) % w = 0
    <2>1. p <= q
      <3> SUFFICES ASSUME q < p PROVE FALSE
        BY <1>1, <1>2
      <3>1. w * q + w <= w * p
        BY <1>1, <1>2, Products
      <3> QED BY <1>1, <1>2, <1>5, <3>1
    <2>2. q - p \in Nat /\ y - x = w * (q - p) + 0
      BY <1>1, <1>2, <2>1
    <2>3. y - x \in Nat /\ 0 \in 0..(w - 1)
      BY <1>5
    <2> QED BY <2>2, <2>3, Remainder
  <1>6. ASSUME NEW k \in Nat PROVE (x * k) % w = 0
    <2>1. p * k \in Nat /\ x * k \in Nat /\ x * k = w * (p * k) + 0 /\ 0 \in 0..(w - 1)
      BY <1>1
    <2> QED BY <2>1, Remainder
  <1> QED BY <1>3, <1>4, <1>5, <1>6


(***************************************************************************)
(* The page of a byte, and the parts into which a range is cut.            *)
(***************************************************************************)
PageOff(x) == (x \div PageSize) * PageSize

(* Where the page of a byte begins.                                        *)
LEMMA PageOffIs ==
    ASSUME NEW x \in Nat
    PROVE  /\ PageOff(x) \in Nat /\ PageOff(x) % PageSize = 0 /\ PageSize % PageSize = 0
           /\ x = PageOff(x) + (x % PageSize) /\ x % PageSize \in 0..(PageSize - 1)
  <1>1. PageSize \in Nat \ {0}
    BY VectorsAssumption
  <1> DEFINE q == x \div PageSize
             r == x % PageSize
  <1>2. q \in Nat /\ r \in 0..(PageSize - 1) /\ x = PageSize * q + r
    BY <1>1, Division
  <1>3. PageSize * 1 + 0 = PageSize /\ 0 \in 0..(PageSize - 1)
    BY <1>1
  <1>4. PageSize % PageSize = 0
    BY <1>1, <1>3, Remainder
  <1> HIDE DEF q, r
  <1>5. PageSize * q \in Nat /\ q * PageSize = PageSize * q
    BY <1>1, <1>2
  <1>6. (PageSize * q) % PageSize = 0
    BY <1>1, <1>2, <1>4, Multiples
  <1>7. /\ q * PageSize \in Nat /\ (q * PageSize) % PageSize = 0
        /\ x = q * PageSize + r /\ r \in 0..(PageSize - 1)
    BY <1>2, <1>5, <1>6
  <1> QED BY <1>4, <1>7 DEF PageOff, q, r

(* The least number of parts of at most m that make x.                     *)
LEMMA CeilDivIs ==
    ASSUME NEW x \in Nat, NEW m \in Nat \ {0}
    PROVE  /\ CeilDiv(x, m) \in Nat /\ m * CeilDiv(x, m) >= x
           /\ m * CeilDiv(x, m) < x + m
  <1> DEFINE n == CeilDiv(x, m)
             r == (x + m - 1) % m
  <1>1. x + m - 1 \in Nat
    OBVIOUS
  <1>2. n \in Nat /\ r \in 0..(m - 1) /\ x + m - 1 = m * n + r
    BY <1>1, Division DEF CeilDiv
  <1> HIDE DEF n, r
  <1>3. m * n \in Nat
    BY <1>2
  <1>4. m * n >= x /\ m * n < x + m
    BY <1>2, <1>3
  <1> QED BY <1>2, <1>4 DEF n

(* A longer range has as many or more.                                     *)
LEMMA CeilDivGrows ==
    ASSUME NEW x \in Nat, NEW y \in Nat, x <= y, NEW m \in Nat \ {0}
    PROVE  CeilDiv(x, m) <= CeilDiv(y, m)
  <1> DEFINE p == CeilDiv(x, m)
             q == CeilDiv(y, m)
  <1>1. p \in Nat /\ q \in Nat /\ m * p < x + m /\ m * q >= y
    BY CeilDivIs
  <1> HIDE DEF p, q
  <1>2. ASSUME q < p PROVE FALSE
    <2>1. m * q + m <= m * p /\ m * q \in Nat /\ m * p \in Nat
      BY <1>1, <1>2, Products
    <2> QED BY <1>1, <2>1
  <1>3. p <= q
    BY <1>1, <1>2
  <1> QED BY <1>3 DEF p, q

(* The less of two numbers.                                                *)
LEMMA MinOfTwo ==
    ASSUME NEW x \in Int, NEW y \in Int
    PROVE  Min({x, y}) = IF x <= y THEN x ELSE y
  <1> DEFINE m == IF x <= y THEN x ELSE y
  <1>1. m \in {x, y} /\ \A z \in {x, y} : m <= z
    OBVIOUS
  <1>2. \A u \in {x, y} : (\A z \in {x, y} : u <= z) => u = m
    OBVIOUS
  <1> HIDE DEF m
  <1>3. Min({x, y}) \in {x, y} /\ \A z \in {x, y} : Min({x, y}) <= z
    BY <1>1 DEF Min
  <1>4. Min({x, y}) = m
    BY <1>2, <1>3
  <1> QED BY <1>4 DEF m


(***************************************************************************)
(* The lists of a call.                                                    *)
(***************************************************************************)
BaseType == [r : Nat, at : Nat]
VecType  == [off : Nat, len : Nat, base : BaseType]
CopyType == [page : BaseType, off : Nat, app : BaseType, len : Nat]
ArgsType == [is_write : BOOLEAN, size : Nat, iovcnt : Nat, aligned : Seq(VecType),
             rbw : Seq(VecType), dc : Seq(CopyType), pages : Nat]

End(v) == v.off + v.len

(* Whole pages; one after another.                                         *)
Paged(v)   == v.off % PageSize = 0 /\ v.len % PageSize = 0
AllPaged(s) == \A i \in DOMAIN s : Paged(s[i]) /\ s[i].len > 0
Ordered(s) == \A i, j \in DOMAIN s : i < j => End(s[i]) <= s[j].off

PagedArgs(a) == AllPaged(a.aligned) /\ AllPaged(a.rbw)

(* Motr takes whole pages only.                                            *)
PageSized == MaxSizePerOp % PageSize = 0

(***************************************************************************)
(* From a to b, with at most n more vectors and k more copies.             *)
(***************************************************************************)
Grown(a, b, n, k) ==
    /\ b \in ArgsType /\ b.is_write = a.is_write
    /\ b.size = a.size /\ b.iovcnt = a.iovcnt
    /\ Len(b.aligned) <= Len(a.aligned) + n
    /\ Len(b.rbw) <= Len(a.rbw) + k /\ Len(b.dc) <= Len(a.dc) + k /\ b.pages <= a.pages + k
    /\ PageSized /\ PagedArgs(a) => PagedArgs(b)

(* The lengths are numbers.                                                *)
LEMMA ArgsCounts ==
    ASSUME NEW a \in ArgsType
    PROVE  Len(a.aligned) \in Nat /\ Len(a.rbw) \in Nat /\ Len(a.dc) \in Nat /\ a.pages \in Nat
  BY DEF ArgsType

(* One after another.                                                      *)
LEMMA GrownTwice ==
    ASSUME NEW a \in ArgsType, NEW b, NEW c, NEW n \in Nat, NEW k \in Nat, NEW m \in Nat, NEW l \in Nat,
           Grown(a, b, n, k), Grown(b, c, m, l)
    PROVE  Grown(a, c, n + m, k + l)
  <1>1. b \in ArgsType /\ c \in ArgsType
    BY DEF Grown
  <1>2. \A x, y, z, p, q \in Nat : y <= x + p /\ z <= y + q => z <= x + (p + q)
    OBVIOUS
  <1>3. /\ Len(c.aligned) <= Len(a.aligned) + (n + m) /\ Len(c.rbw) <= Len(a.rbw) + (k + l)
        /\ Len(c.dc) <= Len(a.dc) + (k + l) /\ c.pages <= a.pages + (k + l)
    <2>1. /\ Len(a.aligned) \in Nat /\ Len(b.aligned) \in Nat /\ Len(c.aligned) \in Nat
          /\ Len(a.rbw) \in Nat /\ Len(b.rbw) \in Nat /\ Len(c.rbw) \in Nat
          /\ Len(a.dc) \in Nat /\ Len(b.dc) \in Nat /\ Len(c.dc) \in Nat
          /\ a.pages \in Nat /\ b.pages \in Nat /\ c.pages \in Nat
      BY <1>1, ArgsCounts
    <2> QED BY <1>2, <2>1 DEF Grown
  <1>4. /\ c.is_write = a.is_write /\ c.size = a.size /\ c.iovcnt = a.iovcnt
        /\ (PageSized /\ PagedArgs(a) => PagedArgs(c))
    BY DEF Grown
  <1> QED BY <1>1, <1>3, <1>4 DEF Grown

(* Fewer than allowed.                                                     *)
LEMMA GrownLess ==
    ASSUME NEW a \in ArgsType, NEW b, NEW n \in Nat, NEW k \in Nat, NEW m \in Nat, NEW l \in Nat,
           Grown(a, b, n, k), n <= m, k <= l
    PROVE  Grown(a, b, m, l)
  <1>1. b \in ArgsType
    BY DEF Grown
  <1>2. \A x, y, p, q \in Nat : y <= x + p /\ p <= q => y <= x + q
    OBVIOUS
  <1>3. /\ Len(a.aligned) \in Nat /\ Len(b.aligned) \in Nat /\ Len(a.rbw) \in Nat
        /\ Len(b.rbw) \in Nat /\ Len(a.dc) \in Nat /\ Len(b.dc) \in Nat
        /\ a.pages \in Nat /\ b.pages \in Nat
    BY <1>1, ArgsCounts
  <1>4. /\ Len(b.aligned) <= Len(a.aligned) + m /\ Len(b.rbw) <= Len(a.rbw) + l
        /\ Len(b.dc) <= Len(a.dc) + l /\ b.pages <= a.pages + l
    BY <1>2, <1>3 DEF Grown
  <1> QED BY <1>4 DEF Grown

(* A list with one more at its end.                                        *)
LEMMA OneMore ==
    ASSUME NEW s \in Seq(VecType), NEW v \in VecType, Paged(v), v.len > 0
    PROVE  /\ Append(s, v) \in Seq(VecType) /\ Len(Append(s, v)) = Len(s) + 1
           /\ Append(s, v)[Len(s) + 1] = v
           /\ \A i \in 1..Len(s) : Append(s, v)[i] = s[i]
           /\ AllPaged(s) => AllPaged(Append(s, v))
  <1> DEFINE t == Append(s, v)
  <1>1. /\ t \in Seq(VecType) /\ Len(t) = Len(s) + 1 /\ t[Len(s) + 1] = v
        /\ \A i \in 1..Len(s) : t[i] = s[i]
    OBVIOUS
  <1>2. DOMAIN t = 1..(Len(s) + 1) /\ DOMAIN s = 1..Len(s) /\ Len(s) \in Nat
    OBVIOUS
  <1> HIDE DEF t
  <1>3. AllPaged(s) => AllPaged(t)
    BY <1>1, <1>2 DEF AllPaged
  <1> QED BY <1>1, <1>3 DEF t

(* motr_obj_iovec_partial_page adds a page at most.                        *)
LEMMA PartialGrows ==
    ASSUME NEW a \in ArgsType, NEW off \in Nat, NEW len \in Nat, NEW base \in BaseType
    PROVE  Grown(a, motr_obj_iovec_partial_page(a, off, len, base), 1, 1)
  <1> DEFINE b == motr_obj_iovec_partial_page(a, off, len, base)
             shared == a.aligned # <<>> /\ Last(a.aligned).off = PageOff(off)
             page   == IF shared THEN Last(a.aligned).base ELSE Base(a.iovcnt + a.pages + 1, 0)
             whole  == Iov(PageOff(off), PageSize, page)
             copy   == [page |-> page, off |-> off % PageSize, app |-> base, len |-> len]
             reads  == a.is_write /\ PageOff(off) < a.size /\ ~shared
  <1>1. /\ a.aligned \in Seq(VecType) /\ a.rbw \in Seq(VecType) /\ a.dc \in Seq(CopyType)
        /\ a.pages \in Nat /\ a.iovcnt \in Nat
    BY DEF ArgsType
  <1>2. page \in BaseType
    <2>1. CASE shared
      <3>1. Len(a.aligned) \in 1..Len(a.aligned)
        BY <1>1, <2>1
      <3>2. Last(a.aligned) \in VecType
        BY <1>1, <3>1 DEF Last
      <3> QED BY <2>1, <3>2 DEF VecType
    <2>2. CASE ~shared
      BY <1>1, <2>2 DEF Base, BaseType
    <2> QED BY <2>1, <2>2
  <1> HIDE DEF page, shared
  <1>3. whole \in VecType /\ Paged(whole) /\ whole.len > 0
    BY <1>2, PageOffIs, VectorsAssumption DEF Iov, VecType, Paged
  <1>4. copy \in CopyType
    BY <1>2, PageOffIs DEF CopyType
  <1>5. CASE len = 0
    <2>1. b = a
      BY <1>5 DEF motr_obj_iovec_partial_page
    <2> QED BY <1>1, <2>1, SMTT(30) DEF Grown
  <1>6. CASE len # 0
    <2> DEFINE al == IF shared THEN a.aligned ELSE Append(a.aligned, whole)
               rb == IF reads THEN Append(a.rbw, whole) ELSE a.rbw
               cs == Append(a.dc, copy)
               ps == IF shared THEN a.pages ELSE a.pages + 1
    <2>1. b = [a EXCEPT !.aligned = al, !.pages = ps, !.rbw = rb, !.dc = cs]
      BY <1>6 DEF motr_obj_iovec_partial_page, PageOff, page, shared
    <2> HIDE DEF whole, copy
    <2>2. al \in Seq(VecType) /\ Len(al) <= Len(a.aligned) + 1 /\ (AllPaged(a.aligned) => AllPaged(al))
      BY <1>1, <1>3, OneMore
    <2>3. rb \in Seq(VecType) /\ Len(rb) <= Len(a.rbw) + 1 /\ (AllPaged(a.rbw) => AllPaged(rb))
      BY <1>1, <1>3, OneMore
    <2>4. cs \in Seq(CopyType) /\ Len(cs) <= Len(a.dc) + 1 /\ ps \in Nat /\ ps <= a.pages + 1
      BY <1>1, <1>4
    <2> HIDE DEF al, rb, cs, ps, b
    <2>5. /\ b \in ArgsType /\ b.aligned = al /\ b.rbw = rb /\ b.dc = cs /\ b.pages = ps
          /\ b.is_write = a.is_write /\ b.size = a.size /\ b.iovcnt = a.iovcnt
      BY <2>1, <2>2, <2>3, <2>4 DEF ArgsType
    <2>6. Grown(a, b, 1, 1)
      BY <2>2, <2>3, <2>4, <2>5 DEF Grown, PagedArgs
    <2> QED BY <2>6 DEF b
  <1> QED BY <1>5, <1>6


(* The i-th of the parts into which motr_obj_iovec_clone cuts a range.     *)
Part(off, len, base, i) ==
    Iov(off + (i - 1) * MaxSizePerOp, Min({MaxSizePerOp, len - (i - 1) * MaxSizePerOp}),
        Plus(base, (i - 1) * MaxSizePerOp))

Parts(off, len, base) == [i \in 1..CeilDiv(len, MaxSizePerOp) |-> Part(off, len, base, i)]

With(s, off, len, base) == s \o Parts(off, len, base)

(* The parts are in the range, one after another, none is empty, and the   *)
(* last ends with it.                                                      *)
LEMMA PartIs ==
    ASSUME NEW off \in Nat, NEW len \in Nat, NEW base \in BaseType,
           off % PageSize = 0, len % PageSize = 0,
           NEW i \in 1..CeilDiv(len, MaxSizePerOp), NEW v, v = Part(off, len, base, i)
    PROVE  /\ v \in VecType /\ v.len > 0 /\ v.off >= off
           /\ v.off = off + MaxSizePerOp * (i - 1) /\ End(v) <= off + MaxSizePerOp * i
           /\ End(v) <= off + len /\ (i = CeilDiv(len, MaxSizePerOp) => End(v) = off + len)
           /\ PageSized => Paged(v)
  <1> DEFINE n == CeilDiv(len, MaxSizePerOp)
             m == MaxSizePerOp
             k == m * (i - 1)
  <1>1. m \in Nat \ {0} /\ PageSize \in Nat \ {0}
    BY VectorsAssumption
  <1>2. n \in Nat /\ m * n >= len /\ m * n < len + m
    BY <1>1, CeilDivIs
  <1>3. i \in Nat /\ i - 1 \in Nat /\ i <= n
    BY <1>2
  <1> HIDE DEF n, m
  <1>4. k \in Nat /\ k + m = m * i /\ (i - 1) * m = k
    BY <1>1, <1>3
  <1>5. k + m <= m * n
    <2>1. (i - 1 < n) => k + m <= m * n
      BY <1>1, <1>2, <1>3, Products
    <2> QED BY <1>2, <1>3, <2>1
  <1>6. k < len
    <2>1. m * n \in Nat
      BY <1>1, <1>2
    <2> QED BY <1>1, <1>2, <1>4, <1>5, <2>1
  <1> HIDE DEF k
  <1>7. v = Iov(off + k, Min({m, len - k}), Plus(base, k))
    BY <1>4 DEF Part, m
  <1>8. Min({m, len - k}) = IF m <= len - k THEN m ELSE len - k
    BY <1>1, <1>4, MinOfTwo
  <1>9. /\ v.off = off + k /\ v.len = (IF m <= len - k THEN m ELSE len - k)
        /\ v.base = [r |-> base.r, at |-> base.at + k]
        /\ v = [off |-> v.off, len |-> v.len, base |-> v.base]
    BY <1>7, <1>8 DEF Iov, Plus, Base
  <1>10. v.base \in BaseType
    BY <1>4, <1>9 DEF BaseType
  <1>11. v.off \in Nat /\ v.len \in Nat /\ v.len > 0 /\ v.off >= off
         /\ End(v) <= off + len /\ End(v) <= off + (k + m)
    BY <1>1, <1>4, <1>6, <1>9 DEF End
  <1>12. v \in VecType
    BY <1>9, <1>10, <1>11 DEF VecType
  <1>13. i = n => End(v) = off + len
    <2>1. i = n => k + m >= len
      BY <1>2, <1>4
    <2> QED BY <1>1, <1>4, <1>6, <1>9, <2>1 DEF End
  <1>14. ASSUME PageSized PROVE Paged(v)
    <2>1. m % PageSize = 0
      BY <1>14 DEF PageSized, m
    <2>2. k % PageSize = 0
      BY <1>1, <1>3, <2>1, Multiples DEF k
    <2>3. (off + k) % PageSize = 0
      BY <1>1, <1>4, <2>2, Multiples
    <2>4. (len - k) % PageSize = 0
      BY <1>1, <1>4, <1>6, <2>2, Multiples
    <2> QED BY <1>9, <2>1, <2>3, <2>4 DEF Paged
  <1> QED BY <1>4, <1>9, <1>11, <1>12, <1>13, <1>14 DEF k, m, n

(* A list with the parts at its end.                                       *)
LEMMA PartsMore ==
    ASSUME NEW off \in Nat, NEW len \in Nat, NEW base \in BaseType,
           off % PageSize = 0, len % PageSize = 0, NEW s \in Seq(VecType)
    PROVE  /\ CeilDiv(len, MaxSizePerOp) \in Nat
           /\ With(s, off, len, base) \in Seq(VecType)
           /\ Len(With(s, off, len, base)) = Len(s) + CeilDiv(len, MaxSizePerOp)
           /\ \A i \in 1..Len(s) : With(s, off, len, base)[i] = s[i]
           /\ \A i \in 1..CeilDiv(len, MaxSizePerOp) :
                 With(s, off, len, base)[Len(s) + i] = Part(off, len, base, i)
           /\ PageSized /\ AllPaged(s) => AllPaged(With(s, off, len, base))
  <1> DEFINE n == CeilDiv(len, MaxSizePerOp)
             t == With(s, off, len, base)
  <1> DEFINE p == Parts(off, len, base)
  <1>1. n \in Nat
    BY CeilDivIs, VectorsAssumption
  <1>2. \A i \in 1..n : Part(off, len, base, i) \in VecType
    BY PartIs
  <1>3. p \in Seq(VecType) /\ Len(p) = n /\ \A i \in 1..n : p[i] = Part(off, len, base, i)
    BY <1>1, <1>2 DEF Parts
  <1> HIDE DEF p, n
  <1>4. /\ t \in Seq(VecType) /\ Len(t) = Len(s) + n
        /\ \A i \in 1..Len(s) : t[i] = s[i]
        /\ \A i \in 1..n : t[Len(s) + i] = p[i]
    BY <1>1, <1>3 DEF p, With
  <1> HIDE DEF t
  <1>5. ASSUME PageSized, AllPaged(s) PROVE AllPaged(t)
    <2> SUFFICES ASSUME NEW j \in 1..(Len(s) + n) PROVE Paged(t[j]) /\ t[j].len > 0
      BY <1>4 DEF AllPaged
    <2>1. CASE j <= Len(s)
      BY <1>4, <1>5, <2>1 DEF AllPaged
    <2>2. CASE j > Len(s)
      <3>1. j - Len(s) \in 1..n /\ j = Len(s) + (j - Len(s))
        BY <1>1, <2>2
      <3>2. t[j] = Part(off, len, base, j - Len(s))
        BY <1>3, <1>4, <3>1
      <3> QED BY <1>5, <3>1, <3>2, PartIs DEF n
    <2>3. j \in Nat /\ Len(s) \in Nat
      BY <1>1
    <2> QED BY <2>1, <2>2, <2>3
  <1> QED BY <1>1, <1>3, <1>4, <1>5 DEF n, t

(* motr_obj_iovec_clone adds the parts of its range at most.               *)
LEMMA CloneGrows ==
    ASSUME NEW a \in ArgsType, NEW off \in Nat, NEW len \in Nat, NEW base \in BaseType
    PROVE  Grown(a, motr_obj_iovec_clone(a, off, len, base), CeilDiv(len, MaxSizePerOp), 0)
  <1> DEFINE b == motr_obj_iovec_clone(a, off, len, base)
             n == CeilDiv(len, MaxSizePerOp)
  <1>1. n \in Nat
    BY CeilDivIs, VectorsAssumption
  <1> HIDE DEF n
  <1>2. CASE off % PageSize # 0 \/ len % PageSize # 0
    <2>1. b = a
      BY <1>2 DEF motr_obj_iovec_clone
    <2> QED BY <1>1, <2>1, ArgsCounts DEF Grown, n
  <1>3. CASE ~(off % PageSize # 0 \/ len % PageSize # 0)
    <2> DEFINE t == With(a.aligned, off, len, base)
    <2>1. b = [a EXCEPT !.aligned = t]
      BY <1>3 DEF motr_obj_iovec_clone, With, Parts, Part
    <2>2. /\ t \in Seq(VecType) /\ Len(t) = Len(a.aligned) + n
          /\ PageSized /\ AllPaged(a.aligned) => AllPaged(t)
      <3>1. a.aligned \in Seq(VecType) /\ off % PageSize = 0 /\ len % PageSize = 0
        BY <1>3 DEF ArgsType
      <3> QED BY <3>1, PartsMore, ZenonT(60) DEF n
    <2> HIDE DEF t, b
    <2>3. /\ b \in ArgsType /\ b.aligned = t /\ b.rbw = a.rbw /\ b.dc = a.dc /\ b.pages = a.pages
          /\ b.is_write = a.is_write /\ b.size = a.size /\ b.iovcnt = a.iovcnt
      BY <2>1, <2>2 DEF ArgsType
    <2>4. Grown(a, b, n, 0)
      BY <1>1, <2>2, <2>3, ArgsCounts DEF Grown, PagedArgs
    <2> QED BY <2>4 DEF b, n
  <1> QED BY <1>2, <1>3


(***************************************************************************)
(* The order of the lists, when the vectors up to byte e are done: the     *)
(* last aligned vector ends at e at most, or is the page that e is in.     *)
(***************************************************************************)
InOrder(a, e) ==
    /\ Ordered(a.aligned) /\ Ordered(a.rbw)
    /\ a.aligned # <<>> => \/ End(Last(a.aligned)) <= e
                           \/ Last(a.aligned).len = PageSize /\ Last(a.aligned).off < e
    /\ \A i \in DOMAIN a.rbw : a.aligned # <<>> /\ End(a.rbw[i]) <= End(Last(a.aligned))

(* From a to b by the range from off to end.                               *)
Advances(a, b, off, end, n, k) ==
    /\ Grown(a, b, n, k)
    /\ \A e \in Nat : PageSized /\ PagedArgs(a) /\ InOrder(a, e) /\ e <= off => InOrder(b, end)

(* Ranges one after another.                                               *)
LEMMA AdvanceTwice ==
    ASSUME NEW a \in ArgsType, NEW b, NEW c, NEW off \in Nat, NEW mid \in Nat, NEW end \in Nat,
           NEW n \in Nat, NEW k \in Nat, NEW m \in Nat, NEW l \in Nat,
           Advances(a, b, off, mid, n, k), Advances(b, c, mid, end, m, l)
    PROVE  Advances(a, c, off, end, n + m, k + l)
  <1>1. Grown(a, c, n + m, k + l)
    BY GrownTwice DEF Advances
  <1>2. ASSUME NEW e \in Nat, PageSized, PagedArgs(a), InOrder(a, e), e <= off PROVE InOrder(c, end)
    <2>1. InOrder(b, mid) /\ PagedArgs(b) /\ mid <= mid
      BY <1>2 DEF Advances, Grown
    <2> QED BY <1>2, <2>1 DEF Advances
  <1> QED BY <1>1, <1>2 DEF Advances

(* Nothing is added.                                                       *)
LEMMA AdvanceNone ==
    ASSUME NEW a \in ArgsType, NEW off \in Nat, NEW end \in Nat, off <= end
    PROVE  Advances(a, a, off, end, 0, 0)
  <1>1. Grown(a, a, 0, 0)
    BY ArgsCounts DEF Grown
  <1>2. ASSUME NEW e \in Nat, PageSized, InOrder(a, e), e <= off PROVE InOrder(a, end)
    <2>1. CASE a.aligned = <<>>
      BY <1>2, <2>1 DEF InOrder
    <2>2. CASE a.aligned # <<>>
      <3>1. a.aligned \in Seq(VecType) /\ Len(a.aligned) \in 1..Len(a.aligned)
        BY <2>2 DEF ArgsType
      <3>2. Last(a.aligned) \in VecType
        BY <3>1 DEF Last
      <3>3. Last(a.aligned).off \in Nat /\ End(Last(a.aligned)) \in Nat
        BY <3>2 DEF VecType, End
      <3> QED BY <1>2, <2>2, <3>3 DEF InOrder
    <2> QED BY <2>1, <2>2
  <1> QED BY <1>1, <1>2 DEF Advances

(* In an ordered list the last vector ends last.                           *)
LEMMA LastEnds ==
    ASSUME NEW s \in Seq(VecType), s # <<>>, Ordered(s)
    PROVE  /\ Last(s) \in VecType /\ Last(s) = s[Len(s)] /\ Len(s) \in 1..Len(s)
           /\ \A i \in DOMAIN s : End(s[i]) <= End(Last(s))
  <1>1. /\ Last(s) = s[Len(s)] /\ Len(s) \in 1..Len(s) /\ DOMAIN s = 1..Len(s)
        /\ Len(s) \in Nat
    BY DEF Last
  <1>2. ASSUME NEW i \in 1..Len(s) PROVE s[i] \in VecType /\ s[i].off \in Nat /\ s[i].len \in Nat
    <2>1. s[i] \in VecType
      BY <1>1
    <2> QED BY <2>1 DEF VecType
  <1>3. ASSUME NEW i \in 1..Len(s) PROVE End(s[i]) <= End(Last(s))
    <2>1. CASE i = Len(s)
      BY <1>1, <1>2, <2>1 DEF End
    <2>2. CASE i # Len(s)
      <3>1. End(s[i]) <= s[Len(s)].off
        <4>1. \A n \in Nat : i \in 1..n /\ i # n => i < n
          OBVIOUS
        <4>2. i < Len(s)
          BY <1>1, <2>2, <4>1
        <4> QED BY <1>1, <4>2 DEF Ordered
      <3> QED BY <1>1, <1>2, <3>1 DEF End
    <2> QED BY <2>1, <2>2
  <1> QED BY <1>1, <1>2, <1>3

(* A list with one more behind all others.                                 *)
LEMMA OrderedMore ==
    ASSUME NEW s \in Seq(VecType), NEW v \in VecType, Ordered(s), \A i \in DOMAIN s : End(s[i]) <= v.off
    PROVE  Ordered(Append(s, v)) /\ Append(s, v) # <<>> /\ Last(Append(s, v)) = v
  <1> DEFINE t == Append(s, v)
  <1>1. /\ DOMAIN s = 1..Len(s) /\ DOMAIN t = 1..(Len(s) + 1) /\ Len(t) = Len(s) + 1
        /\ t[Len(s) + 1] = v /\ Len(s) \in Nat
        /\ \A i \in 1..Len(s) : t[i] = s[i]
    OBVIOUS
  <1> HIDE DEF t
  <1>2. ASSUME NEW i \in DOMAIN t, NEW j \in DOMAIN t, i < j PROVE End(t[i]) <= t[j].off
    <2>1. i \in 1..Len(s) /\ t[i] = s[i]
      BY <1>1, <1>2
    <2>2. CASE j = Len(s) + 1
      BY <1>1, <2>1, <2>2
    <2>3. CASE j \in 1..Len(s)
      BY <1>1, <1>2, <2>1, <2>3 DEF Ordered
    <2> QED BY <1>1, <2>2, <2>3
  <1>3. t # <<>> /\ Last(t) = v
    BY <1>1 DEF Last
  <1> QED BY <1>2, <1>3 DEF Ordered, t


(* The last page, when bytes from off on follow: it is the page of off, or *)
(* ends before that one.                                                   *)
LEMMA LastPageIs ==
    ASSUME NEW l \in VecType, Paged(l), l.len > 0, NEW e \in Nat, NEW off \in Nat, e <= off,
           End(l) <= e \/ (l.len = PageSize /\ l.off < e)
    PROVE  IF l.off = PageOff(off) THEN l.len = PageSize ELSE End(l) <= PageOff(off)
  <1> DEFINE po == PageOff(off)
  <1>1. PageSize \in Nat \ {0} /\ l.off \in Nat /\ l.len \in Nat /\ End(l) = l.off + l.len
    BY VectorsAssumption DEF VecType, End
  <1>2. po \in Nat /\ po % PageSize = 0 /\ po <= off /\ off < po + PageSize
    <2>1. off = po + (off % PageSize) /\ off % PageSize \in 0..(PageSize - 1) /\ po \in Nat
          /\ po % PageSize = 0
      BY PageOffIs
    <2> HIDE DEF po
    <2> QED BY <1>1, <2>1
  <1>3. l.off % PageSize = 0 /\ End(l) % PageSize = 0 /\ l.len >= PageSize
    <2>1. l.off % PageSize = 0 /\ l.len % PageSize = 0
      BY DEF Paged
    <2>2. 0 % PageSize = 0
      BY <1>1, Remainder
    <2>3. (l.off + l.len) % PageSize = 0
      BY <1>1, <2>1, Multiples
    <2>4. 0 + PageSize <= l.len
      BY <1>1, <2>1, <2>2, Multiples
    <2> QED BY <1>1, <2>1, <2>3, <2>4
  <1> HIDE DEF po
  <1>4. /\ po < End(l) => po + PageSize <= End(l)
        /\ l.off < po => l.off + PageSize <= po
        /\ po < l.off => po + PageSize <= l.off
    <2>1. End(l) \in Nat
      BY <1>1
    <2>2. po < End(l) => po + PageSize <= End(l)
      BY <1>1, <1>2, <1>3, <2>1, Multiples
    <2>3. l.off < po => l.off + PageSize <= po
      BY <1>1, <1>2, <1>3, Multiples
    <2>4. po < l.off => po + PageSize <= l.off
      BY <1>1, <1>2, <1>3, Multiples
    <2> QED BY <2>2, <2>3, <2>4
  <1>5. CASE l.off = po
    BY <1>1, <1>2, <1>3, <1>5 DEF po
  <1>6. CASE l.off # po
    <2>1. End(l) <= po
      BY <1>1, <1>2, <1>4, <1>6
    <2> QED BY <1>6, <2>1 DEF po
  <1> QED BY <1>5, <1>6

(* A part of a page: it goes to the page that is last, or to the next one. *)
LEMMA PartialAdvances ==
    ASSUME NEW a \in ArgsType, NEW off \in Nat, NEW len \in Nat, NEW base \in BaseType,
           (off % PageSize) + len <= PageSize
    PROVE  Advances(a, motr_obj_iovec_partial_page(a, off, len, base), off, off + len, 1, 1)
  <1> DEFINE b == motr_obj_iovec_partial_page(a, off, len, base)
  <1>1. Grown(a, b, 1, 1)
    BY PartialGrows
  <1>2. ASSUME NEW e \in Nat, PageSized, PagedArgs(a), InOrder(a, e), e <= off
        PROVE  InOrder(b, off + len)
    <2>1. CASE len = 0
      <3>1. b = a
        BY <2>1 DEF motr_obj_iovec_partial_page
      <3>2. Advances(a, a, off, off + len, 0, 0)
        BY <2>1, AdvanceNone
      <3> QED BY <1>2, <3>1, <3>2 DEF Advances
    <2>2. CASE len # 0
      <3> DEFINE l  == Last(a.aligned)
                 po == PageOff(off)
                 shared == a.aligned # <<>> /\ l.off = po
                 page   == IF shared THEN l.base ELSE Base(a.iovcnt + a.pages + 1, 0)
                 whole  == Iov(po, PageSize, page)
                 reads  == a.is_write /\ po < a.size /\ ~shared
      <3>1. /\ b.aligned = (IF shared THEN a.aligned ELSE Append(a.aligned, whole))
            /\ b.rbw = IF reads THEN Append(a.rbw, whole) ELSE a.rbw
        BY <2>2 DEF motr_obj_iovec_partial_page, PageOff, ArgsType
      <3>2. /\ a.aligned \in Seq(VecType) /\ a.rbw \in Seq(VecType)
            /\ Ordered(a.aligned) /\ Ordered(a.rbw)
            /\ AllPaged(a.aligned) /\ a.pages \in Nat /\ a.iovcnt \in Nat
        BY <1>2 DEF ArgsType, InOrder, PagedArgs
      <3>3. po \in Nat /\ po < off + len /\ PageSize \in Nat \ {0}
        <4>1. off = po + (off % PageSize) /\ off % PageSize \in 0..(PageSize - 1) /\ po \in Nat
          BY PageOffIs
        <4> HIDE DEF po
        <4> QED BY <2>2, <4>1, VectorsAssumption
      <3>4. a.aligned # <<>> =>
              /\ l \in VecType /\ (\A i \in DOMAIN a.aligned : End(a.aligned[i]) <= End(l))
              /\ (l.off = po => l.len = PageSize) /\ (l.off # po => End(l) <= po)
        <4> SUFFICES ASSUME a.aligned # <<>>
                     PROVE  /\ l \in VecType /\ (\A i \in DOMAIN a.aligned : End(a.aligned[i]) <= End(l))
                            /\ (l.off = po => l.len = PageSize) /\ (l.off # po => End(l) <= po)
          OBVIOUS
        <4>1. /\ l \in VecType /\ l = a.aligned[Len(a.aligned)] /\ Len(a.aligned) \in DOMAIN a.aligned
              /\ \A i \in DOMAIN a.aligned : End(a.aligned[i]) <= End(l)
          BY <3>2, LastEnds
        <4>2. Paged(l) /\ l.len > 0
          BY <3>2, <4>1 DEF AllPaged
        <4>3. End(l) <= e \/ (l.len = PageSize /\ l.off < e)
          BY <1>2 DEF InOrder
        <4> HIDE DEF l
        <4> QED BY <1>2, <4>1, <4>2, <4>3, LastPageIs
      <3> HIDE DEF l, po
      <3>5. CASE shared
        <4>1. b.aligned = a.aligned /\ b.rbw = a.rbw /\ l.len = PageSize /\ l.off < off + len
          BY <3>1, <3>3, <3>4, <3>5
        <4> HIDE DEF b
        <4> QED BY <1>2, <4>1 DEF InOrder, l
      <3>6. CASE ~shared
        <4>1. whole \in VecType /\ whole.off = po /\ whole.len = PageSize
          BY <3>2, <3>3, <3>6 DEF Iov, Base, VecType, BaseType
        <4>2. b.aligned = Append(a.aligned, whole) /\ (b.rbw = a.rbw \/ b.rbw = Append(a.rbw, whole))
          BY <3>1, <3>6
        <4>3. \A i \in DOMAIN a.aligned : End(a.aligned[i]) <= whole.off
          <5> SUFFICES ASSUME NEW i \in DOMAIN a.aligned PROVE End(a.aligned[i]) <= po
            BY <4>1
          <5>1. a.aligned # <<>> /\ a.aligned[i] \in VecType
            BY <3>2
          <5>2. End(a.aligned[i]) <= End(l) /\ End(l) <= po /\ l \in VecType
            BY <3>4, <3>6, <5>1
          <5> QED BY <3>3, <5>1, <5>2 DEF End, VecType
        <4>4. \A i \in DOMAIN a.rbw : End(a.rbw[i]) <= whole.off
          <5> SUFFICES ASSUME NEW i \in DOMAIN a.rbw PROVE End(a.rbw[i]) <= po
            BY <4>1
          <5>1. a.aligned # <<>> /\ End(a.rbw[i]) <= End(l) /\ a.rbw[i] \in VecType
            BY <1>2, <3>2 DEF InOrder, l
          <5>2. End(l) <= po /\ l \in VecType
            BY <3>4, <3>6, <5>1
          <5> QED BY <3>3, <5>1, <5>2 DEF End, VecType
        <4> HIDE DEF whole, b
        <4>5. Ordered(b.aligned) /\ b.aligned # <<>> /\ Last(b.aligned) = whole
          BY <3>2, <4>1, <4>2, <4>3, OrderedMore
        <4>6. Ordered(b.rbw)
          BY <3>2, <4>1, <4>2, <4>4, OrderedMore
        <4>7. ASSUME NEW i \in DOMAIN b.rbw PROVE End(b.rbw[i]) <= End(whole)
          <5>1. (i \in DOMAIN a.rbw /\ b.rbw[i] = a.rbw[i]) \/ b.rbw[i] = whole
            <6>1. CASE b.rbw = a.rbw
              BY <6>1
            <6>2. CASE b.rbw = Append(a.rbw, whole)
              BY <3>2, <4>1, <6>2
            <6> QED BY <4>2, <6>1, <6>2
          <5>2. i \in DOMAIN a.rbw => a.rbw[i] \in VecType /\ End(a.rbw[i]) <= whole.off
            BY <3>2, <4>4
          <5> QED BY <3>3, <4>1, <5>1, <5>2 DEF End, VecType
        <4> QED BY <3>3, <4>1, <4>5, <4>6, <4>7 DEF InOrder
      <3> QED BY <3>5, <3>6
    <2> QED BY <2>1, <2>2
  <1> QED BY <1>1, <1>2 DEF Advances


(* Whole pages: their parts follow the last page.                          *)
LEMMA CloneAdvances ==
    ASSUME NEW a \in ArgsType, NEW off \in Nat, NEW len \in Nat, NEW base \in BaseType,
           off % PageSize = 0, len % PageSize = 0
    PROVE  Advances(a, motr_obj_iovec_clone(a, off, len, base), off, off + len,
                    CeilDiv(len, MaxSizePerOp), 0)
  <1> DEFINE b == motr_obj_iovec_clone(a, off, len, base)
             n == CeilDiv(len, MaxSizePerOp)
             s == a.aligned
             t == With(s, off, len, base)
             Q(i) == Part(off, len, base, i)
  <1>1. Grown(a, b, n, 0)
    BY CloneGrows
  <1>2. b.aligned = t /\ b.rbw = a.rbw
    BY DEF motr_obj_iovec_clone, With, Parts, Part, ArgsType
  <1>3. /\ s \in Seq(VecType) /\ a.rbw \in Seq(VecType) /\ Len(s) \in Nat
        /\ n \in Nat /\ t \in Seq(VecType) /\ Len(t) = Len(s) + n
        /\ \A i \in 1..Len(s) : t[i] = s[i]
        /\ \A i \in 1..n : t[Len(s) + i] = Q(i)
    <2>1. s \in Seq(VecType) /\ a.rbw \in Seq(VecType) /\ Len(s) \in Nat
      BY DEF ArgsType
    <2> HIDE DEF s
    <2> QED BY <2>1, PartsMore, ZenonT(60)
  <1>4. \A i \in 1..n :
          /\ Q(i) \in VecType /\ Q(i).off >= off
          /\ Q(i).off = off + MaxSizePerOp * (i - 1) /\ End(Q(i)) <= off + MaxSizePerOp * i
          /\ (i = n => End(Q(i)) = off + len)
    BY PartIs
  <1>5. MaxSizePerOp \in Nat \ {0} /\ PageSize \in Nat \ {0}
    BY VectorsAssumption
  <1>6. ASSUME NEW e \in Nat, PageSized, PagedArgs(a), InOrder(a, e), e <= off
        PROVE  InOrder(b, off + len)
    <2> HIDE DEF s, t, n, Q, b
    <2>1. Ordered(s) /\ AllPaged(s)
      BY <1>6 DEF InOrder, PagedArgs, s
    <2>2. s # <<>> => /\ Last(s) \in VecType /\ (\A i \in 1..Len(s) : End(s[i]) <= End(Last(s)))
                      /\ End(Last(s)) <= off
      <3> SUFFICES ASSUME s # <<>>
                   PROVE  /\ Last(s) \in VecType /\ (\A i \in 1..Len(s) : End(s[i]) <= End(Last(s)))
                          /\ End(Last(s)) <= off
        OBVIOUS
      <3>1. /\ Last(s) \in VecType /\ Last(s) = s[Len(s)] /\ Len(s) \in DOMAIN s
            /\ \A i \in 1..Len(s) : End(s[i]) <= End(Last(s))
        BY <1>3, <2>1, LastEnds
      <3>2. Paged(Last(s)) /\ Last(s).len > 0
        BY <2>1, <3>1 DEF AllPaged
      <3>3. End(Last(s)) <= e \/ (Last(s).len = PageSize /\ Last(s).off < e)
        BY <1>6 DEF InOrder, s
      <3>4. End(Last(s)) <= off
        <4>1. CASE End(Last(s)) <= e
          BY <1>6, <3>1, <4>1 DEF VecType, End
        <4>2. CASE Last(s).len = PageSize /\ Last(s).off < e
          <5>1. Last(s).off \in Nat /\ Last(s).off < off /\ Last(s).off % PageSize = 0
            BY <1>6, <3>1, <3>2, <4>2 DEF VecType, Paged
          <5>2. Last(s).off + PageSize <= off
            BY <1>5, <5>1, Multiples
          <5> QED BY <4>2, <5>2 DEF End
        <4> QED BY <3>3, <4>1, <4>2
      <3> QED BY <3>1, <3>4
    <2>3. \A i \in 1..Len(s) : End(s[i]) <= off
      <3> SUFFICES ASSUME NEW i \in 1..Len(s) PROVE End(s[i]) <= off
        OBVIOUS
      <3>1. s[i] \in VecType /\ s # <<>>
        BY <1>3
      <3> QED BY <2>2, <3>1 DEF VecType, End
    <2>4. Ordered(t)
      <3> SUFFICES ASSUME NEW i \in 1..(Len(s) + n), NEW j \in 1..(Len(s) + n), i < j
                   PROVE  End(t[i]) <= t[j].off
        BY <1>3 DEF Ordered
      <3>1. CASE j <= Len(s)
        <4>1. i \in 1..Len(s) /\ j \in 1..Len(s)
          BY <1>3, <3>1
        <4> QED BY <1>3, <2>1, <4>1, SMTT(30) DEF Ordered
      <3>2. CASE j > Len(s)
        <4>1. j - Len(s) \in 1..n /\ Len(s) + (j - Len(s)) = j
          BY <1>3, <3>2
        <4>2. t[j] = Q(j - Len(s))
          BY <1>3, <4>1
        <4>3. CASE i <= Len(s)
          <5>1. i \in 1..Len(s)
            BY <1>3, <4>3
          <5>2. t[i] = s[i] /\ End(s[i]) <= off /\ s[i] \in VecType
            BY <1>3, <2>3, <5>1
          <5>3. t[j].off >= off /\ t[j] \in VecType
            BY <1>4, <4>1, <4>2
          <5> QED BY <5>2, <5>3 DEF VecType, End
        <4>4. CASE i > Len(s)
          <5>1. i - Len(s) \in 1..n /\ Len(s) + (i - Len(s)) = i
            BY <1>3, <4>4
          <5> DEFINE x == i - Len(s)
                     y == j - Len(s) - 1
                     m == MaxSizePerOp
          <5>2. t[i] = Q(x)
            BY <1>3, <5>1
          <5>3. t[j].off = off + m * y /\ End(t[i]) <= off + m * x /\ t[i] \in VecType
            BY <1>4, <4>1, <4>2, <5>1, <5>2
          <5>4. x \in Nat /\ y \in Nat /\ x <= y
            BY <1>3, <4>1, <5>1
          <5> HIDE DEF x, y, m
          <5>5. m * x <= m * y /\ m * x \in Nat /\ m * y \in Nat
            <6>1. m \in Nat \ {0}
              BY <1>5 DEF m
            <6>2. x < y => m * x + m <= m * y
              BY <5>4, <6>1, Products
            <6>3. m * x \in Nat /\ m * y \in Nat
              BY <5>4, <6>1, Products
            <6> QED BY <5>4, <6>1, <6>2, <6>3
          <5>6. End(t[i]) \in Nat
            BY <5>3 DEF VecType, End
          <5> QED BY <5>3, <5>5, <5>6
        <4> QED BY <1>3, <4>3, <4>4
      <3> QED BY <1>3, <3>1, <3>2
    <2>5. CASE n = 0
      <3>1. t = s
        BY <1>3, <2>5
      <3>2. b.aligned = a.aligned /\ b.rbw = a.rbw
        BY <1>2, <3>1 DEF s
      <3>3. Advances(a, a, off, off + len, 0, 0)
        BY AdvanceNone
      <3>4. InOrder(a, off + len)
        BY <1>6, <3>3 DEF Advances
      <3> QED BY <3>2, <3>4 DEF InOrder
    <2>6. CASE n # 0
      <3>1. n \in 1..n /\ Len(s) + n \in 1..Len(t)
        BY <1>3, <2>6
      <3>2. t # <<>> /\ Last(t) = Q(n) /\ End(Last(t)) = off + len
        <4>1. t[Len(s) + n] = Q(n) /\ End(Q(n)) = off + len /\ Len(t) = Len(s) + n
          BY <1>3, <1>4, <3>1
        <4>2. t # <<>> /\ Last(t) = t[Len(t)]
          BY <1>3, <3>1 DEF Last
        <4> QED BY <4>1, <4>2
      <3>3. ASSUME NEW i \in DOMAIN a.rbw PROVE End(a.rbw[i]) <= off + len
        <4>1. s # <<>> /\ End(a.rbw[i]) <= End(Last(s)) /\ a.rbw[i] \in VecType
          BY <1>3, <1>6 DEF InOrder, s
        <4> QED BY <2>2, <4>1 DEF VecType, End
      <3>4. Ordered(b.rbw) /\ b.aligned = t /\ b.rbw = a.rbw
        BY <1>2, <1>6 DEF InOrder
      <3> QED BY <2>4, <3>2, <3>3, <3>4 DEF InOrder
    <2> QED BY <2>5, <2>6
  <1> QED BY <1>1, <1>6 DEF Advances


(* More than what is added.                                                *)
LEMMA AdvanceLess ==
    ASSUME NEW a \in ArgsType, NEW b, NEW off \in Nat, NEW end \in Nat,
           NEW n \in Nat, NEW k \in Nat, NEW m \in Nat, NEW l \in Nat,
           Advances(a, b, off, end, n, k), n <= m, k <= l
    PROVE  Advances(a, b, off, end, m, l)
  <1>1. Grown(a, b, m, l)
    BY GrownLess DEF Advances
  <1> QED BY <1>1 DEF Advances

(* The pages of a range that begins inside a page.                         *)
LEMMA FirstAndLast ==
    ASSUME NEW v \in VecType, v.off % PageSize # 0
    PROVE  /\ FirstPage(v) \in Nat /\ LastPage(v) \in Nat /\ FirstPage(v) <= LastPage(v)
           /\ v.off = PageSize * FirstPage(v) + (v.off % PageSize)
           /\ v.off % PageSize \in 1..(PageSize - 1)
           /\ End(v) > PageSize * LastPage(v) /\ End(v) <= PageSize * LastPage(v) + PageSize
  <1> DEFINE f == FirstPage(v)
             l == LastPage(v)
             r == v.off % PageSize
             x == v.off + v.len - 1
             d == x % PageSize
  <1>1. PageSize \in Nat \ {0} /\ v.off \in Nat /\ v.len \in Nat
    BY VectorsAssumption DEF VecType
  <1>2. f \in Nat /\ r \in 0..(PageSize - 1) /\ v.off = PageSize * f + r
    BY <1>1, Division DEF FirstPage
  <1>3. r \in 1..(PageSize - 1)
    BY <1>2
  <1>4. x \in Nat
    <2>1. PageSize * f \in Nat
      BY <1>1, <1>2
    <2> HIDE DEF r, f
    <2>2. v.off >= 1
      BY <1>1, <1>2, <1>3, <2>1
    <2> QED BY <1>1, <2>2
  <1>5. l \in Nat /\ d \in 0..(PageSize - 1) /\ x = PageSize * l + d
    BY <1>1, <1>4, Division DEF LastPage
  <1> HIDE DEF f, l, r, d
  <1>6. PageSize * f \in Nat /\ PageSize * l \in Nat
    BY <1>1, <1>2, <1>5
  <1>7. End(v) > PageSize * l /\ End(v) <= PageSize * l + PageSize
    BY <1>1, <1>5, <1>6 DEF End
  <1>8. ASSUME l < f PROVE FALSE
    <2>1. PageSize * l + PageSize <= PageSize * f
      BY <1>1, <1>2, <1>5, <1>8, Products
    <2>2. v.off <= x + 1
      BY <1>1
    <2> QED BY <1>1, <1>2, <1>3, <1>5, <1>6, <2>1, <2>2
  <1>9. f <= l
    BY <1>2, <1>5, <1>8
  <1> QED BY <1>2, <1>3, <1>5, <1>7, <1>9 DEF f, l, r

(* A range in one page.                                                    *)
InPage(off, len) == (off % PageSize) + len <= PageSize

(***************************************************************************)
(* A vector is cut at x and at y: a part of a page, whole pages, a part of *)
(* a page, each of which may be empty.                                     *)
(***************************************************************************)
FirstCut(a, b, v, x) ==
    x \in Nat /\ InPage(v.off, x) /\ b = motr_obj_iovec_partial_page(a, v.off, x, v.base)

MiddleCut(a, b, v, x, y) ==
    /\ y \in Nat /\ x <= y
    /\ \/ x = y /\ b = a
       \/ /\ (v.off + x) % PageSize = 0 /\ (y - x) % PageSize = 0
          /\ b = motr_obj_iovec_clone(a, v.off + x, y - x, Plus(v.base, x))

LastCut(a, b, v, y) ==
    /\ y <= v.len /\ InPage(v.off + y, v.len - y)
    /\ b = motr_obj_iovec_partial_page(a, v.off + y, v.len - y, Plus(v.base, y))

Cut(a, b, v) == \E x, y, a1, a2 : FirstCut(a, a1, v, x) /\ MiddleCut(a1, a2, v, x, y) /\ LastCut(a2, b, v, y)

(* Nothing is in one page, and takes nothing.                              *)
LEMMA NoCut ==
    ASSUME NEW a, NEW off \in Nat, NEW base
    PROVE  InPage(off, 0) /\ a = motr_obj_iovec_partial_page(a, off, 0, base)
  <1>1. PageSize \in Nat \ {0} /\ off % PageSize \in 0..(PageSize - 1)
    BY Division, VectorsAssumption
  <1>2. InPage(off, 0)
    <2> DEFINE r == off % PageSize
    <2>1. r \in 0..(PageSize - 1)
      BY <1>1
    <2> HIDE DEF r
    <2>2. r + 0 <= PageSize
      BY <1>1, <2>1
    <2> QED BY <2>2 DEF InPage, r
  <1> QED BY <1>2 DEF motr_obj_iovec_partial_page

(* motr_obj_iovec_split_2 of a range that begins with a page.              *)
LEMMA SplitAligned ==
    ASSUME NEW a \in ArgsType, NEW v \in VecType, v.off % PageSize = 0
    PROVE  Cut(a, motr_obj_iovec_split_2(a, v), v)
  <1> DEFINE rest == (v.off + v.len) % PageSize
             len1 == v.len - rest
             a1   == motr_obj_iovec_clone(a, v.off, len1, v.base)
             base == Plus(v.base, len1)
             off2 == v.off + len1
  <1>1. /\ PageSize \in Nat \ {0}
        /\ v.off \in Nat /\ v.len \in Nat /\ v.base \in BaseType
    BY VectorsAssumption DEF VecType
  <1>2. rest = v.len % PageSize /\ rest \in 0..(PageSize - 1) /\ len1 \in Nat /\ len1 % PageSize = 0
    <2> DEFINE q == v.len \div PageSize
               r == v.len % PageSize
               p == v.off \div PageSize
    <2>1. q \in Nat /\ r \in 0..(PageSize - 1) /\ v.len = PageSize * q + r
      BY <1>1, Division
    <2>2. p \in Nat /\ v.off = PageSize * p + 0
      BY <1>1, Division
    <2> HIDE DEF q, r, p
    <2>3. v.off + v.len = PageSize * (p + q) + r /\ p + q \in Nat /\ v.off + v.len \in Nat
      BY <1>1, <2>1, <2>2
    <2>4. rest = r
      BY <1>1, <2>1, <2>3, Remainder
    <2>5. PageSize * q \in Nat /\ v.len - r = PageSize * q /\ PageSize * q = PageSize * q + 0
          /\ 0 \in 0..(PageSize - 1)
      BY <1>1, <2>1
    <2>6. (PageSize * q) % PageSize = 0
      BY <1>1, <2>1, <2>5, Remainder
    <2> HIDE DEF rest
    <2> QED BY <2>1, <2>4, <2>5, <2>6 DEF r
  <1> HIDE DEF rest
  <1>3. off2 \in Nat /\ off2 % PageSize = 0
    <2>1. (v.off + len1) % PageSize = 0
      BY <1>1, <1>2, Multiples
    <2> QED BY <1>1, <1>2, <2>1
  <1>4. motr_obj_iovec_split_2(a, v) = motr_obj_iovec_partial_page(a1, off2, rest, base)
    <2>1. v.len - len1 = rest /\ rest # PageSize
      BY <1>1, <1>2
    <2>2. motr_obj_iovec_split_2(a, v) =
            IF v.len - len1 = PageSize
            THEN motr_obj_iovec_clone(a1, off2, v.len - len1, base)
            ELSE motr_obj_iovec_partial_page(a1, off2, v.len - len1, base)
      BY DEF motr_obj_iovec_split_2, rest
    <2> HIDE DEF len1, a1, off2, base
    <2> QED BY <2>1, <2>2
  <1>5. len1 <= v.len /\ v.len - len1 = rest
    BY <1>1, <1>2
  <1> HIDE DEF len1
  <1>6. FirstCut(a, a, v, 0)
    BY <1>1, NoCut DEF FirstCut
  <1>7. MiddleCut(a, a1, v, 0, len1)
    <2>1. Plus(v.base, 0) = v.base
      BY <1>1 DEF Plus, Base, BaseType
    <2>2. v.off + 0 = v.off /\ len1 - 0 = len1 /\ 0 <= len1
      BY <1>1, <1>2
    <2> QED BY <1>2, <2>1, <2>2 DEF MiddleCut
  <1>8. LastCut(a1, motr_obj_iovec_split_2(a, v), v, len1)
    <2>1. (off2 % PageSize) + rest <= PageSize
      BY <1>1, <1>2, <1>3
    <2> QED BY <1>4, <1>5, <2>1 DEF LastCut, InPage
  <1> QED BY <1>6, <1>7, <1>8 DEF Cut

(* A range that begins inside a page: its first part, up to the next page. *)
LEMMA FirstPart ==
    ASSUME NEW v \in VecType, v.off % PageSize # 0,
           FirstPage(v) < LastPage(v), NEW len1, len1 = PageSize - (v.off % PageSize),
           NEW off2, off2 = v.off + len1
    PROVE  /\ len1 \in Nat /\ off2 \in Nat /\ off2 = PageSize * (FirstPage(v) + 1)
           /\ off2 % PageSize = 0 /\ off2 < End(v) /\ InPage(v.off, len1)
  <1> DEFINE f == FirstPage(v)
             l == LastPage(v)
             r == v.off % PageSize
  <1>1. /\ PageSize \in Nat \ {0} /\ v.off \in Nat /\ v.len \in Nat /\ v.base \in BaseType
    BY VectorsAssumption DEF VecType
  <1>2. /\ f \in Nat /\ l \in Nat /\ f < l /\ v.off = PageSize * f + r /\ r \in 1..(PageSize - 1)
        /\ End(v) > PageSize * l /\ len1 = PageSize - r
    BY FirstAndLast
  <1> HIDE DEF f, l, r
  <1>3. PageSize * (f + 1) = PageSize * f + PageSize /\ PageSize * f \in Nat /\ PageSize * l \in Nat
    BY <1>1, <1>2
  <1>4. len1 \in Nat /\ off2 \in Nat /\ off2 = PageSize * (f + 1)
    BY <1>1, <1>2, <1>3
  <1>5. off2 % PageSize = 0
    <2>1. off2 = PageSize * (f + 1) + 0 /\ f + 1 \in Nat /\ 0 \in 0..(PageSize - 1)
      BY <1>1, <1>2, <1>4
    <2> QED BY <1>1, <1>4, <2>1, Remainder
  <1>6. off2 < End(v)
    <2>1. PageSize * f + PageSize <= PageSize * l
      BY <1>1, <1>2, Products
    <2>2. End(v) \in Nat
      BY <1>1 DEF End
    <2> QED BY <1>2, <1>3, <1>4, <2>1, <2>2
  <1>7. r + len1 <= PageSize
    BY <1>1, <1>2
  <1> QED BY <1>4, <1>5, <1>6, <1>7 DEF f, r, InPage

(* motr_obj_iovec_split_2 of a range in two pages.                         *)
LEMMA SplitTwo ==
    ASSUME NEW a \in ArgsType, NEW v \in VecType, v.off % PageSize # 0,
           LastPage(v) = FirstPage(v) + 1
    PROVE  Cut(a, motr_obj_iovec_split_2(a, v), v)
  <1> DEFINE len1 == PageSize - (v.off % PageSize)
             a1   == motr_obj_iovec_partial_page(a, v.off, len1, v.base)
             base == Plus(v.base, len1)
             off2 == v.off + len1
             len2 == v.len - len1
             b    == motr_obj_iovec_split_2(a, v)
  <1>1. /\ PageSize \in Nat \ {0}
        /\ v.off \in Nat /\ v.len \in Nat /\ End(v) \in Nat /\ End(v) = v.off + v.len
    BY VectorsAssumption DEF VecType, End
  <1>2. FirstPage(v) \in Nat /\ FirstPage(v) < LastPage(v)
        /\ End(v) <= PageSize * LastPage(v) + PageSize
    BY FirstAndLast
  <1>3. /\ len1 \in Nat /\ off2 \in Nat /\ off2 = PageSize * (FirstPage(v) + 1)
        /\ off2 % PageSize = 0 /\ off2 < End(v) /\ InPage(v.off, len1)
    BY <1>2, FirstPart
  <1>4. b = IF len2 = PageSize THEN motr_obj_iovec_clone(a1, off2, len2, base)
                               ELSE motr_obj_iovec_partial_page(a1, off2, len2, base)
    BY DEF motr_obj_iovec_split_2
  <1>5. len2 \in Nat /\ len2 <= PageSize /\ len1 <= v.len
    BY <1>1, <1>2, <1>3
  <1>6. FirstCut(a, a1, v, len1)
    BY <1>3 DEF FirstCut
  <1> HIDE DEF len1, a1, b
  <1>7. CASE len2 = PageSize
    <2>1. len2 % PageSize = 0
      BY <1>1, <1>7, PageOffIs
    <2>2. MiddleCut(a1, b, v, len1, v.len)
      BY <1>1, <1>3, <1>4, <1>5, <1>7, <2>1 DEF MiddleCut
    <2>3. v.len - v.len = 0 /\ v.len <= v.len /\ v.off + v.len \in Nat
      BY <1>1
    <2>4. LastCut(b, b, v, v.len)
      BY <2>3, NoCut DEF LastCut
    <2> QED BY <1>6, <2>2, <2>4 DEF Cut, b
  <1>8. CASE len2 # PageSize
    <2>1. (off2 % PageSize) + len2 <= PageSize
      BY <1>1, <1>3, <1>5
    <2>2. MiddleCut(a1, a1, v, len1, len1)
      BY <1>3 DEF MiddleCut
    <2>3. LastCut(a1, b, v, len1)
      BY <1>4, <1>5, <1>8, <2>1 DEF LastCut, InPage
    <2> QED BY <1>6, <2>2, <2>3 DEF Cut, b
  <1> QED BY <1>7, <1>8

(* motr_obj_iovec_split_3 of a range in more than two pages.               *)
LEMMA SplitThree ==
    ASSUME NEW a \in ArgsType, NEW v \in VecType, v.off % PageSize # 0,
           LastPage(v) > FirstPage(v) + 1
    PROVE  Cut(a, motr_obj_iovec_split_3(a, v), v)
  <1> DEFINE f    == FirstPage(v)
             l    == LastPage(v)
             len1 == PageSize - (v.off % PageSize)
             a1   == motr_obj_iovec_partial_page(a, v.off, len1, v.base)
             off2 == v.off + len1
             len2 == IF (v.off + v.len) % PageSize # 0 THEN (l - f - 1) * PageSize
                                                       ELSE (l - f) * PageSize
             base2 == Plus(v.base, len1)
             a2   == motr_obj_iovec_clone(a1, off2, len2, base2)
             len3 == v.len - len1 - len2
             off3 == v.off + len1 + len2
             base3 == Plus(v.base, len1 + len2)
             b    == motr_obj_iovec_partial_page(a2, off3, len3, base3)
  <1>1. /\ PageSize \in Nat \ {0} /\ v.base \in BaseType
        /\ v.off \in Nat /\ v.len \in Nat /\ End(v) \in Nat /\ End(v) = v.off + v.len
    BY VectorsAssumption DEF VecType, End
  <1>2. /\ f \in Nat /\ l \in Nat /\ f + 1 < l /\ f < l
        /\ End(v) > PageSize * l /\ End(v) <= PageSize * l + PageSize
    BY FirstAndLast
  <1>3. /\ len1 \in Nat /\ off2 \in Nat /\ off2 = PageSize * (f + 1)
        /\ off2 % PageSize = 0 /\ off2 < End(v) /\ InPage(v.off, len1)
    BY <1>2, FirstPart
  <1>4. motr_obj_iovec_split_3(a, v) = b
    BY DEF motr_obj_iovec_split_3
  <1> HIDE DEF f, l
  <1>5. /\ len2 \in Nat /\ len2 % PageSize = 0 /\ off2 + len2 <= End(v)
        /\ End(v) - (off2 + len2) <= PageSize
    <2> DEFINE k == IF (v.off + v.len) % PageSize # 0 THEN l - f - 1 ELSE l - f
    <2>1. k \in Nat /\ len2 = PageSize * k
      BY <1>1, <1>2
    <2>2. len2 % PageSize = 0 /\ len2 \in Nat
      <3>1. PageSize * k \in Nat /\ PageSize * k = PageSize * k + 0 /\ 0 \in 0..(PageSize - 1)
        BY <1>1, <2>1
      <3> HIDE DEF k
      <3>2. (PageSize * k) % PageSize = 0
        BY <1>1, <2>1, <3>1, Remainder
      <3> HIDE DEF len2
      <3> QED BY <2>1, <3>1, <3>2
    <2>3. off2 + len2 = PageSize * (f + 1 + k)
      <3> HIDE DEF k, len2, off2
      <3> QED BY <1>1, <1>2, <1>3, <2>1
    <2>4. CASE (v.off + v.len) % PageSize # 0
      <3>1. f + 1 + k = l
        BY <1>2, <2>4
      <3> HIDE DEF k, len2, off2
      <3>2. off2 + len2 = PageSize * l /\ PageSize * l \in Nat
        BY <1>1, <1>2, <2>3, <3>1
      <3> QED BY <1>1, <1>2, <2>2, <3>2
    <2>5. CASE (v.off + v.len) % PageSize = 0
      <3>1. f + 1 + k = l + 1
        BY <1>2, <2>5
      <3>2. off2 + len2 = PageSize * l + PageSize /\ PageSize * l \in Nat
        <4> HIDE DEF k, len2, off2
        <4> QED BY <1>1, <1>2, <2>3, <3>1
      <3>3. End(v) = PageSize * l + PageSize
        <4>1. (PageSize * l) % PageSize = 0
          <5>1. /\ PageSize * l \in Nat /\ l \in Nat
                /\ PageSize * l = PageSize * l + 0 /\ 0 \in 0..(PageSize - 1)
            BY <1>1, <1>2
          <5> QED BY <1>1, <5>1, Remainder
        <4>2. PageSize * l + PageSize <= End(v)
          BY <1>1, <1>2, <2>5, <3>2, <4>1, Multiples
        <4> QED BY <1>1, <1>2, <3>2, <4>2
      <3> HIDE DEF len2, off2, k
      <3> QED BY <1>1, <2>2, <3>2, <3>3
    <2> QED BY <2>2, <2>4, <2>5
  <1>6. /\ len3 \in Nat /\ len3 <= PageSize /\ off3 \in Nat /\ off3 = off2 + len2
        /\ len1 + len2 <= v.len /\ len1 + len2 \in Nat /\ len1 <= len1 + len2
        /\ v.off + (len1 + len2) = off3 /\ v.len - (len1 + len2) = len3 /\ (len1 + len2) - len1 = len2
    <2>1. /\ len1 \in Nat /\ len2 \in Nat /\ off2 + len2 <= End(v) /\ End(v) - (off2 + len2) <= PageSize
      BY <1>3, <1>5
    <2> HIDE DEF len1, len2
    <2> QED BY <1>1, <2>1
  <1>7. off3 % PageSize = 0
    <2>1. (off2 + len2) % PageSize = 0
      <3> HIDE DEF off2, len2
      <3> QED BY <1>1, <1>3, <1>5, Multiples
    <2> HIDE DEF off2, len2, off3
    <2> QED BY <1>6, <2>1
  <1>8. FirstCut(a, a1, v, len1)
    BY <1>3 DEF FirstCut
  <1> HIDE DEF len1, len2, len3, off3, a1
  <1>9. MiddleCut(a1, a2, v, len1, len1 + len2)
    BY <1>3, <1>5, <1>6 DEF MiddleCut
  <1> HIDE DEF a2
  <1>10. LastCut(a2, b, v, len1 + len2)
    <2>1. (off3 % PageSize) + len3 <= PageSize
      BY <1>1, <1>6, <1>7
    <2> QED BY <1>6, <2>1 DEF LastCut, InPage
  <1> QED BY <1>4, <1>8, <1>9, <1>10 DEF Cut

(* motr_obj_iovec_adjust cuts every vector so.                             *)
LEMMA AdjustCuts ==
    ASSUME NEW a \in ArgsType, NEW v \in VecType
    PROVE  Cut(a, AdjustOne(a, v), v)
  <1> DEFINE b == AdjustOne(a, v)
             p == motr_obj_iovec_partial_page(a, v.off, v.len, v.base)
  <1>1. /\ PageSize \in Nat \ {0} /\ v.base \in BaseType
        /\ v.off \in Nat /\ v.len \in Nat /\ End(v) \in Nat /\ End(v) = v.off + v.len
    BY VectorsAssumption DEF VecType, End
  <1>2. \A c : LastCut(c, c, v, v.len)
    <2>1. v.len - v.len = 0 /\ v.len <= v.len /\ v.off + v.len \in Nat
      BY <1>1
    <2> QED BY <2>1, NoCut DEF LastCut
  <1>3. ASSUME InPage(v.off, v.len), b = p PROVE Cut(a, b, v)
    <2>1. FirstCut(a, b, v, v.len) /\ MiddleCut(b, b, v, v.len, v.len)
      BY <1>1, <1>3 DEF FirstCut, MiddleCut
    <2> QED BY <1>2, <2>1 DEF Cut
  <1>4. CASE v.off % PageSize = 0 /\ v.len % PageSize = 0
    <2>1. b = motr_obj_iovec_clone(a, v.off, v.len, v.base)
      BY <1>4 DEF AdjustOne
    <2>2. FirstCut(a, a, v, 0)
      BY <1>1, NoCut DEF FirstCut
    <2>3. MiddleCut(a, b, v, 0, v.len)
      <3>1. Plus(v.base, 0) = v.base /\ v.off + 0 = v.off /\ v.len - 0 = v.len /\ 0 <= v.len
        BY <1>1 DEF Plus, Base, BaseType
      <3> QED BY <1>1, <1>4, <2>1, <3>1 DEF MiddleCut
    <2> QED BY <1>2, <2>2, <2>3 DEF Cut
  <1>5. CASE v.off % PageSize = 0 /\ v.len % PageSize # 0 /\ v.len > PageSize
    <2>1. b = motr_obj_iovec_split_2(a, v)
      BY <1>5 DEF AdjustOne, AdjustAlignedOff
    <2> QED BY <1>5, <2>1, SplitAligned
  <1>6. CASE v.off % PageSize = 0 /\ v.len % PageSize # 0 /\ ~(v.len > PageSize)
    <2>1. b = p
      BY <1>6 DEF AdjustOne, AdjustAlignedOff
    <2>2. InPage(v.off, v.len)
      BY <1>1, <1>6 DEF InPage
    <2> QED BY <1>3, <2>1, <2>2
  <1>7. CASE v.off % PageSize # 0
    <2>1. b = AdjustNonalignedOff(a, v)
      BY <1>7 DEF AdjustOne
    <2>2. CASE FirstPage(v) = LastPage(v)
      <3>1. b = p
        <4>1. FirstPage(v) \in Nat
          BY <1>7, FirstAndLast
        <4>2. LastPage(v) # FirstPage(v) + 1
          BY <2>2, <4>1
        <4> QED BY <2>1, <2>2, <4>2 DEF AdjustNonalignedOff
      <3>2. InPage(v.off, v.len)
        <4> DEFINE r == v.off % PageSize
                   f == PageSize * FirstPage(v)
        <4>1. v.off = f + r /\ r \in 1..(PageSize - 1) /\ End(v) <= f + PageSize /\ f \in Nat
          BY <1>1, <1>7, <2>2, FirstAndLast
        <4> HIDE DEF r, f
        <4>2. r + v.len <= PageSize
          BY <1>1, <4>1
        <4> QED BY <4>2 DEF r, InPage
      <3> QED BY <1>3, <3>1, <3>2
    <2>3. CASE LastPage(v) = FirstPage(v) + 1
      <3>1. FirstPage(v) \in Nat /\ FirstPage(v) # LastPage(v)
        BY <1>7, <2>3, FirstAndLast
      <3>2. b = motr_obj_iovec_split_2(a, v)
        BY <2>1, <2>3, <3>1 DEF AdjustNonalignedOff
      <3> QED BY <1>7, <2>3, <3>2, SplitTwo
    <2>4. CASE FirstPage(v) # LastPage(v) /\ LastPage(v) # FirstPage(v) + 1
      <3>1. FirstPage(v) \in Nat /\ LastPage(v) \in Nat /\ LastPage(v) > FirstPage(v) + 1
        BY <1>7, <2>4, FirstAndLast
      <3>2. b = motr_obj_iovec_split_3(a, v)
        BY <2>1, <2>4 DEF AdjustNonalignedOff
      <3> QED BY <1>7, <3>1, <3>2, SplitThree
    <2> QED BY <2>2, <2>3, <2>4
  <1> QED BY <1>4, <1>5, <1>6, <1>7

(* The numbers of a cut.                                                   *)
LEMMA CutNumbers ==
    ASSUME NEW v \in VecType, NEW x \in Nat, NEW y \in Nat, x <= y, y <= v.len
    PROVE  /\ v.off \in Nat /\ v.len \in Nat /\ v.base \in BaseType /\ v.base.at \in Nat
           /\ v.off + x \in Nat /\ v.off + y \in Nat /\ y - x \in Nat /\ v.len - y \in Nat
           /\ (v.off + x) + (y - x) = v.off + y /\ (v.off + y) + (v.len - y) = End(v)
           /\ Plus(v.base, x) \in BaseType /\ Plus(v.base, y) \in BaseType
           /\ End(v) \in Nat /\ y - x <= v.len
  <1>1. v.off \in Nat /\ v.len \in Nat /\ v.base \in BaseType /\ v.base.at \in Nat /\ v.base.r \in Nat
    BY DEF VecType, BaseType
  <1>2. Plus(v.base, x) \in BaseType /\ Plus(v.base, y) \in BaseType
    BY <1>1 DEF Plus, Base, BaseType
  <1> QED BY <1>1, <1>2 DEF End

(* One vector: it adds no more than motr_obj_rw_args_estimate_iovcnts      *)
(* counts for it, whole pages only, and behind what is there.              *)
LEMMA AdjustAdvances ==
    ASSUME NEW a \in ArgsType, NEW v \in VecType
    PROVE  Advances(a, AdjustOne(a, v), v.off, End(v), CeilDiv(v.len, MaxSizePerOp) + 2, 2)
  <1> DEFINE b == AdjustOne(a, v)
  <1>1. PICK x, y, a1, a2 : FirstCut(a, a1, v, x) /\ MiddleCut(a1, a2, v, x, y) /\ LastCut(a2, b, v, y)
    BY AdjustCuts DEF Cut
  <1>2. x \in Nat /\ y \in Nat /\ x <= y /\ y <= v.len
    BY <1>1 DEF FirstCut, MiddleCut, LastCut
  <1> HIDE DEF b
  <1> DEFINE n == CeilDiv(v.len, MaxSizePerOp)
             m == CeilDiv(y - x, MaxSizePerOp)
  <1>3. /\ v.off \in Nat /\ v.len \in Nat /\ v.base \in BaseType
        /\ v.off + x \in Nat /\ v.off + y \in Nat /\ y - x \in Nat /\ v.len - y \in Nat
        /\ (v.off + x) + (y - x) = v.off + y /\ (v.off + y) + (v.len - y) = End(v)
        /\ Plus(v.base, x) \in BaseType /\ Plus(v.base, y) \in BaseType
        /\ End(v) \in Nat /\ y - x <= v.len
    BY <1>2, CutNumbers
  <1>4. n \in Nat /\ m \in Nat /\ m <= n
    BY <1>3, CeilDivIs, CeilDivGrows, VectorsAssumption
  <1> HIDE DEF n, m
  <1>5. Advances(a, a1, v.off, v.off + x, 1, 1)
    BY <1>1, <1>2, <1>3, PartialAdvances DEF FirstCut, InPage
  <1>6. a1 \in ArgsType
    BY <1>5 DEF Advances, Grown
  <1>7. Advances(a1, a2, v.off + x, v.off + y, m, 0)
    <2>1. CASE x = y /\ a2 = a1
      <3>1. Advances(a1, a2, v.off + x, v.off + y, 0, 0)
        BY <1>3, <1>6, <2>1, AdvanceNone
      <3>2. 0 <= m /\ 0 <= 0
        BY <1>4
      <3> QED BY <1>3, <1>4, <1>6, <3>1, <3>2, AdvanceLess
    <2>2. CASE ~(x = y /\ a2 = a1)
      <3>1. /\ (v.off + x) % PageSize = 0 /\ (y - x) % PageSize = 0
            /\ a2 = motr_obj_iovec_clone(a1, v.off + x, y - x, Plus(v.base, x))
        BY <1>1, <2>2 DEF MiddleCut
      <3>2. Advances(a1, a2, v.off + x, (v.off + x) + (y - x), m, 0)
        BY <1>3, <1>6, <3>1, CloneAdvances DEF m
      <3> QED BY <1>3, <3>2
    <2> QED BY <2>1, <2>2
  <1>8. a2 \in ArgsType
    BY <1>7 DEF Advances, Grown
  <1>9. Advances(a2, b, v.off + y, End(v), 1, 1)
    <2>1. Advances(a2, b, v.off + y, (v.off + y) + (v.len - y), 1, 1)
      BY <1>1, <1>3, <1>8, PartialAdvances DEF LastCut, InPage
    <2> QED BY <1>3, <2>1
  <1>10. Advances(a, a2, v.off, v.off + y, 1 + m, 1 + 0)
    BY <1>3, <1>4, <1>5, <1>7, AdvanceTwice
  <1>11. Advances(a, b, v.off, End(v), (1 + m) + 1, (1 + 0) + 1)
    <2>1. 1 + m \in Nat /\ 1 + 0 \in Nat
      BY <1>4
    <2> QED BY <1>3, <1>9, <1>10, <2>1, AdvanceTwice
  <1>12. /\ (1 + m) + 1 \in Nat /\ n + 2 \in Nat /\ (1 + m) + 1 <= n + 2
         /\ (1 + 0) + 1 \in Nat /\ (1 + 0) + 1 <= 2
    BY <1>4
  <1>13. Advances(a, b, v.off, End(v), n + 2, 2)
    BY <1>3, <1>11, <1>12, AdvanceLess
  <1> QED BY <1>13 DEF b, n


(***************************************************************************)
(* The folds of the model as runs.                                         *)
(***************************************************************************)
(* motr_obj_iovec_adjust, vector by vector.                                *)
LEMMA AdjustRun ==
    ASSUME NEW s \in Seq(VecType), NEW a \in ArgsType
    PROVE  \E run \in [0..Len(s) -> ArgsType] :
             /\ run[0] = a /\ run[Len(s)] = motr_obj_iovec_adjust(a, s)
             /\ \A k \in 1..Len(s) : run[k] = AdjustOne(run[k - 1], s[k])
  <1> DEFINE G == [x \in ArgsType \X VecType |-> AdjustOne(x[1], x[2])]
             P(i) == i = [t \in SUBSET (1..Len(s)) |->
                            IF t = {} THEN a ELSE AdjustOne(i[t \ {Max(t)}], s[Max(t)])]
             iter == CHOOSE i : P(i)
  <1>1. \A b \in ArgsType, v \in VecType : AdjustOne(b, v) \in ArgsType
    BY AdjustAdvances DEF Advances, Grown
  <1>2. /\ G \in [ArgsType \X VecType -> ArgsType]
        /\ \A b \in ArgsType, v \in VecType : G[<<b, v>>] = AdjustOne(b, v)
    BY <1>1
  <1> HIDE DEF G
  <1>3. PICK f \in [SUBSET (1..Len(s)) -> ArgsType] : Iterates(f, G, a, s, Len(s))
    BY <1>2, FoldExists
  <1>4. P(f)
    <2>1. ASSUME NEW t \in SUBSET (1..Len(s))
          PROVE  f[t] = IF t = {} THEN a ELSE AdjustOne(f[t \ {Max(t)}], s[Max(t)])
      <3>1. f[t] = IF t = {} THEN a ELSE G[<<f[t \ {Max(t)}], s[Max(t)]>>]
        BY <1>3 DEF Iterates
      <3>2. t # {} => f[t \ {Max(t)}] \in ArgsType /\ s[Max(t)] \in VecType
        BY FoldArgs
      <3> QED BY <1>2, <3>1, <3>2
    <2> QED BY <2>1
  <1>5. P(iter)
    BY <1>4
  <1>6. motr_obj_iovec_adjust(a, s) = iter[1..Len(s)]
    <2>1. DOMAIN s = 1..Len(s)
      OBVIOUS
    <2>2. motr_obj_iovec_adjust(a, s) =
            (CHOOSE i : i = [t \in SUBSET DOMAIN s |->
               IF t = {} THEN a ELSE AdjustOne(i[t \ {Max(t)}], s[Max(t)])])[DOMAIN s]
      BY DEF motr_obj_iovec_adjust, FoldLeft, MapThenFoldSet
    <2> QED BY <2>1, <2>2
  <1> HIDE DEF iter
  <1>7. iter[{}] = a
    BY <1>5
  <1>8. ASSUME NEW k \in 1..Len(s), iter[1..(k - 1)] \in ArgsType
        PROVE  iter[1..k] = G[<<iter[1..(k - 1)], s[k]>>]
    <2>1. k \in Nat \ {0} /\ 1..k \in SUBSET (1..Len(s)) /\ s[k] \in VecType
      OBVIOUS
    <2>2. iter[1..k] = IF 1..k = {} THEN a ELSE AdjustOne(iter[(1..k) \ {Max(1..k)}], s[Max(1..k)])
      BY <1>5, <2>1
    <2>3. iter[1..k] = AdjustOne(iter[1..(k - 1)], s[k])
      BY <2>1, <2>2, LastOf
    <2> QED BY <1>2, <1>8, <2>1, <2>3
  <1>9. StepsBy(iter, G, a, s, ArgsType, VecType)
    BY <1>2, <1>7, <1>8 DEF StepsBy
  <1>10. PICK run : IsRun(run, G, a, s, ArgsType) /\ run[Len(s)] = iter[1..Len(s)]
    BY <1>9, FoldRun
  <1>11. \A k \in 1..Len(s) : k - 1 \in 0..Len(s) /\ s[k] \in VecType
    OBVIOUS
  <1>12. \A k \in 1..Len(s) : run[k] = AdjustOne(run[k - 1], s[k])
    BY <1>2, <1>10, <1>11 DEF IsRun
  <1> QED BY <1>6, <1>10, <1>12 DEF IsRun


(* What motr_obj_rw_args_estimate_iovcnts counts for a vector.             *)
RoomOf(v) == CeilDiv(v.len, MaxSizePerOp) + 2

(* The sums of the first k.                                                *)
IsRoomRun(r, s) ==
    /\ r \in [0..Len(s) -> Nat] /\ r[0] = 0
    /\ \A k \in 1..Len(s) : r[k] = r[k - 1] + RoomOf(s[k])

(* AlignedRoom, vector by vector.                                          *)
LEMMA RoomRun ==
    ASSUME NEW V, \A v \in V : v.len \in Nat, NEW s \in Seq(V)
    PROVE  /\ \E r : IsRoomRun(r, s) /\ r[Len(s)] = AlignedRoom(s)
           /\ \A k \in 1..Len(s) : RoomOf(s[k]) \in Nat
  <1> DEFINE G == [x \in Nat \X V |-> x[1] + RoomOf(x[2])]
             P(i) == i = [t \in SUBSET (1..Len(s)) |->
                            IF t = {} THEN 0 ELSE i[t \ {Max(t)}] + CeilDiv(s[Max(t)].len, MaxSizePerOp) + 2]
             iter == CHOOSE i : P(i)
  <1>1. \A v \in V : RoomOf(v) \in Nat
    <2>1. \A v \in V : CeilDiv(v.len, MaxSizePerOp) \in Nat
      BY CeilDivIs, VectorsAssumption
    <2> QED BY <2>1 DEF RoomOf
  <1>2. /\ G \in [Nat \X V -> Nat]
        /\ \A b \in Nat, v \in V : /\ G[<<b, v>>] = b + RoomOf(v)
                                   /\ G[<<b, v>>] = b + CeilDiv(v.len, MaxSizePerOp) + 2
    <2>1. \A v \in V : CeilDiv(v.len, MaxSizePerOp) \in Nat
      BY CeilDivIs, VectorsAssumption
    <2> QED BY <1>1, <2>1 DEF RoomOf
  <1> HIDE DEF G
  <1>3. PICK f \in [SUBSET (1..Len(s)) -> Nat] : Iterates(f, G, 0, s, Len(s))
    BY <1>2, FoldExists
  <1>4. P(f)
    <2>1. ASSUME NEW t \in SUBSET (1..Len(s))
          PROVE  f[t] = IF t = {} THEN 0 ELSE f[t \ {Max(t)}] + CeilDiv(s[Max(t)].len, MaxSizePerOp) + 2
      <3>1. f[t] = IF t = {} THEN 0 ELSE G[<<f[t \ {Max(t)}], s[Max(t)]>>]
        BY <1>3 DEF Iterates
      <3>2. t # {} => f[t \ {Max(t)}] \in Nat /\ s[Max(t)] \in V
        BY FoldArgs
      <3> QED BY <1>2, <3>1, <3>2
    <2> QED BY <2>1
  <1>5. P(iter)
    BY <1>4
  <1>6. AlignedRoom(s) = iter[1..Len(s)]
    <2>1. DOMAIN s = 1..Len(s)
      OBVIOUS
    <2>2. AlignedRoom(s) =
            (CHOOSE i : i = [t \in SUBSET DOMAIN s |->
               IF t = {} THEN 0 ELSE i[t \ {Max(t)}] + CeilDiv(s[Max(t)].len, MaxSizePerOp) + 2])[DOMAIN s]
      BY DEF AlignedRoom, FoldLeft, MapThenFoldSet
    <2> QED BY <2>1, <2>2
  <1> HIDE DEF iter
  <1>7. iter[{}] = 0
    BY <1>5
  <1>8. ASSUME NEW k \in 1..Len(s), iter[1..(k - 1)] \in Nat
        PROVE  iter[1..k] = G[<<iter[1..(k - 1)], s[k]>>]
    <2>1. k \in Nat \ {0} /\ 1..k \in SUBSET (1..Len(s)) /\ s[k] \in V
      OBVIOUS
    <2>2. iter[1..k] = IF 1..k = {} THEN 0
                       ELSE iter[(1..k) \ {Max(1..k)}] + CeilDiv(s[Max(1..k)].len, MaxSizePerOp) + 2
      BY <1>5, <2>1
    <2>3. iter[1..k] = iter[1..(k - 1)] + CeilDiv(s[k].len, MaxSizePerOp) + 2
      BY <2>1, <2>2, LastOf
    <2> QED BY <1>2, <1>8, <2>1, <2>3
  <1>9. StepsBy(iter, G, 0, s, Nat, V)
    BY <1>2, <1>7, <1>8 DEF StepsBy
  <1>10. PICK run : IsRun(run, G, 0, s, Nat) /\ run[Len(s)] = iter[1..Len(s)]
    BY <1>9, FoldRun
  <1>11. \A k \in 1..Len(s) : k - 1 \in 0..Len(s) /\ s[k] \in V
    OBVIOUS
  <1>12. IsRoomRun(run, s)
    BY <1>2, <1>10, <1>11 DEF IsRun, IsRoomRun
  <1> QED BY <1>1, <1>6, <1>10, <1>11, <1>12


(* Vectors of the same lengths need the same room.                         *)
LEMMA RoomSame ==
    ASSUME NEW V, \A v \in V : v.len \in Nat, NEW W, \A v \in W : v.len \in Nat,
           NEW s \in Seq(V), NEW t \in Seq(W), Len(s) = Len(t),
           \A k \in 1..Len(s) : s[k].len = t[k].len
    PROVE  AlignedRoom(s) = AlignedRoom(t)
  <1>1. PICK r : IsRoomRun(r, s) /\ r[Len(s)] = AlignedRoom(s)
    BY RoomRun
  <1>2. PICK q : IsRoomRun(q, t) /\ q[Len(t)] = AlignedRoom(t)
    BY RoomRun
  <1> DEFINE T == {k \in Nat : q[k] = r[k]}
  <1>3. 0 \in T /\ Len(s) \in Nat /\ Len(s) \in 0..Len(s)
    BY <1>1, <1>2 DEF IsRoomRun
  <1>4. ASSUME NEW k \in 0..(Len(s) - 1), k \in T PROVE k + 1 \in T
    <2>1. k + 1 \in 1..Len(s) /\ (k + 1) - 1 = k /\ k + 1 \in Nat
      BY <1>3
    <2>2. r[k + 1] = r[k] + RoomOf(s[k + 1]) /\ q[k + 1] = q[k] + RoomOf(t[k + 1])
      BY <1>1, <1>2, <2>1 DEF IsRoomRun
    <2>3. RoomOf(s[k + 1]) = RoomOf(t[k + 1])
      BY <2>1 DEF RoomOf
    <2> QED BY <1>4, <2>1, <2>2, <2>3
  <1>5. 0..Len(s) \subseteq T
    BY <1>3, <1>4, Induct
  <1>6. q[Len(s)] = r[Len(s)]
    BY <1>3, <1>5
  <1> QED BY <1>1, <1>2, <1>6

(* Two vectors change places.                                              *)
LEMMA RoomSwap ==
    ASSUME NEW s \in Seq(VecType), NEW i \in 1..Len(s), NEW m \in 1..Len(s), i <= m,
           NEW t, t = [s EXCEPT ![i] = s[m], ![m] = s[i]]
    PROVE  /\ t \in Seq(VecType) /\ Len(t) = Len(s) /\ AlignedRoom(t) = AlignedRoom(s)
           /\ Range(t) = Range(s)
  <1> DEFINE n == Len(s)
  <1>1. /\ n \in Nat /\ i \in Nat /\ m \in Nat /\ i >= 1 /\ m <= n /\ i <= n
        /\ \A k \in 1..n : s[k] \in VecType
    OBVIOUS
  <1>2. t \in Seq(VecType) /\ Len(t) = n
    BY <1>1
  <1>3. \A k \in 1..n : t[k] = IF k = m THEN s[i] ELSE IF k = i THEN s[m] ELSE s[k]
    OBVIOUS
  <1>13. Range(t) = Range(s)
    <2>1. DOMAIN s = 1..n /\ DOMAIN t = 1..n
      BY <1>2
    <2>2. \A k \in 1..n : \E j \in 1..n : t[k] = s[j]
      BY <1>3
    <2>3. \A k \in 1..n : \E j \in 1..n : s[k] = t[j]
      BY <1>3
    <2>4. Range(t) = {t[k] : k \in 1..n} /\ Range(s) = {s[k] : k \in 1..n}
      BY <2>1 DEF Range
    <2> HIDE DEF n
    <2>5. ASSUME NEW v \in {t[k] : k \in 1..n} PROVE v \in {s[k] : k \in 1..n}
      BY <2>2
    <2>6. ASSUME NEW v \in {s[k] : k \in 1..n} PROVE v \in {t[k] : k \in 1..n}
      BY <2>3
    <2> QED BY <2>4, <2>5, <2>6
  <1>4. \A v \in VecType : v.len \in Nat
    BY DEF VecType
  <1>5. PICK r : IsRoomRun(r, s) /\ r[n] = AlignedRoom(s)
    BY <1>4, RoomRun
  <1>6. PICK q : IsRoomRun(q, t) /\ q[n] = AlignedRoom(t)
    BY <1>2, <1>4, RoomRun
  <1>7. \A k \in 1..n : RoomOf(s[k]) \in Nat
    BY <1>4, RoomRun
  <1> DEFINE x == RoomOf(s[i])
             y == RoomOf(s[m])
             D(k) == IF i <= k /\ k < m THEN y - x ELSE 0
             T == {k \in Nat : q[k] = r[k] + D(k)}
  <1>8. x \in Nat /\ y \in Nat
    BY <1>7
  <1>9. 0 \in T
    BY <1>1, <1>5, <1>6 DEF IsRoomRun
  <1>10. ASSUME NEW k \in 0..(n - 1), k \in T PROVE k + 1 \in T
    <2>1. k + 1 \in 1..n /\ (k + 1) - 1 = k /\ k \in 0..n /\ k + 1 \in Nat
      BY <1>1
    <2>2. r[k + 1] = r[k] + RoomOf(s[k + 1]) /\ q[k + 1] = q[k] + RoomOf(t[k + 1])
      BY <1>2, <1>5, <1>6, <2>1 DEF IsRoomRun
    <2>3. RoomOf(t[k + 1]) = IF k + 1 = m THEN x ELSE IF k + 1 = i THEN y ELSE RoomOf(s[k + 1])
      BY <1>3, <2>1
    <2>4. k + 1 = m => RoomOf(s[k + 1]) = y
      OBVIOUS
    <2>5. k + 1 = i => RoomOf(s[k + 1]) = x
      OBVIOUS
    <2>6. r[k] \in Nat /\ q[k] = r[k] + D(k) /\ RoomOf(s[k + 1]) \in Nat
      BY <1>5, <1>7, <1>10, <2>1 DEF IsRoomRun
    <2> HIDE DEF x, y
    <2>7. q[k + 1] = r[k + 1] + D(k + 1)
      BY <1>1, <1>8, <2>1, <2>2, <2>3, <2>4, <2>5, <2>6, SMTT(30)
    <2> QED BY <2>1, <2>7
  <1>11. 0..n \subseteq T
    <2> HIDE DEF T
    <2> QED BY <1>1, <1>9, <1>10, Induct
  <1>12. q[n] = r[n]
    <2>1. n \in T
      BY <1>1, <1>11
    <2>2. D(n) = 0 /\ r[n] \in Nat
      BY <1>1, <1>5 DEF IsRoomRun
    <2> HIDE DEF D
    <2> QED BY <2>1, <2>2
  <1> QED BY <1>2, <1>5, <1>6, <1>12, <1>13


(* What a step of the sort keeps.                                          *)
LEMMA SortPlaceKeeps ==
    ASSUME NEW s \in Seq(VecType), NEW i \in 1..Len(s)
    PROVE  /\ SortPlace(s, i) \in Seq(VecType) /\ Len(SortPlace(s, i)) = Len(s)
           /\ AlignedRoom(SortPlace(s, i)) = AlignedRoom(s) /\ Range(SortPlace(s, i)) = Range(s)
  <1> DEFINE n == Len(s)
             offs == {s[j].off : j \in i..n}
             S == {j \in i..n : \A k \in i..n : s[j].off <= s[k].off}
  <1>1. /\ n \in Nat /\ i \in Nat /\ i \in i..n /\ i..n \in SUBSET Nat
        /\ \A j \in i..n : j \in 1..n /\ i <= j
    OBVIOUS
  <1>2. \A j \in i..n : s[j].off \in Nat
    <2>1. \A j \in i..n : s[j] \in VecType
      BY <1>1
    <2> QED BY <2>1 DEF VecType
  <1>3. PICK x \in offs : \A y \in offs : x <= y
    <2>1. offs \in SUBSET Nat /\ offs # {}
      BY <1>1, <1>2
    <2> HIDE DEF offs
    <2> QED BY <2>1, Least
  <1>4. S # {} /\ S \in SUBSET Nat
    <2>1. PICK j \in i..n : x = s[j].off
      BY <1>3
    <2>2. j \in S
      BY <1>3, <2>1
    <2> QED BY <1>1, <2>2
  <1>5. S \subseteq i..n
    OBVIOUS
  <1>6. PICK m \in S : \A y \in S : m <= y
    <2> HIDE DEF S
    <2> QED BY <1>4, Least
  <1>7. Min(S) \in S
    <2> HIDE DEF S
    <2> QED BY <1>6 DEF Min
  <1>8. Min(S) \in 1..n /\ i <= Min(S)
    BY <1>1, <1>5, <1>7
  <1>9. SortPlace(s, i) = [s EXCEPT ![i] = s[Min(S)], ![Min(S)] = s[i]]
    BY DEF SortPlace
  <1> HIDE DEF S
  <1> QED BY <1>8, <1>9, RoomSwap

(* What motr_obj_iovec_sort keeps.                                         *)
LEMMA SortKeeps ==
    ASSUME NEW s \in Seq(VecType)
    PROVE  /\ motr_obj_iovec_sort(s) \in Seq(VecType) /\ Len(motr_obj_iovec_sort(s)) = Len(s)
           /\ AlignedRoom(motr_obj_iovec_sort(s)) = AlignedRoom(s)
           /\ Range(motr_obj_iovec_sort(s)) = Range(s)
  <1> DEFINE n == Len(s)
             Same(t) == Len(t) = n /\ AlignedRoom(t) = AlignedRoom(s) /\ Range(t) = Range(s)
             A == {t \in Seq(VecType) : Same(t)}
             V == 1..n
             w == [i \in 1..n |-> i]
             G == [x \in A \X V |-> SortPlace(x[1], x[2])]
             P(i) == i = [t \in SUBSET (1..Len(w)) |->
                            IF t = {} THEN s ELSE SortPlace(i[t \ {Max(t)}], w[Max(t)])]
             iter == CHOOSE i : P(i)
  <1>1. n \in Nat /\ w \in Seq(V) /\ Len(w) = n /\ DOMAIN w = 1..n /\ DOMAIN s = 1..n /\ s \in A
    OBVIOUS
  <1>2. \A t \in A, i \in V : SortPlace(t, i) \in A
    BY SortPlaceKeeps
  <1>3. motr_obj_iovec_sort(s) = iter[1..Len(w)]
    <2>1. motr_obj_iovec_sort(s) =
            (CHOOSE i : i = [t \in SUBSET DOMAIN w |->
               IF t = {} THEN s ELSE SortPlace(i[t \ {Max(t)}], w[Max(t)])])[DOMAIN w]
      BY <1>1 DEF motr_obj_iovec_sort, FoldLeft, MapThenFoldSet
    <2> HIDE DEF w
    <2> QED BY <1>1, <2>1
  <1>4. \A t \in A : t \in Seq(VecType) /\ Same(t)
    OBVIOUS
  <1> HIDE DEF A, V, w, n
  <1>5. /\ G \in [A \X V -> A]
        /\ \A b \in A, v \in V : G[<<b, v>>] = SortPlace(b, v)
    BY <1>2
  <1> HIDE DEF G
  <1>6. PICK f \in [SUBSET (1..Len(w)) -> A] : Iterates(f, G, s, w, Len(w))
    BY <1>1, <1>5, FoldExists
  <1>7. P(f)
    <2>1. ASSUME NEW t \in SUBSET (1..Len(w))
          PROVE  f[t] = IF t = {} THEN s ELSE SortPlace(f[t \ {Max(t)}], w[Max(t)])
      <3>1. f[t] = IF t = {} THEN s ELSE G[<<f[t \ {Max(t)}], w[Max(t)]>>]
        BY <1>6 DEF Iterates
      <3>2. t # {} => f[t \ {Max(t)}] \in A /\ w[Max(t)] \in V
        BY <1>1, FoldArgs
      <3> QED BY <1>5, <3>1, <3>2
    <2> QED BY <2>1
  <1>8. P(iter)
    BY <1>7
  <1> HIDE DEF iter
  <1>9. iter[{}] = s
    BY <1>8
  <1>10. ASSUME NEW k \in 1..Len(w), iter[1..(k - 1)] \in A
         PROVE  iter[1..k] = G[<<iter[1..(k - 1)], w[k]>>]
    <2>1. k \in Nat \ {0} /\ 1..k \in SUBSET (1..Len(w)) /\ w[k] \in V
      BY <1>1
    <2>2. iter[1..k] = IF 1..k = {} THEN s ELSE SortPlace(iter[(1..k) \ {Max(1..k)}], w[Max(1..k)])
      BY <1>8, <2>1
    <2>3. iter[1..k] = SortPlace(iter[1..(k - 1)], w[k])
      BY <2>1, <2>2, LastOf
    <2> QED BY <1>5, <1>10, <2>1, <2>3
  <1>11. StepsBy(iter, G, s, w, A, V)
    BY <1>1, <1>5, <1>9, <1>10 DEF StepsBy
  <1>12. PICK run : IsRun(run, G, s, w, A) /\ run[Len(w)] = iter[1..Len(w)]
    BY <1>11, FoldRun
  <1>13. run[Len(w)] \in A
    BY <1>1, <1>12 DEF IsRun
  <1> QED BY <1>3, <1>4, <1>12, <1>13 DEF n


(* The application's vectors, with their buffers.                          *)
LEMMA BuffersKeep ==
    ASSUME NEW iovs \in Seq(Ranges)
    PROVE  /\ WithBuffers(iovs) \in Seq(VecType) /\ Len(WithBuffers(iovs)) = Len(iovs)
           /\ AlignedRoom(WithBuffers(iovs)) = AlignedRoom(iovs)
  <1> DEFINE s == WithBuffers(iovs)
             n == Len(iovs)
  <1>1. n \in Nat /\ DOMAIN iovs = 1..n /\ \A k \in 1..n : k \in Nat /\ iovs[k] \in Ranges
    OBVIOUS
  <1>2. \A k \in 1..n : iovs[k].off \in Nat /\ iovs[k].len \in Nat
    BY <1>1 DEF Ranges
  <1>3. s = [k \in 1..n |-> [off |-> iovs[k].off, len |-> iovs[k].len, base |-> [r |-> k, at |-> 0]]]
    BY <1>1 DEF WithBuffers, Iov, Base
  <1>4. \A k \in 1..n : /\ s[k] \in VecType
                        /\ s[k].len = iovs[k].len
    BY <1>1, <1>2, <1>3 DEF VecType, BaseType
  <1>5. s \in Seq(VecType) /\ Len(s) = n
    <2>1. DOMAIN s = 1..n /\ s = [k \in 1..n |-> s[k]]
      BY <1>3
    <2> HIDE DEF s
    <2> QED BY <1>1, <1>4, <2>1
  <1>6. (\A v \in VecType : v.len \in Nat) /\ (\A v \in Ranges : v.len \in Nat)
    BY DEF VecType, Ranges
  <1> HIDE DEF s
  <1>7. AlignedRoom(s) = AlignedRoom(iovs)
    BY <1>4, <1>5, <1>6, RoomSame
  <1> QED BY <1>5, <1>7 DEF s

(* motr_obj_iovec_adjust for all vectors of a call.                        *)
LEMMA AdjustGrown ==
    ASSUME NEW s \in Seq(VecType), NEW a \in ArgsType, NEW b, b = motr_obj_iovec_adjust(a, s)
    PROVE  /\ Grown(a, b, AlignedRoom(s), 2 * Len(s)) /\ AlignedRoom(s) \in Nat
           /\ (PageSized /\ PagedArgs(a) /\ InOrder(a, 0) /\ ~Overlapping(s))
                => Ordered(b.aligned) /\ Ordered(b.rbw)
  <1> DEFINE n == Len(s)
  <1>1. /\ n \in Nat /\ n \in 0..n
        /\ \A k \in 1..n : s[k] \in VecType /\ End(s[k]) \in Nat /\ s[k].off \in Nat
    <2>1. n \in Nat /\ n \in 0..n /\ \A k \in 1..n : s[k] \in VecType
      OBVIOUS
    <2>2. \A v \in VecType : v.off \in Nat /\ End(v) \in Nat
      BY DEF VecType, End
    <2> QED BY <2>1, <2>2
  <1>2. \A v \in VecType : v.len \in Nat
    BY DEF VecType
  <1>3. PICK run \in [0..n -> ArgsType] :
             /\ run[0] = a /\ run[n] = b
             /\ \A k \in 1..n : run[k] = AdjustOne(run[k - 1], s[k])
    BY AdjustRun
  <1>4. PICK r : IsRoomRun(r, s) /\ r[n] = AlignedRoom(s)
    BY <1>2, RoomRun
  <1>5. ASSUME NEW k \in 0..(n - 1)
        PROVE  /\ k + 1 \in 1..n /\ k \in 0..n /\ k \in Nat /\ s[k + 1] \in VecType
               /\ run[k] \in ArgsType /\ r[k] \in Nat
               /\ RoomOf(s[k + 1]) \in Nat /\ r[k + 1] = r[k] + RoomOf(s[k + 1])
               /\ Advances(run[k], run[k + 1], s[k + 1].off, End(s[k + 1]), RoomOf(s[k + 1]), 2)
    <2>1. k + 1 \in 1..n /\ k \in 0..n /\ k \in Nat /\ (k + 1) - 1 = k
      BY <1>1
    <2>2. /\ s[k + 1] \in VecType /\ run[k] \in ArgsType /\ r[k] \in Nat
          /\ r[k + 1] = r[k] + RoomOf(s[k + 1]) /\ run[k + 1] = AdjustOne(run[k], s[k + 1])
      BY <1>1, <1>3, <1>4, <2>1 DEF IsRoomRun
    <2>3. RoomOf(s[k + 1]) \in Nat
      BY <1>2, <2>1, RoomRun
    <2>4. Advances(run[k], run[k + 1], s[k + 1].off, End(s[k + 1]), RoomOf(s[k + 1]), 2)
      BY <2>2, AdjustAdvances DEF RoomOf
    <2> QED BY <2>1, <2>2, <2>3, <2>4
  <1>6. Grown(a, b, AlignedRoom(s), 2 * n)
    <2> DEFINE T == {k \in Nat : Grown(a, run[k], r[k], 2 * k)}
    <2>1. 0 \in T
      <3>1. Grown(a, a, 0, 0)
        BY ArgsCounts DEF Grown
      <3> QED BY <1>3, <1>4, <3>1 DEF IsRoomRun
    <2>2. ASSUME NEW k \in 0..(n - 1), k \in T PROVE k + 1 \in T
      <3>1. Grown(a, run[k], r[k], 2 * k) /\ 2 * k \in Nat
        BY <1>5, <2>2
      <3>2. Grown(run[k], run[k + 1], RoomOf(s[k + 1]), 2) /\ 2 \in Nat
        BY <1>5 DEF Advances
      <3>3. Grown(a, run[k + 1], r[k] + RoomOf(s[k + 1]), 2 * k + 2)
        BY <1>5, <3>1, <3>2, GrownTwice
      <3>4. 2 * k + 2 = 2 * (k + 1) /\ k + 1 \in Nat
        BY <1>5
      <3> QED BY <1>5, <3>3, <3>4
    <2>3. 0..n \subseteq T
      <3> HIDE DEF T
      <3> QED BY <1>1, <2>1, <2>2, Induct
    <2> QED BY <1>1, <1>3, <1>4, <2>3
  <1>7. AlignedRoom(s) \in Nat
    BY <1>1, <1>4 DEF IsRoomRun
  <1>8. ASSUME PageSized, PagedArgs(a), InOrder(a, 0), ~Overlapping(s)
        PROVE  Ordered(b.aligned) /\ Ordered(b.rbw)
    <2> DEFINE e(k) == IF k = 0 THEN 0 ELSE End(s[k])
               T == {k \in Nat : PagedArgs(run[k]) /\ InOrder(run[k], e(k))}
    <2>1. 0 \in T
      BY <1>3, <1>8
    <2>2. ASSUME NEW k \in 0..(n - 1), k \in T PROVE k + 1 \in T
      <3>1. e(k) \in Nat /\ e(k) <= s[k + 1].off
        <4>1. CASE k = 0
          BY <1>1, <1>5, <4>1
        <4>2. CASE k # 0
          <5>1. k \in 1..n /\ k + 1 \in 2..n /\ (k + 1) - 1 = k
            BY <1>1, <1>5, <4>2
          <5>2. ~(s[k + 1].off < End(s[k]))
            BY <1>8, <5>1 DEF Overlapping, End
          <5>3. s[k + 1].off \in Nat /\ End(s[k]) \in Nat
            BY <1>1, <1>5, <5>1
          <5> QED BY <4>2, <5>2, <5>3
        <4> QED BY <4>1, <4>2
      <3>2. PagedArgs(run[k]) /\ InOrder(run[k], e(k))
        BY <2>2
      <3> HIDE DEF e
      <3>3. PagedArgs(run[k + 1]) /\ InOrder(run[k + 1], End(s[k + 1]))
        BY <1>5, <1>8, <3>1, <3>2 DEF Advances, Grown
      <3>4. e(k + 1) = End(s[k + 1]) /\ k + 1 \in Nat
        BY <1>5 DEF e
      <3> QED BY <3>3, <3>4
    <2>3. 0..n \subseteq T
      <3> HIDE DEF T
      <3> QED BY <1>1, <2>1, <2>2, Induct
    <2>4. InOrder(run[n], e(n))
      BY <1>1, <2>3
    <2> QED BY <1>3, <2>4 DEF InOrder
  <1> QED BY <1>6, <1>7, <1>8


(* What the lists of a call promise: there is room for them; they are of   *)
(* whole pages; and those of a write are of different bytes.               *)
Disjoint(s) == \A i, j \in DOMAIN s : i # j => BytesOf(s[i]) \cap BytesOf(s[j]) = {}

Legal(s, w) == (\A i \in DOMAIN s : Paged(s[i])) /\ (w => Disjoint(s))

Roomy(a, iovs) ==
    /\ Len(a.aligned) <= AlignedRoom(iovs) /\ Len(a.rbw) <= CopyRoom(iovs)
    /\ Len(a.dc) <= CopyRoom(iovs) /\ a.pages <= CopyRoom(iovs)

(* The args of a call.                                                     *)
LEMMA AdjustedIs ==
    ASSUME moa_size \in Nat, NEW w \in BOOLEAN, NEW iovs \in Seq(Ranges), NEW b, b = Adjusted(w, iovs)
    PROVE  /\ b \in ArgsType /\ b.is_write = w /\ b.iovcnt = Len(iovs) /\ Roomy(b, iovs)
           /\ PageSized => PagedArgs(b)
           /\ (PageSized /\ ~Overlapping(motr_obj_iovec_sort(WithBuffers(iovs))))
                => Ordered(b.aligned) /\ Ordered(b.rbw)
  <1> DEFINE a == motr_obj_rw_args_alloc(w, moa_size, Len(iovs))
             s == motr_obj_iovec_sort(WithBuffers(iovs))
  <1>1. a = [is_write |-> w, size |-> moa_size, iovcnt |-> Len(iovs),
             aligned |-> <<>>, rbw |-> <<>>, dc |-> <<>>, pages |-> 0]
    BY DEF motr_obj_rw_args_alloc
  <1>2. Len(iovs) \in Nat
    OBVIOUS
  <1>3. /\ a \in ArgsType /\ a.is_write = w /\ a.iovcnt = Len(iovs)
        /\ Len(a.aligned) = 0 /\ Len(a.rbw) = 0 /\ Len(a.dc) = 0 /\ a.pages = 0
    BY <1>1, <1>2 DEF ArgsType
  <1>4. PagedArgs(a) /\ InOrder(a, 0)
    <2>1. DOMAIN a.aligned = {} /\ DOMAIN a.rbw = {} /\ a.aligned = <<>>
      BY <1>1
    <2> HIDE DEF a
    <2> QED BY <2>1 DEF PagedArgs, InOrder, AllPaged, Ordered
  <1>5. /\ s \in Seq(VecType) /\ Len(s) = Len(iovs) /\ AlignedRoom(s) = AlignedRoom(iovs)
    BY BuffersKeep, SortKeeps
  <1>6. b = motr_obj_iovec_adjust(a, s)
    BY DEF Adjusted
  <1> HIDE DEF a, s
  <1>7. /\ Grown(a, b, AlignedRoom(s), 2 * Len(s)) /\ AlignedRoom(s) \in Nat
        /\ (PageSized /\ PagedArgs(a) /\ InOrder(a, 0) /\ ~Overlapping(s))
             => Ordered(b.aligned) /\ Ordered(b.rbw)
    BY <1>3, <1>5, <1>6, AdjustGrown
  <1>8. b \in ArgsType /\ Len(b.aligned) \in Nat /\ Len(b.rbw) \in Nat /\ Len(b.dc) \in Nat /\ b.pages \in Nat
    BY <1>7, ArgsCounts DEF Grown
  <1>9. Roomy(b, iovs)
    BY <1>2, <1>3, <1>5, <1>7, <1>8 DEF Grown, Roomy, CopyRoom
  <1>10. b.is_write = w /\ b.iovcnt = Len(iovs) /\ (PageSized => PagedArgs(b))
    BY <1>3, <1>4, <1>7 DEF Grown
  <1> QED BY <1>4, <1>7, <1>8, <1>9, <1>10 DEF s

(* Ranges in order have no byte in common.                                 *)
LEMMA OrderedDisjoint ==
    ASSUME NEW s \in Seq(VecType), Ordered(s)
    PROVE  Disjoint(s)
  <1> SUFFICES ASSUME NEW i \in DOMAIN s, NEW j \in DOMAIN s, i # j
               PROVE  BytesOf(s[i]) \cap BytesOf(s[j]) = {}
    BY DEF Disjoint
  <1>1. DOMAIN s = 1..Len(s) /\ i \in Nat /\ j \in Nat /\ s[i] \in VecType /\ s[j] \in VecType
    OBVIOUS
  <1>2. End(s[i]) <= s[j].off \/ End(s[j]) <= s[i].off
    <2>1. i < j \/ j < i
      BY <1>1
    <2> QED BY <2>1 DEF Ordered
  <1>3. \A u, v \in VecType : End(u) <= v.off => BytesOf(u) \cap BytesOf(v) = {}
    BY DEF VecType, End, BytesOf
  <1> QED BY <1>1, <1>2, <1>3

(* motr_obj_read_before_write_optimise only makes vectors empty.           *)
LEMMA OptimisedIs ==
    ASSUME NEW a \in ArgsType, NEW b, b = motr_obj_read_before_write_optimise(a)
    PROVE  /\ b \in ArgsType /\ b.is_write = a.is_write /\ b.iovcnt = a.iovcnt
           /\ b.aligned = a.aligned /\ b.dc = a.dc /\ b.pages = a.pages /\ Len(b.rbw) = Len(a.rbw)
           /\ \A i \in 1..Len(b.rbw) : b.rbw[i] = a.rbw[i] \/ (b.rbw[i].off = 0 /\ b.rbw[i].len = 0)
  <1> DEFINE n == Len(a.rbw)
  <1>1. a.rbw \in Seq(VecType) /\ n \in Nat /\ DOMAIN a.rbw = 1..n /\ \A i \in 1..n : a.rbw[i] \in VecType
    BY DEF ArgsType
  <1>2. /\ b.is_write = a.is_write /\ b.iovcnt = a.iovcnt /\ b.size = a.size
        /\ b.aligned = a.aligned /\ b.dc = a.dc /\ b.pages = a.pages
        /\ DOMAIN b.rbw = 1..n
        /\ b = [a EXCEPT !.rbw = b.rbw] /\ b.rbw = [i \in 1..n |-> b.rbw[i]]
        /\ \A i \in 1..n : b.rbw[i] = a.rbw[i] \/ b.rbw[i] = Iov(0, 0, a.rbw[i].base)
    BY <1>1 DEF motr_obj_read_before_write_optimise, ArgsType
  <1>3. \A i \in 1..n : /\ b.rbw[i] \in VecType
                        /\ b.rbw[i] = a.rbw[i] \/ (b.rbw[i].off = 0 /\ b.rbw[i].len = 0)
    <2>1. \A v \in VecType : LET u == Iov(0, 0, v.base) IN u \in VecType /\ u.off = 0 /\ u.len = 0
      BY DEF Iov, VecType
    <2>2. \A i \in 1..n : /\ a.rbw[i] \in VecType
                          /\ b.rbw[i] = a.rbw[i] \/ b.rbw[i] = Iov(0, 0, a.rbw[i].base)
      BY <1>1, <1>2
    <2> QED BY <2>1, <2>2
  <1>4. b.rbw \in Seq(VecType) /\ Len(b.rbw) = n
    <2> DEFINE t == b.rbw
    <2>1. t = [i \in 1..n |-> t[i]] /\ \A i \in 1..n : t[i] \in VecType
      BY <1>2, <1>3
    <2> HIDE DEF t
    <2>2. t \in Seq(VecType) /\ Len(t) = n
      BY <1>1, <2>1
    <2> QED BY <2>2 DEF t
  <1>5. b \in ArgsType
    BY <1>2, <1>4 DEF ArgsType
  <1> QED BY <1>2, <1>3, <1>4, <1>5


(* Nothing takes no bytes.                                                 *)
LEMMA SumLenNone == SumLen(<<>>) = 0
  <1> DEFINE P(i) == i = [t \in SUBSET {} |-> IF t = {} THEN 0 ELSE i[t \ {Max(t)}] + <<>>[Max(t)].len]
  <1>1. P([t \in SUBSET {} |-> 0])
    OBVIOUS
  <1>2. P(CHOOSE i : P(i))
    BY <1>1
  <1>3. (CHOOSE i : P(i))[{}] = 0
    BY <1>2
  <1>4. DOMAIN <<>> = {}
    OBVIOUS
  <1>5. SumLen(<<>>) = (CHOOSE i : P(i))[{}]
    BY <1>4 DEF SumLen, FoldLeft, MapThenFoldSet
  <1> QED BY <1>3, <1>5

(* motr_obj_rw_aligned takes vectors that fit one operation.               *)
LEMMA NextCursorIs ==
    ASSUME NEW s \in Seq(VecType), NEW cursor \in Nat, cursor <= Len(s)
    PROVE  /\ NextCursor(s, cursor) \in cursor..Len(s)
           /\ SumLen(SubSeq(s, cursor + 1, NextCursor(s, cursor))) <= MaxSizePerOp
  <1> DEFINE S == {c \in cursor..Len(s) : SumLen(SubSeq(s, cursor + 1, c)) <= MaxSizePerOp}
  <1>1. SubSeq(s, cursor + 1, cursor) = <<>>
    OBVIOUS
  <1>2. cursor \in S
    <2>1. cursor \in cursor..Len(s) /\ 0 <= MaxSizePerOp
      BY VectorsAssumption
    <2>2. SumLen(SubSeq(s, cursor + 1, cursor)) = 0
      BY <1>1, SumLenNone
    <2> QED BY <2>1, <2>2
  <1>3. S \in SUBSET Nat /\ Len(s) \in Nat /\ \A c \in S : c <= Len(s)
    OBVIOUS
  <1>4. Max(S) \in S
    <2> HIDE DEF S
    <2> QED BY <1>2, <1>3, Greatest
  <1>5. NextCursor(s, cursor) = Max(S)
    BY DEF NextCursor
  <1> QED BY <1>4, <1>5

(* A part of a legal list is legal.                                        *)
LEMMA PartLegal ==
    ASSUME NEW s \in Seq(VecType), NEW w, Legal(s, w), NEW m \in Nat, NEW n \in m..Len(s), NEW o, o => w
    PROVE  SubSeq(s, m + 1, n) \in Seq(VecType) /\ Legal(SubSeq(s, m + 1, n), o)
  <1> DEFINE t == SubSeq(s, m + 1, n)
  <1>1. t \in Seq(VecType) /\ DOMAIN t = 1..(n - m) /\ \A i \in 1..(n - m) : t[i] = s[m + i]
    OBVIOUS
  <1>2. DOMAIN s = 1..Len(s) /\ \A i \in 1..(n - m) : i \in Nat /\ m + i \in 1..Len(s)
    OBVIOUS
  <1> HIDE DEF t
  <1>3. \A i \in DOMAIN t : Paged(t[i])
    BY <1>1, <1>2 DEF Legal
  <1>4. ASSUME o, NEW i \in DOMAIN t, NEW j \in DOMAIN t, i # j PROVE BytesOf(t[i]) \cap BytesOf(t[j]) = {}
    <2>1. /\ m + i \in DOMAIN s /\ m + j \in DOMAIN s /\ m + i # m + j
          /\ t[i] = s[m + i] /\ t[j] = s[m + j]
      BY <1>1, <1>2, <1>4
    <2> QED BY <1>4, <2>1 DEF Legal, Disjoint
  <1> QED BY <1>1, <1>3, <1>4 DEF Legal, Disjoint, t


------------------------------------------------------------------------------
(***************************************************************************)
(* The calls.                                                              *)
(***************************************************************************)
CallType == [step : {"idle", "rbw", "write", "read", "put", "done", "failed"},
             iovs : Seq(Ranges), args : ArgsType, progress : [rbw : Nat, aligned : Nat],
             batch : Seq(VecType), opcode : {"none", "READ", "WRITE"}, executed : BOOLEAN]

Writing == {"rbw", "write", "put"}

(* The cursors are in their lists, only a write has the steps of a write,  *)
(* a call has vectors, and there is room.                                  *)
CallOK(c) ==
    /\ c \in CallType
    /\ c.progress.rbw <= Len(c.args.rbw) /\ c.progress.aligned <= Len(c.args.aligned)
    /\ c.step \in Writing => c.args.is_write
    /\ c.step # "idle" => c.iovs # <<>>
    /\ Roomy(c.args, c.iovs)

(* No vector is without bytes.                                             *)
Filled(s) == \A i \in DOMAIN s : s[i].len > 0

(* What is to be launched, and what is launched, is legal.                 *)
ListsOK(c) == /\ Legal(c.args.aligned, c.args.is_write) /\ Filled(c.args.aligned)
              /\ Legal(c.args.rbw, c.args.is_write)

BatchOK(c) == /\ Legal(c.batch, c.opcode = "WRITE") /\ SumLen(c.batch) <= MaxSizePerOp
              /\ c.step = "rbw" \/ Filled(c.batch)

(* A call that goes on, from c to d.                                       *)
Follows(c, d) ==
    /\ CallOK(d) /\ d.iovs = c.iovs /\ d.args.is_write = c.args.is_write
    /\ PageSized /\ ListsOK(c) => ListsOK(d) /\ BatchOK(d)

(* Empty lists are legal and need no room.                                 *)
LEMMA EmptyOK ==
    ASSUME NEW iovs \in Seq(Ranges), NEW a \in ArgsType,
           a.aligned = <<>>, a.rbw = <<>>, a.dc = <<>>, a.pages = 0
    PROVE  /\ Roomy(a, iovs) /\ SumLen(<<>>) <= MaxSizePerOp
           /\ Filled(<<>>) /\ \A w : Legal(<<>>, w)
  <1>1. \A v \in Ranges : v.len \in Nat
    BY DEF Ranges
  <1>2. PICK r : IsRoomRun(r, iovs) /\ r[Len(iovs)] = AlignedRoom(iovs)
    BY <1>1, RoomRun
  <1>3. AlignedRoom(iovs) \in Nat /\ CopyRoom(iovs) \in Nat
    BY <1>2 DEF IsRoomRun, CopyRoom
  <1>4. Roomy(a, iovs)
    BY <1>3 DEF Roomy
  <1>5. DOMAIN <<>> = {}
    OBVIOUS
  <1> QED BY <1>4, <1>5, SumLenNone, VectorsAssumption DEF Legal, Disjoint, Filled

(* Args as they are allocated.                                             *)
LEMMA AllocOK ==
    ASSUME NEW w \in BOOLEAN, NEW size \in Nat, NEW n \in Nat,
           NEW a, a = motr_obj_rw_args_alloc(w, size, n)
    PROVE  /\ a \in ArgsType /\ a.is_write = w
           /\ a.aligned = <<>> /\ a.rbw = <<>> /\ a.dc = <<>> /\ a.pages = 0
  BY DEF motr_obj_rw_args_alloc, ArgsType

(* Those of no call.                                                       *)
NoArgs == motr_obj_rw_args_alloc(FALSE, 0, 0)

(* They are empty.                                                         *)
LEMMA NoArgsOK ==
    /\ NoArgs \in ArgsType /\ NoArgs.is_write = FALSE
    /\ NoArgs.aligned = <<>> /\ NoArgs.rbw = <<>> /\ NoArgs.dc = <<>> /\ NoArgs.pages = 0
  BY AllocOK, ZenonT(60) DEF NoArgs

(* A call at first.                                                        *)
LEMMA NoCallOK ==
    /\ CallOK(NoCall) /\ ListsOK(NoCall) /\ BatchOK(NoCall) /\ NoCall.step = "idle"
    /\ NoCall.iovs = <<>> /\ ~NoCall.args.is_write
  <1> DEFINE a == NoArgs
  <1>1. /\ a \in ArgsType /\ a.is_write = FALSE
        /\ a.aligned = <<>> /\ a.rbw = <<>> /\ a.dc = <<>> /\ a.pages = 0
    BY NoArgsOK
  <1>2. NoCall = [step |-> "idle", iovs |-> <<>>, args |-> a, progress |-> [rbw |-> 0, aligned |-> 0],
                  batch |-> <<>>, opcode |-> "none", executed |-> FALSE]
    BY DEF NoCall, NoArgs
  <1> HIDE DEF a
  <1>3. <<>> \in Seq(Ranges)
    OBVIOUS
  <1>4. Roomy(a, <<>>) /\ SumLen(<<>>) <= MaxSizePerOp /\ Filled(<<>>) /\ (\A w : Legal(<<>>, w))
    BY <1>1, <1>3, EmptyOK
  <1>5. NoCall \in CallType
    BY <1>1, <1>2 DEF CallType
  <1> QED BY <1>1, <1>2, <1>4, <1>5 DEF CallOK, ListsOK, BatchOK, Writing


(* A call whose lists are gone.                                            *)
Bare(d) == /\ d.args.aligned = <<>> /\ d.args.rbw = <<>> /\ d.args.dc = <<>> /\ d.args.pages = 0
           /\ d.batch = <<>> /\ d.progress = [rbw |-> 0, aligned |-> 0]

(* It may follow any call with vectors.                                    *)
LEMMA BareOK ==
    ASSUME NEW c, CallOK(c), c.iovs # <<>>, NEW d \in CallType, d.step = "put" => c.args.is_write,
           d.step # "rbw", d.step # "write", d.iovs = c.iovs, d.args.is_write = c.args.is_write, Bare(d)
    PROVE  Follows(c, d) /\ ListsOK(d) /\ BatchOK(d)
  <1>1. d.args \in ArgsType /\ d.iovs \in Seq(Ranges)
    BY DEF CallType
  <1>2. Roomy(d.args, d.iovs) /\ SumLen(<<>>) <= MaxSizePerOp /\ Filled(<<>>) /\ (\A w : Legal(<<>>, w))
    BY <1>1, EmptyOK DEF Bare
  <1>3. ListsOK(d) /\ BatchOK(d)
    BY <1>2 DEF ListsOK, BatchOK, Bare
  <1>4. d.progress.rbw <= Len(d.args.rbw) /\ d.progress.aligned <= Len(d.args.aligned)
    BY DEF Bare
  <1>5. CallOK(d)
    BY <1>2, <1>4 DEF CallOK, Writing
  <1> QED BY <1>3, <1>5 DEF Follows

(* A call that ends.                                                       *)
LEMMA EndedOK ==
    ASSUME NEW c, CallOK(c), c.iovs # <<>>, NEW step \in {"put", "done", "failed"},
           step = "put" => c.args.is_write, NEW d, d = Ended(c, step)
    PROVE  Follows(c, d) /\ d.step = step /\ d \in CallType /\ Bare(d)
           /\ ListsOK(d) /\ BatchOK(d)
  <1> DEFINE a == NoArgs
             b == [a EXCEPT !.is_write = c.args.is_write, !.iovcnt = c.args.iovcnt]
  <1>1. /\ a \in ArgsType
        /\ a.aligned = <<>> /\ a.rbw = <<>> /\ a.dc = <<>> /\ a.pages = 0
    BY NoArgsOK
  <1>2. NoCall = [step |-> "idle", iovs |-> <<>>, args |-> a, progress |-> [rbw |-> 0, aligned |-> 0],
                  batch |-> <<>>, opcode |-> "none", executed |-> FALSE]
    BY DEF NoCall, NoArgs
  <1> HIDE DEF a
  <1>3. c.iovs \in Seq(Ranges) /\ c.args.is_write \in BOOLEAN /\ c.args.iovcnt \in Nat
    BY DEF CallOK, CallType, ArgsType
  <1>4. /\ b \in ArgsType /\ b.is_write = c.args.is_write
        /\ b.aligned = <<>> /\ b.rbw = <<>> /\ b.dc = <<>> /\ b.pages = 0
    BY <1>1, <1>3 DEF ArgsType
  <1>5. d = [step |-> step, iovs |-> c.iovs, args |-> b, progress |-> [rbw |-> 0, aligned |-> 0],
             batch |-> <<>>, opcode |-> "none", executed |-> FALSE]
    BY <1>2 DEF Ended
  <1> HIDE DEF b
  <1>6. /\ d \in CallType /\ d.step = step /\ d.iovs = c.iovs /\ d.args = b /\ d.batch = <<>>
        /\ d.progress = [rbw |-> 0, aligned |-> 0]
    BY <1>3, <1>4, <1>5 DEF CallType
  <1>7. Bare(d)
    BY <1>4, <1>6 DEF Bare
  <1>8. Follows(c, d) /\ ListsOK(d) /\ BatchOK(d)
    BY <1>4, <1>6, <1>7, BareOK
  <1> QED BY <1>6, <1>7, <1>8


(* A write that goes on to store the size.                                 *)
PutOf(c, size) == [Ended(c, "put") EXCEPT !.args.size = size]

(* It may follow a write.                                                  *)
LEMMA PutOK ==
    ASSUME NEW c, CallOK(c), c.iovs # <<>>, c.args.is_write, NEW size \in Nat,
           NEW d, d = PutOf(c, size)
    PROVE  Follows(c, d) /\ d.step = "put" /\ d.args.size = size
  <1> DEFINE e == Ended(c, "put")
             b == [e.args EXCEPT !.size = size]
  <1>1. e \in CallType /\ e.step = "put" /\ Follows(c, e)
    BY EndedOK
  <1>2. /\ e.args.aligned = <<>> /\ e.args.rbw = <<>> /\ e.args.dc = <<>> /\ e.args.pages = 0
        /\ e.batch = <<>> /\ e.progress = [rbw |-> 0, aligned |-> 0]
    BY EndedOK DEF Bare
  <1>3. e.args \in ArgsType /\ e.iovs = c.iovs /\ e.args.is_write = c.args.is_write
    BY <1>1 DEF CallType, Follows
  <1>4. d = [e EXCEPT !.args = b]
    BY <1>1 DEF CallType, PutOf
  <1> HIDE DEF e
  <1>5. /\ b \in ArgsType /\ b.is_write = c.args.is_write /\ b.size = size
        /\ b.aligned = <<>> /\ b.rbw = <<>> /\ b.dc = <<>> /\ b.pages = 0
    BY <1>2, <1>3 DEF ArgsType
  <1> HIDE DEF b
  <1>6. /\ d \in CallType /\ d.step = "put" /\ d.iovs = c.iovs /\ d.args = b
        /\ d.batch = <<>> /\ d.progress = [rbw |-> 0, aligned |-> 0]
    BY <1>1, <1>2, <1>3, <1>4, <1>5 DEF CallType
  <1>7. Follows(c, d)
    BY <1>5, <1>6, BareOK DEF Bare
  <1> QED BY <1>5, <1>6, <1>7

(* A call that launches its next operation.                                *)
LEMMA LaunchOK ==
    ASSUME NEW c, CallOK(c), c.iovs # <<>>,
           NEW which \in {"rbw", "aligned"}, NEW opcode \in {"READ", "WRITE"},
           opcode = "WRITE" => c.args.is_write, which = "rbw" => c.step = "rbw",
           NEW d, d = motr_obj_rw_aligned(c, which, opcode)
    PROVE  Follows(c, d) /\ d.step \in {c.step, "failed"}
  <1> DEFINE list == c.args[which]
             cur  == c.progress[which]
             next == NextCursor(list, cur)
             part == SubSeq(list, cur + 1, next)
             p    == [c.progress EXCEPT ![which] = next]
  <1>1. /\ c \in CallType /\ c.args \in ArgsType /\ c.progress \in [rbw : Nat, aligned : Nat]
        /\ c.progress.rbw <= Len(c.args.rbw) /\ c.progress.aligned <= Len(c.args.aligned)
    BY DEF CallOK, CallType
  <1>2. list \in Seq(VecType) /\ cur \in Nat /\ cur <= Len(list) /\ Len(list) \in Nat
    <2>1. CASE which = "rbw"
      BY <1>1, <2>1 DEF ArgsType
    <2>2. CASE which = "aligned"
      BY <1>1, <2>2 DEF ArgsType
    <2> QED BY <2>1, <2>2
  <1>3. next \in cur..Len(list) /\ SumLen(part) <= MaxSizePerOp
    BY <1>2, NextCursorIs
  <1>4. d = IF next = cur THEN Ended(c, "failed")
            ELSE [c EXCEPT !.progress = p, !.batch = part, !.opcode = opcode, !.executed = FALSE]
    BY <1>1 DEF motr_obj_rw_aligned, CallType
  <1>5. CASE next = cur
    <2>1. d = Ended(c, "failed")
      BY <1>4, <1>5
    <2>2. Follows(c, d) /\ d.step = "failed"
      BY <2>1, EndedOK
    <2> QED BY <2>2
  <1>6. CASE next # cur
    <2>1. p \in [rbw : Nat, aligned : Nat] /\ p.rbw <= Len(c.args.rbw) /\ p.aligned <= Len(c.args.aligned)
      <3> HIDE DEF next
      <3>1. next \in Nat /\ next <= Len(list)
        BY <1>2, <1>3
      <3>2. CASE which = "rbw"
        BY <1>1, <3>1, <3>2
      <3>3. CASE which = "aligned"
        BY <1>1, <3>1, <3>3
      <3> QED BY <3>2, <3>3
    <2>2. part \in Seq(VecType)
      <3> HIDE DEF next, list, cur
      <3> QED BY <1>2, <1>3
    <2>3. d = [c EXCEPT !.progress = p, !.batch = part, !.opcode = opcode, !.executed = FALSE]
      BY <1>4, <1>6
    <2> HIDE DEF p, part
    <2>4. /\ d \in CallType /\ d.step = c.step /\ d.iovs = c.iovs /\ d.args = c.args
          /\ d.progress = p /\ d.batch = part /\ d.opcode = opcode
      BY <1>1, <2>1, <2>2, <2>3 DEF CallType
    <2>5. CallOK(d)
      BY <2>1, <2>4 DEF CallOK
    <2>6. ASSUME PageSized, ListsOK(c) PROVE ListsOK(d) /\ BatchOK(d)
      <3>1. ListsOK(c) /\ ListsOK(d)
        BY <2>4, <2>6 DEF ListsOK
      <3>2. Legal(list, c.args.is_write)
        BY <3>1 DEF ListsOK
      <3>3. Legal(part, opcode = "WRITE")
        <4> HIDE DEF next, list, cur
        <4> QED BY <1>2, <1>3, <3>2, PartLegal DEF part
      <3>4. which = "aligned" => Filled(part)
        <4>1. which = "aligned" => Filled(list)
          BY <3>1 DEF ListsOK
        <4> HIDE DEF next, list, cur
        <4> QED BY <1>2, <1>3, <4>1 DEF part, Filled
      <3>5. BatchOK(d)
        BY <1>3, <2>4, <3>3, <3>4 DEF BatchOK
      <3> QED BY <3>1, <3>5
    <2> QED BY <2>4, <2>5, <2>6 DEF Follows
  <1> QED BY <1>5, <1>6


(* A call that begins.                                                     *)
LEMMA BegunOK ==
    ASSUME NEW iovs \in Seq(Ranges), iovs # <<>>, NEW a \in ArgsType, Roomy(a, iovs),
           NEW step \in {"rbw", "write", "read"}, step # "read" => a.is_write,
           NEW c, c = Begun(step, iovs, a)
    PROVE  CallOK(c) /\ c.iovs = iovs /\ c.args = a /\ c.step = step
  <1>1. c = [step |-> step, iovs |-> iovs, args |-> a, progress |-> [rbw |-> 0, aligned |-> 0],
             batch |-> <<>>, opcode |-> "none", executed |-> FALSE]
    BY DEF Begun, NoCall
  <1>2. c \in CallType
    BY <1>1 DEF CallType
  <1>3. Len(a.rbw) \in Nat /\ Len(a.aligned) \in Nat
    BY ArgsCounts
  <1>4. c.progress.rbw = 0 /\ c.progress.aligned = 0 /\ c.iovs = iovs /\ c.args = a /\ c.step = step
    BY <1>1
  <1> QED BY <1>2, <1>3, <1>4 DEF CallOK, Writing

(* A read, whose vectors may overlap.                                      *)
LEMMA ReadBegins ==
    ASSUME moa_size \in Nat, NEW iovs \in Seq(Ranges), iovs # <<>>,
           NEW d, d = motr_obj_rw_aligned(Begun("read", iovs, Adjusted(FALSE, iovs)), "aligned", "READ")
    PROVE  /\ CallOK(d) /\ (PageSized => ListsOK(d) /\ BatchOK(d))
           /\ d.iovs = iovs /\ ~d.args.is_write /\ d.step \in {"read", "failed"}
  <1> DEFINE a == Adjusted(FALSE, iovs)
             c == Begun("read", iovs, a)
  <1>1. a \in ArgsType /\ a.is_write = FALSE /\ Roomy(a, iovs) /\ (PageSized => PagedArgs(a))
    BY AdjustedIs
  <1> HIDE DEF a
  <1>2. CallOK(c) /\ c.iovs = iovs /\ c.args = a /\ c.step = "read"
    BY <1>1, BegunOK
  <1> HIDE DEF c
  <1>3. PageSized => ListsOK(c)
    BY <1>1, <1>2 DEF PagedArgs, AllPaged, ListsOK, Legal, Filled
  <1>4. Follows(c, d) /\ d.step \in {"read", "failed"}
    BY <1>2, LaunchOK DEF a, c
  <1> QED BY <1>1, <1>2, <1>3, <1>4 DEF Follows

(* The args of a write, with what need not be read left out.               *)
LEMMA WriteArgs ==
    ASSUME moa_size \in Nat, NEW iovs \in Seq(Ranges),
           NEW a, a = motr_obj_read_before_write_optimise(Adjusted(TRUE, iovs))
    PROVE  /\ a \in ArgsType /\ a.is_write = TRUE /\ Roomy(a, iovs)
           /\ (PageSized /\ ~Overlapping(motr_obj_iovec_sort(WithBuffers(iovs))))
                => Legal(a.aligned, TRUE) /\ Filled(a.aligned) /\ Legal(a.rbw, TRUE)
  <1> DEFINE b == Adjusted(TRUE, iovs)
             over == Overlapping(motr_obj_iovec_sort(WithBuffers(iovs)))
  <1>1. /\ b \in ArgsType /\ b.is_write = TRUE /\ Roomy(b, iovs)
        /\ PageSized => PagedArgs(b)
        /\ (PageSized /\ ~over) => Ordered(b.aligned) /\ Ordered(b.rbw)
    BY AdjustedIs
  <1>2. a = motr_obj_read_before_write_optimise(b)
    OBVIOUS
  <1> HIDE DEF b, over
  <1>3. /\ a \in ArgsType /\ a.is_write = b.is_write /\ a.aligned = b.aligned
        /\ a.dc = b.dc /\ a.pages = b.pages /\ Len(a.rbw) = Len(b.rbw)
        /\ \A i \in 1..Len(a.rbw) : a.rbw[i] = b.rbw[i] \/ (a.rbw[i].off = 0 /\ a.rbw[i].len = 0)
    BY <1>1, <1>2, OptimisedIs
  <1>4. Roomy(a, iovs)
    BY <1>1, <1>3 DEF Roomy
  <1>5. ASSUME PageSized, ~over
        PROVE  Legal(a.aligned, TRUE) /\ Filled(a.aligned) /\ Legal(a.rbw, TRUE)
    <2>1. b.aligned \in Seq(VecType) /\ b.rbw \in Seq(VecType) /\ a.rbw \in Seq(VecType)
      BY <1>1, <1>3 DEF ArgsType
    <2>2. Disjoint(b.aligned) /\ Disjoint(b.rbw)
      BY <1>1, <1>5, <2>1, OrderedDisjoint
    <2>3. Legal(a.aligned, TRUE) /\ Filled(a.aligned)
      BY <1>1, <1>3, <1>5, <2>2 DEF Legal, PagedArgs, AllPaged, Filled
    <2>4. DOMAIN a.rbw = 1..Len(a.rbw) /\ DOMAIN b.rbw = 1..Len(a.rbw)
      <3>1. \A s \in Seq(VecType) : DOMAIN s = 1..Len(s)
        OBVIOUS
      <3>2. Len(a.rbw) = Len(b.rbw)
        BY <1>3
      <3> QED BY <2>1, <3>1, <3>2
    <2>5. ASSUME NEW i \in DOMAIN a.rbw PROVE Paged(a.rbw[i])
      <3>1. CASE a.rbw[i] = b.rbw[i]
        BY <1>1, <1>5, <2>4, <3>1 DEF PagedArgs, AllPaged
      <3>2. CASE a.rbw[i].off = 0 /\ a.rbw[i].len = 0
        <4>1. 0 % PageSize = 0
          BY VectorsAssumption
        <4> QED BY <3>2, <4>1 DEF Paged
      <3> QED BY <1>3, <2>4, <3>1, <3>2
    <2>6. ASSUME NEW i \in DOMAIN a.rbw, NEW j \in DOMAIN a.rbw, i # j
          PROVE  BytesOf(a.rbw[i]) \cap BytesOf(a.rbw[j]) = {}
      <3>1. \A v : v.off = 0 /\ v.len = 0 => BytesOf(v) = {}
        BY DEF BytesOf
      <3>2. BytesOf(a.rbw[i]) = {} \/ a.rbw[i] = b.rbw[i]
        BY <1>3, <2>4, <3>1
      <3>3. BytesOf(a.rbw[j]) = {} \/ a.rbw[j] = b.rbw[j]
        BY <1>3, <2>4, <3>1
      <3>4. BytesOf(b.rbw[i]) \cap BytesOf(b.rbw[j]) = {}
        BY <2>2, <2>4, <2>6 DEF Disjoint
      <3> QED BY <3>2, <3>3, <3>4
    <2> QED BY <2>3, <2>5, <2>6 DEF Legal, Disjoint
  <1> QED BY <1>1, <1>3, <1>4, <1>5 DEF over

(* A write begins with the pages to be read, or with its data.             *)
FirstOf(iovs, a) ==
    IF a.rbw # <<>> THEN motr_obj_rw_aligned(Begun("rbw", iovs, a), "rbw", "READ")
                    ELSE motr_obj_rw_aligned(Begun("write", iovs, a), "aligned", "WRITE")

(* Either is a step that a write may be in.                                *)
LEMMA FirstOK ==
    ASSUME NEW iovs \in Seq(Ranges), iovs # <<>>, NEW a \in ArgsType, a.is_write, Roomy(a, iovs),
           NEW d, d = FirstOf(iovs, a)
    PROVE  /\ CallOK(d) /\ d.iovs = iovs /\ d.args.is_write
           /\ d.step \in {"rbw", "write", "failed"}
           /\ (PageSized /\ Legal(a.aligned, TRUE) /\ Filled(a.aligned) /\ Legal(a.rbw, TRUE))
                => ListsOK(d) /\ BatchOK(d)
  <1>1. a.is_write = TRUE
    BY DEF ArgsType
  <1> DEFINE Done(c) == /\ CallOK(c) /\ c.iovs = iovs /\ c.args = a /\ Follows(c, d)
                        /\ d.step \in {"rbw", "write", "failed"}
  <1>2. \E c : Done(c)
    <2>1. CASE a.rbw # <<>>
      <3> DEFINE c == Begun("rbw", iovs, a)
      <3>1. CallOK(c) /\ c.iovs = iovs /\ c.args = a /\ c.step = "rbw"
        BY BegunOK
      <3>2. d = motr_obj_rw_aligned(c, "rbw", "READ")
        BY <2>1 DEF FirstOf
      <3> HIDE DEF c
      <3>3. Follows(c, d) /\ d.step \in {"rbw", "failed"}
        BY <3>1, <3>2, LaunchOK
      <3> QED BY <3>1, <3>3
    <2>2. CASE a.rbw = <<>>
      <3> DEFINE c == Begun("write", iovs, a)
      <3>1. CallOK(c) /\ c.iovs = iovs /\ c.args = a /\ c.step = "write"
        BY BegunOK
      <3>2. d = motr_obj_rw_aligned(c, "aligned", "WRITE")
        BY <2>2 DEF FirstOf
      <3> HIDE DEF c
      <3>3. Follows(c, d) /\ d.step \in {"write", "failed"}
        BY <3>1, <3>2, LaunchOK
      <3> QED BY <3>1, <3>3
    <2> QED BY <2>1, <2>2
  <1>3. PICK c : Done(c)
    BY <1>2
  <1> QED BY <1>1, <1>3 DEF Follows, ListsOK

(* A write; one whose vectors overlap fails.                               *)
WriteOf(iovs) ==
    LET first == FirstOf(iovs, motr_obj_read_before_write_optimise(Adjusted(TRUE, iovs)))
    IN  IF Overlapping(motr_obj_iovec_sort(WithBuffers(iovs))) THEN Ended(first, "failed") ELSE first

(* It is a step that a write may be in, with legal lists.                  *)
LEMMA WriteBegins ==
    ASSUME moa_size \in Nat, NEW iovs \in Seq(Ranges), iovs # <<>>,
           NEW d, d = WriteOf(iovs)
    PROVE  /\ CallOK(d) /\ (PageSized => ListsOK(d) /\ BatchOK(d))
           /\ d.iovs = iovs /\ d.args.is_write /\ d.step \in {"rbw", "write", "failed"}
  <1> DEFINE over  == Overlapping(motr_obj_iovec_sort(WithBuffers(iovs)))
             args  == motr_obj_read_before_write_optimise(Adjusted(TRUE, iovs))
             first == FirstOf(iovs, args)
  <1>1. /\ args \in ArgsType /\ args.is_write = TRUE /\ Roomy(args, iovs)
        /\ (PageSized /\ ~over)
              => Legal(args.aligned, TRUE) /\ Filled(args.aligned) /\ Legal(args.rbw, TRUE)
    BY WriteArgs
  <1>2. d = IF over THEN Ended(first, "failed") ELSE first
    BY DEF WriteOf
  <1> HIDE DEF args
  <1> HIDE DEF over
  <1>3. /\ CallOK(first) /\ first.iovs = iovs /\ first.args.is_write
        /\ first.step \in {"rbw", "write", "failed"}
        /\ (PageSized /\ ~over) => ListsOK(first) /\ BatchOK(first)
    BY <1>1, FirstOK
  <1> HIDE DEF first
  <1>4. CASE over
    <2>1. d = Ended(first, "failed")
      BY <1>2, <1>4
    <2>2. Follows(first, d) /\ d.step = "failed" /\ ListsOK(d) /\ BatchOK(d)
      BY <1>3, <2>1, EndedOK
    <2> QED BY <1>3, <2>2 DEF Follows
  <1>5. CASE ~over
    BY <1>2, <1>3, <1>5
  <1> QED BY <1>4, <1>5


(* The end of a write is a number, and no vector ends behind it.           *)
LEMMA MaxEow ==
    ASSUME NEW iovs \in Seq(Ranges), iovs # <<>>
    PROVE  max_eow(iovs) \in Nat /\ \A i \in DOMAIN iovs : iovs[i].off + iovs[i].len <= max_eow(iovs)
  <1> DEFINE n == Len(iovs)
             e(i) == iovs[i].off + iovs[i].len
             E == {v.off + v.len : v \in Range(iovs)}
             T == {k \in Nat : \E b \in Nat : \A i \in 1..k : e(i) <= b}
  <1>1. n \in Nat /\ n >= 1 /\ DOMAIN iovs = 1..n
    OBVIOUS
  <1>2. \A i \in 1..n : e(i) \in Nat
    <2>1. \A i \in 1..n : iovs[i] \in Ranges
      OBVIOUS
    <2> QED BY <2>1 DEF Ranges
  <1>3. E = {e(i) : i \in 1..n}
    BY <1>1 DEF Range
  <1> HIDE DEF e
  <1>4. 0 \in T
    OBVIOUS
  <1>5. ASSUME NEW k \in 0..(n - 1), k \in T PROVE k + 1 \in T
    <2>1. PICK b \in Nat : \A i \in 1..k : e(i) <= b
      BY <1>5
    <2>2. k + 1 \in 1..n /\ e(k + 1) \in Nat
      BY <1>1, <1>2
    <2>3. b + e(k + 1) \in Nat /\ \A i \in 1..(k + 1) : e(i) <= b + e(k + 1)
      <3>1. \A i \in 1..(k + 1) : i \in 1..k \/ i = k + 1
        OBVIOUS
      <3>2. \A i \in 1..(k + 1) : e(i) \in Nat
        BY <1>1, <1>2
      <3> QED BY <2>1, <2>2, <3>1, <3>2
    <2> QED BY <2>2, <2>3
  <1>6. 0..n \subseteq T
    <2> HIDE DEF T
    <2> QED BY <1>1, <1>4, <1>5, Induct
  <1>7. PICK b \in Nat : \A i \in 1..n : e(i) <= b
    <2>1. n \in T
      <3> HIDE DEF T
      <3>1. n \in 0..n
        BY <1>1
      <3> QED BY <1>6, <3>1
    <2> QED BY <2>1
  <1> HIDE DEF E, T
  <1>8. E \in SUBSET Nat /\ E # {} /\ \A x \in E : x <= b
    BY <1>1, <1>2, <1>3, <1>7
  <1>9. Max(E) \in E /\ \A x \in E : x <= Max(E)
    BY <1>8, Greatest
  <1>10. max_eow(iovs) = Max(E)
    BY DEF max_eow, E
  <1>11. \A i \in DOMAIN iovs : iovs[i].off + iovs[i].len \in E
    BY DEF E, Range
  <1> QED BY <1>8, <1>9, <1>10, <1>11

(* The greater of two numbers.                                             *)
LEMMA MaxOfTwo ==
    ASSUME NEW x \in Nat, NEW y \in Nat
    PROVE  Max({x, y}) = IF x >= y THEN x ELSE y
  <1>1. {x, y} \in SUBSET Nat /\ x + y \in Nat /\ \A z \in {x, y} : z <= x + y
    OBVIOUS
  <1>2. Max({x, y}) \in {x, y} /\ \A z \in {x, y} : z <= Max({x, y})
    BY <1>1, Greatest
  <1>3. x <= Max({x, y}) /\ y <= Max({x, y})
    BY <1>2
  <1>4. Max({x, y}) = x \/ Max({x, y}) = y
    BY <1>2
  <1> HIDE DEF Max
  <1> QED BY <1>3, <1>4

(***************************************************************************)
(* The steps, as far as the vectors and the sizes are concerned: the call  *)
(* of o goes from c to d.                                                  *)
(***************************************************************************)
Good(c) == CallOK(c) /\ (PageSized => ListsOK(c) /\ BatchOK(c))

SameCall(c, d) == d.iovs = c.iovs /\ d.args.is_write = c.args.is_write

SizesKept == UNCHANGED <<moa_size, stored, written>>

Begins(o, c, d) ==
    /\ c.step = "idle" /\ SizesKept
    /\ \/ d.step \in {"read", "failed"}
       \/ d.step \in Writing \ {"put"} /\ d.args.is_write /\ Allowed(o, TRUE, d.iovs)

GoesOn(c, d) ==
    /\ c.step \in {"rbw", "write", "read"} /\ SameCall(c, d) /\ SizesKept
    /\ \/ d.step \in {"rbw", "write"} /\ c.step \in {"rbw", "write"}
       \/ d.step \in {"read", "done"} /\ c.step = "read"
       \/ d.step = "failed"

(* A write that leaves the size alone; one that goes on to store it; one   *)
(* that has stored it, or has failed to.                                   *)
EndsWithin(c, d) ==
    /\ c.step = "write" /\ d.step = "done" /\ SameCall(c, d) /\ max_eow(c.iovs) <= moa_size
    /\ written' = Max({written, max_eow(c.iovs)}) /\ UNCHANGED <<moa_size, stored>>

EndsBehind(c, d) ==
    /\ c.step = "write" /\ d.step = "put" /\ SameCall(c, d) /\ max_eow(c.iovs) > moa_size
    /\ moa_size' = max_eow(c.iovs) /\ d.args.size = max_eow(c.iovs) /\ UNCHANGED <<stored, written>>

Stores(c, d) ==
    /\ c.step = "put" /\ d.step = "done" /\ SameCall(c, d) /\ stored' = c.args.size
    /\ written' = Max({written, max_eow(c.iovs)}) /\ UNCHANGED moa_size

GivesUp(c, d) == c.step = "put" /\ d.step = "failed" /\ SameCall(c, d) /\ SizesKept

Moves(o, c, d) ==
    /\ Good(d) /\ call' = [call EXCEPT ![o] = d]
    /\ \/ Begins(o, c, d) \/ GoesOn(c, d) \/ EndsWithin(c, d)
       \/ EndsBehind(c, d) \/ Stores(c, d) \/ GivesUp(c, d)

CallsInv == /\ moa_size \in Nat /\ call \in [Ops -> CallType]
            /\ \A o \in Ops : Good(call[o])


(* Every step is one of them.                                              *)
LEMMA CallSteps ==
    ASSUME CallsInv, Next
    PROVE  \E o \in Ops : \E d : Moves(o, call[o], d)
  <1>1. PICK o \in Ops : \/ Call(o) \/ MotrExecute(o) \/ MotrFail(o)
                         \/ PostProcess(o) \/ PutDone(o) \/ PutFail(o)
    BY DEF Next
  <1> DEFINE c == call[o]
  <1>2. /\ moa_size \in Nat /\ Good(c) /\ CallOK(c) /\ c \in CallType
        /\ c.step # "idle" => c.iovs # <<>>
        /\ c.step \in Writing => c.args.is_write
    BY DEF CallsInv, Good, CallOK
  <1> SUFFICES \E d : Moves(o, c, d)
    OBVIOUS
  <1>3. ASSUME NEW iovs \in Vectors[o], mio_motr_obj_writev(o, iovs) PROVE \E d : Moves(o, c, d)
    <2> DEFINE d == WriteOf(iovs)
    <2>1. iovs \in Seq(Ranges) /\ iovs # <<>>
      BY IOAssumption
    <2>2. /\ CallOK(d) /\ (PageSized => ListsOK(d) /\ BatchOK(d))
          /\ d.iovs = iovs /\ d.args.is_write /\ d.step \in {"rbw", "write", "failed"}
      BY <1>2, <2>1, WriteBegins
    <2>3. /\ c.step = "idle" /\ Allowed(o, TRUE, iovs) /\ call' = [call EXCEPT ![o] = d]
          /\ UNCHANGED <<moa_size, stored, written>>
      BY <1>3 DEF mio_motr_obj_writev, WriteOf, FirstOf
    <2> HIDE DEF d, c
    <2>4. Begins(o, c, d)
      BY <2>2, <2>3 DEF Begins, SizesKept, Writing
    <2> QED BY <2>2, <2>3, <2>4 DEF Moves, Good
  <1>4. ASSUME NEW iovs \in Vectors[o], mio_motr_obj_readv(o, iovs) PROVE \E d : Moves(o, c, d)
    <2> DEFINE d == motr_obj_rw_aligned(Begun("read", iovs, Adjusted(FALSE, iovs)), "aligned", "READ")
    <2>1. iovs \in Seq(Ranges) /\ iovs # <<>>
      BY IOAssumption
    <2>2. CallOK(d) /\ (PageSized => ListsOK(d) /\ BatchOK(d)) /\ d.step \in {"read", "failed"}
      BY <1>2, <2>1, ReadBegins
    <2>3. /\ c.step = "idle" /\ call' = [call EXCEPT ![o] = d]
          /\ UNCHANGED <<moa_size, stored, written>>
      BY <1>4 DEF mio_motr_obj_readv
    <2> HIDE DEF d, c
    <2>4. Begins(o, c, d)
      BY <2>2, <2>3 DEF Begins, SizesKept
    <2> QED BY <2>2, <2>3, <2>4 DEF Moves, Good
  <1>5. CASE MotrExecute(o)
    <2> DEFINE d == [c EXCEPT !.executed = TRUE]
    <2>1. /\ c.step \in {"rbw", "write", "read"} /\ call' = [call EXCEPT ![o] = d]
          /\ UNCHANGED <<moa_size, stored, written>>
      BY <1>5 DEF MotrExecute, Launched
    <2>2. /\ d \in CallType /\ d.step = c.step /\ d.iovs = c.iovs /\ d.args = c.args
          /\ d.progress = c.progress /\ d.batch = c.batch /\ d.opcode = c.opcode
      BY <1>2 DEF CallType
    <2> HIDE DEF d, c
    <2>3. Good(d)
      BY <1>2, <2>2 DEF Good, CallOK, ListsOK, BatchOK
    <2>4. GoesOn(c, d)
      BY <2>1, <2>2 DEF GoesOn, SameCall, SizesKept
    <2> QED BY <2>1, <2>3, <2>4 DEF Moves
  <1>6. CASE MotrFail(o)
    <2> DEFINE d == Ended(c, "failed")
    <2>1. /\ c.step \in {"rbw", "write", "read"} /\ call' = [call EXCEPT ![o] = d]
          /\ UNCHANGED <<moa_size, stored, written>>
      BY <1>6 DEF MotrFail, Launched
    <2>2. Follows(c, d) /\ d.step = "failed" /\ ListsOK(d) /\ BatchOK(d)
      BY <1>2, <2>1, EndedOK
    <2> HIDE DEF d, c
    <2>3. GoesOn(c, d) /\ Good(d)
      BY <2>1, <2>2 DEF GoesOn, SameCall, SizesKept, Follows, Good
    <2> QED BY <2>1, <2>3 DEF Moves
  <1>7. CASE motr_obj_read_before_write_pp(o)
    <2> DEFINE w == [c EXCEPT !.step = "write"]
               last == c.progress.rbw = Len(c.args.rbw)
               d == IF last THEN motr_obj_rw_aligned(w, "aligned", "WRITE")
                            ELSE motr_obj_rw_aligned(c, "rbw", "WRITE")
    <2>1. /\ c.step = "rbw" /\ call' = [call EXCEPT ![o] = d]
          /\ UNCHANGED <<moa_size, stored, written>>
      BY <1>7 DEF motr_obj_read_before_write_pp
    <2>2. /\ w \in CallType /\ w.step = "write" /\ w.iovs = c.iovs /\ w.args = c.args
          /\ w.progress = c.progress
      BY <1>2 DEF CallType
    <2> HIDE DEF w, c
    <2>3. c.iovs # <<>> /\ c.args.is_write
      BY <1>2, <2>1 DEF Writing
    <2>4. CallOK(w) /\ (ListsOK(c) => ListsOK(w))
      BY <1>2, <2>2, <2>3 DEF CallOK, ListsOK
    <2>5. CASE last
      <3>1. d = motr_obj_rw_aligned(w, "aligned", "WRITE")
        BY <2>5
      <3> HIDE DEF d
      <3>2. Follows(w, d) /\ d.step \in {"write", "failed"}
        BY <2>2, <2>3, <2>4, <3>1, LaunchOK
      <3>3. GoesOn(c, d) /\ Good(d)
        BY <1>2, <2>1, <2>2, <2>4, <3>2 DEF GoesOn, SameCall, SizesKept, Follows, Good
      <3> QED BY <2>1, <3>3 DEF Moves
    <2>6. CASE ~last
      <3>1. d = motr_obj_rw_aligned(c, "rbw", "WRITE")
        BY <2>6
      <3> HIDE DEF d
      <3>2. Follows(c, d) /\ d.step \in {"rbw", "failed"}
        BY <1>2, <2>1, <2>3, <3>1, LaunchOK
      <3>3. GoesOn(c, d) /\ Good(d)
        BY <1>2, <2>1, <3>2 DEF GoesOn, SameCall, SizesKept, Follows, Good
      <3> QED BY <2>1, <3>3 DEF Moves
    <2> QED BY <2>5, <2>6
  <1>8. CASE motr_obj_write_pp(o)
    <2> DEFINE last == c.progress.aligned = Len(c.args.aligned)
               eow  == max_eow(c.iovs)
    <2>1. /\ c.step = "write" /\ UNCHANGED stored /\ c.iovs # <<>> /\ c.args.is_write
      BY <1>2, <1>8 DEF motr_obj_write_pp, Writing
    <2>2. eow \in Nat
      <3>1. c.iovs \in Seq(Ranges)
        BY <1>2 DEF CallType
      <3> QED BY <2>1, <3>1, MaxEow
    <2>3. CASE ~last
      <3> DEFINE d == motr_obj_rw_aligned(c, "aligned", "WRITE")
      <3>1. call' = [call EXCEPT ![o] = d] /\ UNCHANGED <<moa_size, written>>
        BY <1>8, <2>3 DEF motr_obj_write_pp
      <3>2. Follows(c, d) /\ d.step \in {"write", "failed"}
        BY <1>2, <2>1, LaunchOK
      <3> HIDE DEF d, c
      <3>3. GoesOn(c, d) /\ Good(d)
        BY <1>2, <2>1, <3>1, <3>2 DEF GoesOn, SameCall, SizesKept, Follows, Good
      <3> QED BY <3>1, <3>3 DEF Moves
    <2>4. CASE last /\ eow <= moa_size
      <3> DEFINE d == Ended(c, "done")
      <3>1. call' = [call EXCEPT ![o] = d] /\ UNCHANGED moa_size /\ written' = Max({written, eow})
        BY <1>8, <2>4 DEF motr_obj_write_pp, WriteCompleted
      <3>2. Follows(c, d) /\ d.step = "done" /\ ListsOK(d) /\ BatchOK(d)
        BY <1>2, <2>1, EndedOK
      <3> HIDE DEF d, c
      <3>3. EndsWithin(c, d) /\ Good(d)
        BY <2>1, <2>4, <3>1, <3>2 DEF EndsWithin, SameCall, Follows, Good
      <3> QED BY <3>1, <3>3 DEF Moves
    <2>5. CASE last /\ ~(eow <= moa_size)
      <3> DEFINE d == [Ended(c, "put") EXCEPT !.args.size = eow]
      <3>1. call' = [call EXCEPT ![o] = d] /\ moa_size' = eow /\ UNCHANGED written
        BY <1>8, <2>5 DEF motr_obj_write_pp
      <3>2. Follows(c, d) /\ d.step = "put" /\ d.args.size = eow
        <4>1. d = PutOf(c, eow)
          BY DEF PutOf
        <4> HIDE DEF c, d, eow
        <4> QED BY <1>2, <2>1, <2>2, <4>1, PutOK
      <3>3. eow > moa_size
        BY <1>2, <2>2, <2>5
      <3> HIDE DEF d, c
      <3>4. EndsBehind(c, d) /\ Good(d)
        BY <1>2, <2>1, <3>1, <3>2, <3>3 DEF EndsBehind, SameCall, Follows, Good
      <3> QED BY <3>1, <3>4 DEF Moves
    <2> QED BY <2>3, <2>4, <2>5
  <1>9. CASE motr_obj_read_pp(o)
    <2> DEFINE last == c.progress.aligned = Len(c.args.aligned)
               d == IF last THEN Ended(c, "done") ELSE motr_obj_rw_aligned(c, "aligned", "READ")
    <2>1. /\ c.step = "read" /\ call' = [call EXCEPT ![o] = d] /\ c.iovs # <<>>
          /\ UNCHANGED <<moa_size, stored, written>>
      BY <1>2, <1>9 DEF motr_obj_read_pp
    <2> HIDE DEF c
    <2>2. Follows(c, d) /\ d.step \in {"read", "done", "failed"}
      <3>1. CASE last
        <4>1. d = Ended(c, "done")
          BY <3>1
        <4> HIDE DEF d
        <4> QED BY <1>2, <2>1, <4>1, EndedOK
      <3>2. CASE ~last
        <4>1. d = motr_obj_rw_aligned(c, "aligned", "READ")
          BY <3>2
        <4> HIDE DEF d
        <4> QED BY <1>2, <2>1, <4>1, LaunchOK
      <3> QED BY <3>1, <3>2
    <2> HIDE DEF d
    <2>3. GoesOn(c, d) /\ Good(d)
      BY <1>2, <2>1, <2>2 DEF GoesOn, SameCall, SizesKept, Follows, Good
    <2> QED BY <2>1, <2>3 DEF Moves
  <1>10. CASE PutDone(o)
    <2> DEFINE d == Ended(c, "done")
    <2>1. /\ c.step = "put" /\ call' = [call EXCEPT ![o] = d] /\ stored' = c.args.size
          /\ written' = Max({written, max_eow(c.iovs)}) /\ UNCHANGED moa_size
      BY <1>10 DEF PutDone, WriteCompleted
    <2>2. Follows(c, d) /\ d.step = "done" /\ ListsOK(d) /\ BatchOK(d)
      BY <1>2, <2>1, EndedOK
    <2> HIDE DEF d, c
    <2>3. Stores(c, d) /\ Good(d)
      BY <2>1, <2>2 DEF Stores, SameCall, Follows, Good
    <2> QED BY <2>1, <2>3 DEF Moves
  <1>11. CASE PutFail(o)
    <2> DEFINE d == Ended(c, "failed")
    <2>1. /\ c.step = "put" /\ call' = [call EXCEPT ![o] = d]
          /\ UNCHANGED <<moa_size, stored, written>>
      BY <1>11 DEF PutFail
    <2>2. Follows(c, d) /\ d.step = "failed" /\ ListsOK(d) /\ BatchOK(d)
      BY <1>2, <2>1, EndedOK
    <2> HIDE DEF d, c
    <2>3. GivesUp(c, d) /\ Good(d)
      BY <2>1, <2>2 DEF GivesUp, SameCall, SizesKept, Follows, Good
    <2> QED BY <2>1, <2>3 DEF Moves
  <1> QED BY <1>1, <1>3, <1>4, <1>5, <1>6, <1>7, <1>8, <1>9, <1>10, <1>11 DEF Call, PostProcess


(* The calls are legal at first and stay so.                               *)
LEMMA CallsInitially ==
    ASSUME Init
    PROVE  CallsInv
  <1>1. moa_size \in Nat /\ call = [o \in Ops |-> NoCall]
    BY IOAssumption DEF Init
  <1>2. NoCall \in CallType /\ Good(NoCall)
    BY NoCallOK DEF Good, CallOK
  <1> QED BY <1>1, <1>2 DEF CallsInv

(* A step keeps them so.                                                   *)
LEMMA CallsStep ==
    ASSUME CallsInv, [Next]_vars
    PROVE  CallsInv'
  <1>1. CASE UNCHANGED vars
    BY <1>1 DEF CallsInv, vars
  <1>2. CASE Next
    <2>1. PICK o \in Ops : \E d : Moves(o, call[o], d)
      BY <1>2, CallSteps
    <2>2. PICK d : Moves(o, call[o], d)
      BY <2>1
    <2>3. d \in CallType /\ Good(d) /\ call' = [call EXCEPT ![o] = d]
      BY <2>2 DEF Moves, Good, CallOK
    <2>4. moa_size' \in Nat
      <3>1. CASE EndsBehind(call[o], d)
        <4>1. call[o].iovs \in Seq(Ranges) /\ call[o].iovs # <<>>
          BY <3>1 DEF CallsInv, EndsBehind, Good, CallOK, CallType
        <4> QED BY <3>1, <4>1, MaxEow DEF EndsBehind
      <3>2. CASE ~EndsBehind(call[o], d)
        <4>1. UNCHANGED moa_size
          BY <2>2, <3>2 DEF Moves, Begins, GoesOn, EndsWithin, Stores, GivesUp, SizesKept
        <4> QED BY <4>1 DEF CallsInv
      <3> QED BY <3>1, <3>2
    <2>5. call' \in [Ops -> CallType] /\ \A p \in Ops : Good(call'[p])
      BY <2>3 DEF CallsInv
    <2>6. \A p \in Ops : Good(call[p])'
      BY <2>5 DEF Good, CallOK, ListsOK, BatchOK
    <2> QED BY <2>4, <2>5, <2>6 DEF CallsInv
  <1> QED BY <1>1, <1>2

(* The calls are legal in every state.                                     *)
LEMMA CallsAlways == Spec => []CallsInv
  <1>1. Init => CallsInv
    BY CallsInitially
  <1>2. CallsInv /\ [Next]_vars => CallsInv'
    BY CallsStep
  <1> QED BY <1>1, <1>2, PTL DEF Spec

(* The greatest of three numbers.                                          *)
LEMMA MaxOfThree ==
    ASSUME NEW x \in Nat, NEW y \in Nat, NEW z \in Nat, NEW b \in Nat, x <= b, y <= b, z <= b
    PROVE  Max({x, y, z}) <= b
  <1>1. {x, y, z} \in SUBSET Nat /\ {x, y, z} # {} /\ \A u \in {x, y, z} : u <= b
    OBVIOUS
  <1>2. Max({x, y, z}) \in {x, y, z}
    BY <1>1, Greatest
  <1> QED BY <1>1, <1>2

(* The arrays that motr_obj_rw_args_alloc allocates before the vectors are *)
(* cut are large enough for the result, for any vectors, page size and     *)
(* limit (WithinRoom).                                                     *)
THEOREM ArraysAreLargeEnough == Spec => []WithinRoom
  <1>1. CallsInv => WithinRoom
    <2> SUFFICES ASSUME CallsInv, NEW o \in Ops
                 PROVE  /\ Len(call[o].args.aligned) <= AlignedRoom(call[o].iovs)
                        /\ Max({Len(call[o].args.dc), Len(call[o].args.rbw), call[o].args.pages})
                             <= CopyRoom(call[o].iovs)
      BY DEF WithinRoom
    <2> DEFINE a == call[o].args
               room == CopyRoom(call[o].iovs)
    <2>1. a \in ArgsType /\ call[o].iovs \in Seq(Ranges) /\ Roomy(a, call[o].iovs)
      BY DEF CallsInv, Good, CallOK, CallType
    <2>2. room \in Nat
      BY <2>1 DEF CopyRoom
    <2> HIDE DEF a, room
    <2>3. Max({Len(a.dc), Len(a.rbw), a.pages}) <= room
      BY <2>1, <2>2, ArgsCounts, MaxOfThree DEF Roomy, room
    <2> QED BY <2>1, <2>3 DEF Roomy, a, room
  <1> QED BY <1>1, CallsAlways, PTL

(* What Motr is given is whole pages, at least one unless it is read       *)
(* before a write, not more than it accepts, and no byte is written twice, *)
(* if the limit of an operation is a multiple of the page size.            *)
THEOREM BatchesAreLegal ==
    ASSUME PageSized
    PROVE  Spec => []BatchesLegal
  <1>1. CallsInv => BatchesLegal
    <2> SUFFICES ASSUME CallsInv, NEW o \in Ops
                 PROVE  LET b == call[o].batch IN
                          /\ \A i \in DOMAIN b : /\ b[i].off % PageSize = 0 /\ b[i].len % PageSize = 0
                                                 /\ b[i].len = 0 => call[o].step = "rbw"
                          /\ SumLen(b) <= MaxSizePerOp
                          /\ call[o].opcode = "WRITE" =>
                               \A i, j \in DOMAIN b : i # j => BytesOf(b[i]) \cap BytesOf(b[j]) = {}
      BY DEF BatchesLegal
    <2>1. BatchOK(call[o])
      BY DEF CallsInv, Good
    <2>2. \A i \in DOMAIN call[o].batch : call[o].batch[i].len = 0 => call[o].step = "rbw"
      BY <2>1 DEF BatchOK, Filled
    <2> QED BY <2>1, <2>2 DEF BatchOK, Legal, Paged, Disjoint
  <1> QED BY <1>1, CallsAlways, PTL


------------------------------------------------------------------------------
(***************************************************************************)
(* The size.  A write in flight grows the object as long as it ends behind *)
(* the size that the handle knows, and while it stores the new one.        *)
(***************************************************************************)
Growing(p) == /\ call[p].step \in Writing
              /\ call[p].step = "put" \/ max_eow(call[p].iovs) > moa_size

NoneFailed == \A o \in Ops : call[o].step # "failed"
NonePuts   == \A o \in Ops : call[o].step # "put"

(***************************************************************************)
(* One at most grows it; a write that stores the size stores the one that  *)
(* the handle has; and unless a call has failed no completed write ends    *)
(* behind that, and all sizes are the same when nothing is being stored.   *)
(***************************************************************************)
OneGrows == \A p, q \in Ops : Growing(p) /\ Growing(q) => p = q

PutsSize == \A p \in Ops : call[p].step = "put" =>
                /\ call[p].args.size = moa_size /\ max_eow(call[p].iovs) = moa_size

SizesAgree == /\ written \in Nat
              /\ NoneFailed => /\ written <= moa_size
                               /\ NonePuts => stored = moa_size /\ written = moa_size

SizeInv == CallsInv /\ OneGrows /\ PutsSize /\ SizesAgree

(* At first all sizes are the same.                                        *)
LEMMA SizesInitially ==
    ASSUME Init
    PROVE  SizeInv
  <1>1. CallsInv
    BY CallsInitially
  <1>2. /\ \A o \in Ops : call[o].step = "idle"
        /\ moa_size \in Nat /\ stored = moa_size /\ written = moa_size
    BY NoCallOK, IOAssumption DEF Init
  <1>3. OneGrows /\ PutsSize /\ SizesAgree
    BY <1>2 DEF OneGrows, Growing, Writing, PutsSize, SizesAgree
  <1> QED BY <1>1, <1>3 DEF SizeInv

(* The ends of the writes in flight are numbers.                           *)
LEMMA EndsAre ==
    ASSUME CallsInv, NEW p \in Ops, call[p].step \in Writing
    PROVE  max_eow(call[p].iovs) \in Nat /\ call[p].args.is_write
  <1>1. /\ call[p].iovs \in Seq(Ranges) /\ call[p].iovs # <<>> /\ call[p].args.is_write
    BY DEF CallsInv, Good, CallOK, CallType, Writing
  <1> QED BY <1>1, MaxEow

(* A step keeps at most one write growing the object.                      *)
LEMMA OneGrowsStep ==
    ASSUME ExtendAlone, SizeInv, CallsInv', NEW o \in Ops, NEW d, Moves(o, call[o], d)
    PROVE  OneGrows' /\ PutsSize'
  <1> DEFINE c == call[o]
  <1>1. /\ call \in [Ops -> CallType] /\ call' = [call EXCEPT ![o] = d]
        /\ moa_size \in Nat /\ moa_size' \in Nat /\ CallsInv /\ Good(d)
    BY DEF SizeInv, CallsInv, Moves
  <1>2. call'[o] = d /\ \A p \in Ops \ {o} : call'[p] = call[p]
    BY <1>1
  <1>3. moa_size <= moa_size' /\ (moa_size' # moa_size => EndsBehind(c, d) /\ Growing(o))
    <2>1. CASE EndsBehind(c, d)
      <3>1. c.step = "write" /\ max_eow(c.iovs) > moa_size /\ moa_size' = max_eow(c.iovs)
        BY <2>1 DEF EndsBehind
      <3>2. Growing(o)
        BY <3>1 DEF Growing, Writing
      <3> QED BY <1>1, <2>1, <3>1, <3>2
    <2>2. CASE ~EndsBehind(c, d)
      <3>1. moa_size' = moa_size
        BY <2>2 DEF Moves, Begins, GoesOn, EndsWithin, Stores, GivesUp, SizesKept
      <3> QED BY <1>1, <3>1
    <2> QED BY <2>1, <2>2
  <1>4. ASSUME NEW p \in Ops, p # o, Growing(p)' PROVE Growing(p)
    <2>1. call'[p] = call[p]
      BY <1>2, <1>4
    <2>2. call[p].step \in Writing /\ (call[p].step = "put" \/ max_eow(call[p].iovs) > moa_size')
      BY <1>4, <2>1 DEF Growing
    <2>3. max_eow(call[p].iovs) \in Nat
      BY <1>1, <2>2, EndsAre
    <2> QED BY <1>1, <1>3, <2>2, <2>3 DEF Growing
  <1>5. ASSUME Growing(o)', ~Growing(o), NEW p \in Ops, p # o PROVE ~Growing(p)
    <2>1. d.step \in Writing /\ (d.step = "put" \/ max_eow(d.iovs) > moa_size')
      BY <1>2, <1>5 DEF Growing
    <2>2. moa_size' = moa_size
      BY <1>3, <1>5
    <2>3. Begins(o, c, d)
      <3>1. ~GoesOn(c, d)
        BY <1>5, <2>1, <2>2 DEF GoesOn, SameCall, Growing, Writing
      <3>2. ~EndsWithin(c, d) /\ ~Stores(c, d) /\ ~GivesUp(c, d)
        BY <2>1 DEF EndsWithin, Stores, GivesUp, Writing
      <3>3. ~EndsBehind(c, d)
        BY <1>5 DEF EndsBehind, Growing, Writing
      <3> QED BY <3>1, <3>2, <3>3 DEF Moves
    <2>4. d.step # "put" /\ Allowed(o, TRUE, d.iovs)
      BY <2>1, <2>3 DEF Begins, Writing
    <2>5. max_eow(d.iovs) > moa_size /\ max_eow(d.iovs) \in Nat
      <3>1. call'[o].step \in Writing
        BY <1>2, <2>1
      <3>2. max_eow(d.iovs) \in Nat
        <4>1. d.iovs \in Seq(Ranges) /\ d.iovs # <<>>
          BY <1>1, <2>1 DEF Good, CallOK, CallType, Writing
        <4> QED BY <4>1, MaxEow
      <3> QED BY <2>1, <2>2, <2>4, <3>2
    <2>6. ASSUME Growing(p) PROVE FALSE
      <3>1. call[p].step \in Writing /\ call[p].args.is_write
        BY <1>1, <2>6, EndsAre DEF Growing
      <3>2. InFlight(p) /\ Grows(p)
        BY <2>6, <3>1 DEF InFlight, Grows, IsWrite, Growing, Writing
      <3>3. max_eow(d.iovs) <= moa_size
        BY <1>5, <2>4, <3>2 DEF Allowed
      <3> QED BY <1>1, <2>5, <3>3
    <2> QED BY <2>6
  <1>6. OneGrows'
    <2> SUFFICES ASSUME NEW p \in Ops, NEW q \in Ops, Growing(p)', Growing(q)' PROVE p = q
      BY DEF OneGrows
    <2>1. CASE p # o /\ q # o
      BY <1>4, <2>1 DEF SizeInv, OneGrows
    <2>2. CASE p = o /\ q # o
      BY <1>4, <1>5, <2>2 DEF SizeInv, OneGrows
    <2>3. CASE q = o /\ p # o
      BY <1>4, <1>5, <2>3 DEF SizeInv, OneGrows
    <2> QED BY <2>1, <2>2, <2>3
  <1>7. ASSUME NEW p \in Ops, call'[p].step = "put"
        PROVE  call'[p].args.size = moa_size' /\ max_eow(call'[p].iovs) = moa_size'
    <2>1. CASE p # o
      <3>1. call'[p] = call[p] /\ Growing(p)
        BY <1>2, <1>7, <2>1 DEF Growing, Writing
      <3>2. moa_size' = moa_size
        BY <1>3, <2>1, <3>1 DEF SizeInv, OneGrows
      <3> QED BY <1>7, <3>1, <3>2 DEF SizeInv, PutsSize
    <2>2. CASE p = o
      <3>1. EndsBehind(c, d)
        BY <1>2, <1>7, <2>2
           DEF Moves, Begins, GoesOn, EndsWithin, Stores, GivesUp, Writing
      <3> QED BY <1>2, <2>2, <3>1 DEF EndsBehind, SameCall
    <2> QED BY <2>1, <2>2
  <1>8. PutsSize'
    BY <1>7 DEF PutsSize
  <1> QED BY <1>6, <1>8

(* A step keeps the sizes in agreement.                                    *)
LEMMA SizesStep ==
    ASSUME ExtendAlone, SizeInv, [Next]_vars
    PROVE  SizeInv'
  <1>0. CallsInv'
    BY CallsStep DEF SizeInv
  <1>1. CASE UNCHANGED vars
    BY <1>0, <1>1 DEF SizeInv, OneGrows, Growing, PutsSize, SizesAgree, NoneFailed, NonePuts, vars
  <1>2. CASE Next
    <2>1. PICK o \in Ops : \E d : Moves(o, call[o], d)
      BY <1>2, CallSteps DEF SizeInv
    <2>2. PICK d : Moves(o, call[o], d)
      BY <2>1
    <2>3. OneGrows' /\ PutsSize'
      BY <1>0, <2>2, OneGrowsStep
    <2> DEFINE c == call[o]
               eow == max_eow(c.iovs)
    <2>4. /\ call'[o] = d /\ (\A p \in Ops \ {o} : call'[p] = call[p])
          /\ moa_size \in Nat /\ written \in Nat /\ CallsInv
      BY <2>2 DEF SizeInv, CallsInv, Moves, SizesAgree
    <2>5. c.step # "failed"
      BY <2>2 DEF Moves, Begins, GoesOn, EndsWithin, EndsBehind, Stores, GivesUp
    <2>6. NoneFailed' => NoneFailed
      BY <2>4, <2>5 DEF NoneFailed
    <2>7. c.step \in Writing => eow \in Nat
      BY <2>4, EndsAre
    <2>8. SizesAgree'
      <3>1. CASE SizesKept /\ c.step # "put" /\ d.step # "put"
        <4>1. NonePuts' => NonePuts
          BY <2>4, <3>1 DEF NonePuts
        <4> QED BY <2>6, <3>1, <4>1 DEF SizeInv, SizesAgree, SizesKept
      <3>2. CASE EndsWithin(c, d)
        <4>1. /\ eow \in Nat /\ eow <= moa_size /\ moa_size' = moa_size /\ stored' = stored
              /\ written' = Max({written, eow})
          BY <2>7, <3>2 DEF EndsWithin, Writing
        <4>2. written' = IF written >= eow THEN written ELSE eow
          BY <2>4, <4>1, MaxOfTwo
        <4>3. NonePuts' => NonePuts
          BY <2>4, <3>2 DEF NonePuts, EndsWithin
        <4> HIDE DEF eow
        <4> QED BY <2>4, <2>6, <4>1, <4>2, <4>3 DEF SizeInv, SizesAgree
      <3>3. CASE EndsBehind(c, d)
        <4>1. eow \in Nat /\ eow > moa_size /\ moa_size' = eow /\ written' = written /\ ~NonePuts'
          BY <2>4, <2>7, <3>3 DEF EndsBehind, Writing, NonePuts
        <4> HIDE DEF eow
        <4> QED BY <2>4, <2>6, <4>1 DEF SizeInv, SizesAgree
      <3>4. CASE Stores(c, d)
        <4>1. /\ eow \in Nat /\ eow = moa_size /\ stored' = moa_size /\ moa_size' = moa_size
              /\ written' = Max({written, eow})
          BY <2>4, <2>7, <3>4 DEF Stores, Writing, SizeInv, PutsSize
        <4>2. written' = IF written >= eow THEN written ELSE eow
          BY <2>4, <4>1, MaxOfTwo
        <4> HIDE DEF eow
        <4> QED BY <2>4, <2>6, <4>1, <4>2 DEF SizeInv, SizesAgree
      <3>5. CASE GivesUp(c, d)
        <4>1. ~NoneFailed' /\ written' = written
          BY <2>4, <3>5 DEF GivesUp, NoneFailed, SizesKept
        <4> QED BY <2>4, <4>1 DEF SizesAgree
      <3>6. Begins(o, c, d) \/ GoesOn(c, d) => SizesKept /\ c.step # "put" /\ d.step # "put"
        BY DEF Begins, GoesOn, Writing
      <3> QED BY <2>2, <3>1, <3>2, <3>3, <3>4, <3>5, <3>6 DEF Moves
    <2> QED BY <1>0, <2>3, <2>8 DEF SizeInv
  <1> QED BY <1>1, <1>2

(* When no call is in flight and none has failed, the size that is stored, *)
(* and the one in the handle, is the furthest end of the completed writes, *)
(* for any number of calls and any vectors, if the application has one     *)
(* write at a time grow the object (SizeStored).                           *)
THEOREM SizesAreStored ==
    ASSUME ExtendAlone
    PROVE  Spec => []SizeStored
  <1>1. Init => SizeInv
    BY SizesInitially
  <1>2. SizeInv /\ [Next]_vars => SizeInv'
    BY SizesStep
  <1>3. SizeInv => SizeStored
    BY DEF SizeInv, SizesAgree, SizeStored, NoneFailed, NonePuts
  <1> QED BY <1>1, <1>2, <1>3, PTL DEF Spec
=============================================================================
