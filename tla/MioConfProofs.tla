---------------------------- MODULE MioConfProofs ----------------------------
(***************************************************************************)
(* Proofs about the configuration: what mio_conf_init leaves in the static *)
(* variables, for every file of the form MioInit assumes and whatever the  *)
(* variables held before.                                                  *)
(*                                                                         *)
(* The loop of mio_conf_init is a recursive function over the tokens, and  *)
(* the tokens are those of the entries in a row.  Leads is the loop on     *)
(* part of the tokens; a loop over tokens in a row is the loops over the   *)
(* parts one after the other (LeadsSplit, FlatRun), so that a fact about   *)
(* one entry becomes one about a file by induction over its entries.       *)
(***************************************************************************)
EXTENDS MioInit, SequenceTheorems, WellFoundedInduction, TLAPS

(* A set of natural numbers has a least element.                           *)
LEMMA Least ==
    ASSUME NEW T \in SUBSET Nat, T # {}
    PROVE  \E x \in T : \A y \in T : x <= y
  <1> DEFINE R == OpToRel(<, Nat)
  <1>1. \A y, x \in Nat : y < x => <<y, x>> \in R
    BY DEF OpToRel
  <1>2. IsWellFoundedOn(R, Nat)
    BY NatLessThanWellFounded
  <1> HIDE DEF R
  <1>3. PICK x \in T : \A y \in T : ~ (<<y, x>> \in R)
    BY <1>2, WFMin
  <1>4. ASSUME NEW y \in T PROVE x <= y
    <2>1. ~ (<<y, x>> \in R) /\ x \in Nat /\ y \in Nat
      BY <1>3
    <2>2. ~ (y < x)
      BY <1>1, <2>1
    <2> QED BY <2>1, <2>2
  <1> QED BY <1>4

(* Induction up to n: a set that has 0, and with k also k + 1, has n.      *)
LEMMA Induct ==
    ASSUME NEW n \in Nat, NEW T, 0 \in T, \A k \in 0..(n - 1) : k \in T => k + 1 \in T
    PROVE  0..n \subseteq T
  <1> SUFFICES ASSUME (0..n) \ T # {} PROVE FALSE
    OBVIOUS
  <1>1. (0..n) \ T \in SUBSET Nat
    OBVIOUS
  <1>2. PICK x \in (0..n) \ T : \A y \in (0..n) \ T : x <= y
    BY <1>1, Least
  <1>3. x # 0 /\ x - 1 \in 0..(n - 1) /\ (x - 1) + 1 = x
    BY <1>2
  <1>4. x - 1 \in T
    BY <1>2, <1>3
  <1> QED BY <1>2, <1>3, <1>4

(***************************************************************************)
(* The loop on part of the tokens.                                         *)
(***************************************************************************)
Step(c, t) == IF c.rc = "ok" THEN ConfToken(c, t) ELSE c

IsRun(r, c, s) == r[0] = c /\ \A i \in 1..Len(s) : r[i] = Step(r[i - 1], s[i])

Leads(c, s, d) == \E r : IsRun(r, c, s) /\ r[Len(s)] = d

(* The texts that occur; the provers do not know that a literal is in      *)
(* STRING.                                                                 *)
Text == STRING \cup {"", "0", "0:0", "INVALID", "MOTR", "NONE", "ADDB", "LOG", "default",
                     Garbage, NoPoolName}
Tokens == [type : {"KEY", "VALUE", "SCALAR", "SEQUENCE", "ENTRY", "END", "STREAM_END"}, text : Text]

(* No token changes nothing, and one token is one pass of the loop.        *)
LEMMA LeadsNone ==
    ASSUME NEW c, NEW d, Leads(c, <<>>, d)
    PROVE  d = c
  BY DEF Leads, IsRun

(* One token is one pass of the loop.                                      *)
LEMMA LeadsOne ==
    ASSUME NEW c, NEW d, NEW t, Leads(c, <<t>>, d)
    PROVE  d = Step(c, t)
  <1>1. PICK r : IsRun(r, c, <<t>>) /\ r[Len(<<t>>)] = d
    BY DEF Leads
  <1>2. Len(<<t>>) = 1 /\ <<t>>[1] = t /\ 1 \in 1..Len(<<t>>) /\ 1 - 1 = 0
    OBVIOUS
  <1>3. r[1] = Step(r[1 - 1], <<t>>[1]) /\ r[0] = c
    BY <1>1, <1>2 DEF IsRun
  <1> QED BY <1>1, <1>2, <1>3

(* The loop over tokens in a row goes through the state between them.      *)
LEMMA LeadsSplit ==
    ASSUME NEW c, NEW d, NEW s \in Seq(Tokens), NEW t \in Seq(Tokens), Leads(c, s \o t, d)
    PROVE  \E m : Leads(c, s, m) /\ Leads(m, t, d)
  <1> DEFINE n == Len(s)
             k == Len(t)
  <1>1. PICK r : IsRun(r, c, s \o t) /\ r[Len(s \o t)] = d
    BY DEF Leads
  <1>2. /\ n \in Nat /\ k \in Nat /\ Len(s \o t) = n + k
        /\ \A i \in 1..n : (s \o t)[i] = s[i]
        /\ \A i \in 1..k : (s \o t)[n + i] = t[i]
    OBVIOUS
  <1> DEFINE q == [i \in 0..k |-> r[n + i]]
  <1>3. IsRun(r, c, s)
    BY <1>1, <1>2 DEF IsRun
  <1>4. IsRun(q, r[n], t) /\ q[k] = d
    <2>1. q[0] = r[n] /\ q[k] = d
      BY <1>1, <1>2
    <2>2. ASSUME NEW i \in 1..k PROVE q[i] = Step(q[i - 1], t[i])
      <3>1. /\ i - 1 \in 0..k /\ i \in 0..k /\ n + (i - 1) = (n + i) - 1 /\ n + i \in 1..(n + k)
        BY <1>2
      <3>2. r[n + i] = Step(r[(n + i) - 1], (s \o t)[n + i])
        BY <1>1, <1>2, <3>1 DEF IsRun
      <3>3. q[i] = r[n + i] /\ q[i - 1] = r[n + (i - 1)]
        BY <3>1
      <3> QED BY <1>2, <3>1, <3>2, <3>3
    <2> HIDE DEF q
    <2> QED BY <2>1, <2>2 DEF IsRun
  <1> QED BY <1>3, <1>4 DEF Leads

(***************************************************************************)
(* FlattenSeq, part by part.                                               *)
(***************************************************************************)
IsFlat(f, ss) == \A i \in 1..Len(ss) : f[i] = IF i = 1 THEN ss[i] ELSE f[i - 1] \o ss[i]

(* FlattenSeq is a recursive function: there is a function that satisfies  *)
(* its equation.                                                           *)
LEMMA FlatExists ==
    ASSUME NEW ss \in Seq(Seq(Tokens))
    PROVE  \E f : f = [i \in 1..Len(ss) |-> IF i = 1 THEN ss[i] ELSE f[i - 1] \o ss[i]]
  <1> DEFINE n == Len(ss)
             G(f, i) == IF i = 1 THEN ss[i] ELSE f[i - 1] \o ss[i]
             T == {k \in 0..n : \E f : f = [i \in 1..k |-> G(f, i)]}
  <1>1. n \in Nat
    OBVIOUS
  <1>2. 0 \in T
    <2>1. 1..0 = {}
      OBVIOUS
    <2> DEFINE f == [i \in 1..0 |-> ss[i]]
    <2>2. f = [i \in 1..0 |-> G(f, i)]
      BY <2>1
    <2>3. 0 \in 0..n
      BY <1>1
    <2> HIDE DEF f
    <2> QED BY <2>2, <2>3
  <1>3. ASSUME NEW k \in 0..(n - 1), k \in T PROVE k + 1 \in T
    <2>1. PICK f : f = [i \in 1..k |-> G(f, i)]
      BY <1>3
    <2> DEFINE g == [i \in 1..(k + 1) |-> IF i <= k THEN f[i] ELSE G(f, i)]
    <2>2. ASSUME NEW i \in 1..(k + 1) PROVE g[i] = G(g, i)
      <3>1. i # 1 => i - 1 \in 1..k /\ g[i - 1] = f[i - 1]
        OBVIOUS
      <3>2. g[i] = G(f, i)
        <4>1. CASE i <= k
          <5>1. i \in 1..k /\ g[i] = f[i]
            BY <4>1
          <5> QED BY <2>1, <5>1
        <4>2. CASE ~(i <= k)
          BY <4>2
        <4> QED BY <4>1, <4>2
      <3> HIDE DEF g
      <3> QED BY <3>1, <3>2
    <2>3. g = [i \in 1..(k + 1) |-> g[i]]
      OBVIOUS
    <2> HIDE DEF g
    <2>4. g = [i \in 1..(k + 1) |-> G(g, i)]
      BY <2>2, <2>3
    <2>5. k + 1 \in 0..n
      BY <1>1
    <2> QED BY <2>4, <2>5
  <1> HIDE DEF n, T
  <1>4. 0..n \subseteq T
    BY <1>1, <1>2, <1>3, Induct
  <1>5. n \in T
    BY <1>1, <1>4
  <1> QED BY <1>5 DEF n, T

(* So FlattenSeq is what the equation says, one part after the other.      *)
LEMMA FlattenIs ==
    ASSUME NEW ss \in Seq(Seq(Tokens)), Len(ss) # 0
    PROVE  \E f : /\ FlattenSeq(ss) = f[Len(ss)] /\ IsFlat(f, ss)
                  /\ \A i \in 1..Len(ss) : f[i] \in Seq(Tokens)
  <1> DEFINE n == Len(ss)
             P(g) == g = [i \in 1..n |-> IF i = 1 THEN ss[i] ELSE g[i - 1] \o ss[i]]
             f == CHOOSE g : P(g)
  <1>1. n \in Nat /\ \A i \in 1..n : ss[i] \in Seq(Tokens)
    OBVIOUS
  <1>2. P(f)
    BY FlatExists
  <1>3. FlattenSeq(ss) = f[n]
    BY DEF FlattenSeq
  <1> HIDE DEF f
  <1>4. ASSUME NEW i \in 1..n PROVE f[i] = IF i = 1 THEN ss[i] ELSE f[i - 1] \o ss[i]
    BY <1>2
  <1> HIDE DEF n
  <1> DEFINE T == {k \in 0..n : k # 0 => f[k] \in Seq(Tokens)}
  <1>5. 0 \in T
    BY <1>1
  <1>6. ASSUME NEW k \in 0..(n - 1), k \in T PROVE k + 1 \in T
    <2>1. k + 1 \in 1..n /\ (k + 1) - 1 = k /\ k + 1 \in 0..n /\ (k + 1 = 1 <=> k = 0)
      BY <1>1
    <2>2. f[k + 1] = IF k = 0 THEN ss[k + 1] ELSE f[k] \o ss[k + 1]
      BY <1>4, <2>1
    <2>3. ss[k + 1] \in Seq(Tokens) /\ (k # 0 => f[k] \in Seq(Tokens))
      BY <1>1, <1>6, <2>1
    <2>4. f[k + 1] \in Seq(Tokens)
      BY <2>2, <2>3
    <2> QED BY <2>1, <2>4
  <1>7. 0..n \subseteq T
    <2> HIDE DEF T
    <2> QED BY <1>1, <1>5, <1>6, Induct
  <1>8. \A i \in 1..n : f[i] \in Seq(Tokens)
    BY <1>1, <1>7
  <1> QED BY <1>3, <1>4, <1>8 DEF IsFlat, n

(* The loop over the tokens of parts: the states after each of them.       *)
Stations(r, c, ss, d) ==
    r[0] = c /\ r[Len(ss)] = d /\ \A i \in 1..Len(ss) : Leads(r[i - 1], ss[i], r[i])

(* The loop over tokens that were put in a row is the loops over the       *)
(* parts, one after the other.                                             *)
LEMMA FlatRun ==
    ASSUME NEW ss \in Seq(Seq(Tokens)), NEW c, NEW d, Leads(c, FlattenSeq(ss), d)
    PROVE  \E r : Stations(r, c, ss, d)
  <1> DEFINE n == Len(ss)
  <1>1. n \in Nat /\ \A i \in 1..n : ss[i] \in Seq(Tokens)
    OBVIOUS
  <1>2. CASE n = 0
    <2>1. FlattenSeq(ss) = <<>>
      BY <1>2 DEF FlattenSeq
    <2>2. d = c
      BY <2>1, LeadsNone
    <2> DEFINE r == [i \in 0..0 |-> c]
    <2>3. r[0] = c
      OBVIOUS
    <2> HIDE DEF r
    <2>4. Stations(r, c, ss, d)
      BY <1>2, <2>2, <2>3 DEF Stations
    <2> QED BY <2>4
  <1>3. CASE n # 0
    <2>1. PICK f : /\ FlattenSeq(ss) = f[n] /\ IsFlat(f, ss)
                   /\ \A i \in 1..n : f[i] \in Seq(Tokens)
      BY <1>3, FlattenIs
    <2> DEFINE Way(k, r, e) == r[0] = c /\ r[k] = e /\ \A i \in 1..k : Leads(r[i - 1], ss[i], r[i])
               T == {k \in 0..n : k # 0 => \A e : Leads(c, f[k], e) => \E r : Way(k, r, e)}
    <2>2. 0 \in T
      BY <1>1
    <2>3. ASSUME NEW k \in 0..(n - 1), k \in T PROVE k + 1 \in T
      <3>1. k + 1 \in 1..n /\ (k + 1) - 1 = k /\ k + 1 \in 0..n /\ (k + 1 = 1 <=> k = 0) /\ k \in Nat
        BY <1>1
      <3>2. f[k + 1] = IF k = 0 THEN ss[k + 1] ELSE f[k] \o ss[k + 1]
        BY <2>1, <3>1 DEF IsFlat
      <3>3. ASSUME NEW e, Leads(c, f[k + 1], e) PROVE \E r : Way(k + 1, r, e)
        <4>1. \E m, q : Way(k, q, m) /\ Leads(m, ss[k + 1], e)
          <5>1. CASE k = 0
            <6> DEFINE q == [i \in 0..0 |-> c]
            <6>1. q[0] = c
              OBVIOUS
            <6> HIDE DEF q
            <6>2. Way(k, q, c)
              BY <5>1, <6>1
            <6>3. Leads(c, ss[k + 1], e)
              BY <3>2, <3>3, <5>1
            <6> QED BY <6>2, <6>3
          <5>2. CASE k # 0
            <6>1. k \in 1..n /\ f[k] \in Seq(Tokens) /\ ss[k + 1] \in Seq(Tokens)
              BY <1>1, <2>1, <3>1, <5>2
            <6>2. PICK m : Leads(c, f[k], m) /\ Leads(m, ss[k + 1], e)
              BY <3>2, <3>3, <5>2, <6>1, LeadsSplit
            <6>3. \E q : Way(k, q, m)
              BY <2>3, <5>2, <6>2
            <6> QED BY <6>2, <6>3
          <5> QED BY <5>1, <5>2
        <4>2. PICK m, q : Way(k, q, m) /\ Leads(m, ss[k + 1], e)
          BY <4>1
        <4> DEFINE r == [i \in 0..(k + 1) |-> IF i <= k THEN q[i] ELSE e]
        <4>3. /\ r[0] = q[0] /\ r[k + 1] = e /\ r[k] = q[k]
              /\ \A i \in 1..k : r[i] = q[i] /\ r[i - 1] = q[i - 1]
          BY <3>1
        <4> HIDE DEF r
        <4>4. ASSUME NEW i \in 1..(k + 1) PROVE Leads(r[i - 1], ss[i], r[i])
          <5>1. i \in 1..k \/ i = k + 1
            BY <3>1
          <5>2. CASE i = k + 1
            BY <3>1, <4>2, <4>3, <5>2
          <5>3. CASE i \in 1..k
            BY <4>2, <4>3, <5>3
          <5> QED BY <5>1, <5>2, <5>3
        <4>5. Way(k + 1, r, e)
          BY <4>2, <4>3, <4>4
        <4> QED BY <4>5
      <3> QED BY <3>1, <3>3
    <2> HIDE DEF n, T
    <2>4. 0..n \subseteq T
      BY <1>1, <2>2, <2>3, Induct
    <2>5. n \in T
      BY <1>1, <2>4
    <2>6. \E r : Way(n, r, d)
      BY <1>3, <2>1, <2>5 DEF T
    <2> QED BY <2>6 DEF Stations, n
  <1> QED BY <1>2, <1>3

(* The loop of mio_conf_init is one over all the tokens.                   *)
LEMMA ScanLeads ==
    ASSUME NEW c, NEW toks \in Seq(Tokens)
    PROVE  Leads(ConfStart(c), toks, ConfScan(c, toks))
  <1> DEFINE n == Len(toks)
             G(f, i) == IF i = 0 THEN ConfStart(c)
                        ELSE LET x == f[i - 1] IN IF x.rc = "ok" THEN ConfToken(x, toks[i]) ELSE x
             T == {k \in 0..n : \E f : f = [i \in 0..k |-> G(f, i)]}
  <1>1. n \in Nat
    OBVIOUS
  <1>2. 0 \in T
    <2> DEFINE f == [i \in 0..0 |-> ConfStart(c)]
    <2>1. f = [i \in 0..0 |-> G(f, i)]
      OBVIOUS
    <2>2. 0 \in 0..n
      BY <1>1
    <2> HIDE DEF f
    <2> QED BY <2>1, <2>2
  <1>3. ASSUME NEW k \in 0..(n - 1), k \in T PROVE k + 1 \in T
    <2>1. PICK f : f = [i \in 0..k |-> G(f, i)]
      BY <1>3
    <2> DEFINE g == [i \in 0..(k + 1) |-> IF i <= k THEN f[i] ELSE G(f, i)]
    <2>2. ASSUME NEW i \in 0..(k + 1) PROVE g[i] = G(g, i)
      <3>1. i # 0 => i - 1 \in 0..k /\ g[i - 1] = f[i - 1]
        OBVIOUS
      <3>2. g[i] = G(f, i)
        <4>1. CASE i <= k
          <5>1. i \in 0..k /\ g[i] = f[i]
            BY <4>1
          <5> QED BY <2>1, <5>1
        <4>2. CASE ~(i <= k)
          BY <4>2
        <4> QED BY <4>1, <4>2
      <3> HIDE DEF g
      <3> QED BY <3>1, <3>2
    <2>3. g = [i \in 0..(k + 1) |-> g[i]]
      OBVIOUS
    <2> HIDE DEF g
    <2>4. g = [i \in 0..(k + 1) |-> G(g, i)]
      BY <2>2, <2>3
    <2>5. k + 1 \in 0..n
      BY <1>1
    <2> QED BY <2>4, <2>5
  <1> HIDE DEF n, T
  <1>4. 0..n \subseteq T
    BY <1>1, <1>2, <1>3, Induct
  <1>5. n \in T
    BY <1>1, <1>4
  <1> DEFINE P(f) == f = [i \in 0..n |-> G(f, i)]
             loop == CHOOSE f : P(f)
  <1>6. P(loop)
    BY <1>5 DEF T
  <1>7. ConfScan(c, toks) = loop[n]
    BY DEF ConfScan, n
  <1> HIDE DEF loop
  <1>8. IsRun(loop, ConfStart(c), toks)
    <2>1. loop[0] = ConfStart(c)
      BY <1>1, <1>6
    <2>2. ASSUME NEW i \in 1..n PROVE loop[i] = Step(loop[i - 1], toks[i])
      <3>1. i \in 0..n /\ i # 0
        BY <1>1
      <3>2. loop[i] = G(loop, i)
        BY <1>6, <3>1
      <3> QED BY <3>1, <3>2 DEF Step
    <2> QED BY <2>1, <2>2 DEF IsRun, n
  <1> QED BY <1>7, <1>8 DEF Leads, n

(***************************************************************************)
(* The static variables and the locals of mio_conf_init.                   *)
(***************************************************************************)
PoolType == [name : Text, id : Text, type : Text]

ConfType ==
    [blk_seq : BOOLEAN, drv_id : Text, telem : Text,
     motr_conf : {NoConf} \cup [MotrSettings -> Text],
     default : Text, table : BOOLEAN, pools : Seq(PoolType), default_idx : Nat,
     is_key : BOOLEAN, key : Text, rc : {"ok", "err"},
     inst : [InstSettings -> Text], open : SUBSET (InstSettings \cup MotrSettings), wild : BOOLEAN]

(* What a key leaves alone.                                                *)
SamePools(x, y) == y.pools = x.pools /\ y.table = x.table /\ y.blk_seq = x.blk_seq
SameRest(x, y) == /\ y.drv_id = x.drv_id /\ y.telem = x.telem /\ y.inst = x.inst
                  /\ y.default = x.default /\ y.wild = x.wild

(* A key of Motr has a configuration made for it, if there is none.        *)
Keyed(x, k, z) ==
    /\ z \in ConfType /\ z.rc = "ok" /\ z.key = k /\ SamePools(x, z) /\ SameRest(x, z)
    /\ x.motr_conf # NoConf \/ k \notin MotrKeys => z.motr_conf = x.motr_conf
    /\ k \in MotrKeys => z.motr_conf # NoConf

(* A configuration of Motr that was allocated is not NULL.                 *)
LEMMA NoConfIs ==
    ASSUME NEW f \in [MotrSettings -> Text]
    PROVE  f # NoConf
  <1>1. "MOTR_PROFILE" \in DOMAIN f
    BY DEF MotrSettings, MotrStrings
  <1>2. DOMAIN NoConf = {}
    BY DEF NoConf
  <1> QED BY <1>1, <1>2

(* A scalar that is a key: conf_extract_key knows it or ends the loop.     *)
LEMMA KeyIs ==
    ASSUME NEW x \in ConfType, x.rc = "ok", NEW k \in Text
    PROVE  LET z == conf_extract_key([x EXCEPT !.is_key = TRUE], k)
           IN  /\ k \in ConfKeys => Keyed(x, k, z) /\ Keyed(x, k, [z EXCEPT !.is_key = FALSE])
               /\ k \notin ConfKeys => /\ z \in ConfType /\ z.rc = "err" /\ SamePools(x, z) /\ SameRest(x, z)
                                       /\ z.motr_conf = x.motr_conf
  <1> DEFINE a == [x EXCEPT !.is_key = TRUE]
             b == [a EXCEPT !.key = k]
             z == conf_extract_key(a, k)
             m == [i \in MotrSettings |-> IF i = "MOTR_MAX_IOSIZE_PER_DEV" THEN "default" ELSE Garbage]
  <1>1. a \in ConfType /\ a.rc = "ok" /\ SamePools(x, a) /\ SameRest(x, a) /\ a.motr_conf = x.motr_conf
    BY DEF ConfType, SamePools, SameRest
  <1> HIDE DEF a
  <1>2. CASE k \notin ConfKeys
    <2>1. z = [a EXCEPT !.rc = "err"]
      BY <1>2 DEF conf_extract_key
    <2>2. z \in ConfType /\ z.rc = "err" /\ SamePools(a, z) /\ SameRest(a, z) /\ z.motr_conf = a.motr_conf
      BY <1>1, <2>1 DEF ConfType, SamePools, SameRest
    <2> QED BY <1>1, <1>2, <2>2 DEF SamePools, SameRest, a
  <1>3. CASE k \in ConfKeys
    <2>1. /\ b \in ConfType /\ b.rc = "ok" /\ b.key = k /\ SamePools(a, b) /\ SameRest(a, b)
          /\ b.motr_conf = a.motr_conf
      BY <1>1 DEF ConfType, SamePools, SameRest
    <2>2. z = conf_alloc_driver(b)
      BY <1>3 DEF conf_extract_key
    <2> HIDE DEF b
    <2>3. m \in [MotrSettings -> Text] /\ m # NoConf
      <3>1. m \in [MotrSettings -> Text]
        BY DEF Text
      <3> QED BY <3>1, NoConfIs
    <2>4. Keyed(b, k, z)
      <3>1. CASE k \in MotrKeys /\ b.motr_conf = NoConf
        <4>1. z = [b EXCEPT !.motr_conf = m]
          BY <2>1, <2>2, <3>1 DEF conf_alloc_driver
        <4> HIDE DEF m
        <4>2. z \in ConfType /\ z.rc = "ok" /\ z.key = k /\ SamePools(b, z) /\ SameRest(b, z) /\ z.motr_conf = m
          BY <2>1, <2>3, <4>1 DEF ConfType, SamePools, SameRest
        <4> QED BY <2>3, <3>1, <4>2 DEF Keyed
      <3>2. CASE ~(k \in MotrKeys /\ b.motr_conf = NoConf)
        <4>1. z = b
          BY <2>1, <2>2, <3>2 DEF conf_alloc_driver
        <4> QED BY <2>1, <3>2, <4>1 DEF Keyed, SamePools, SameRest
      <3> QED BY <3>1, <3>2
    <2>5. Keyed(x, k, z)
      BY <1>1, <2>1, <2>4 DEF Keyed, SamePools, SameRest
    <2> DEFINE y == [z EXCEPT !.is_key = FALSE]
    <2>6. Keyed(x, k, y)
      <3> HIDE DEF z
      <3>1. z \in ConfType
        BY <2>5 DEF Keyed
      <3>2. /\ y \in ConfType /\ y.rc = z.rc /\ y.key = z.key /\ SamePools(z, y) /\ SameRest(z, y)
            /\ y.motr_conf = z.motr_conf
        BY <3>1 DEF ConfType, SamePools, SameRest
      <3> HIDE DEF y
      <3> QED BY <2>5, <3>2 DEF Keyed, SamePools, SameRest
    <2> QED BY <1>3, <2>5, <2>6 DEF a
  <1> QED BY <1>2, <1>3

(* The values of a key outside of the pools.                               *)
LEMMA ValueArms ==
    ASSUME NEW c, NEW v, NEW y, y = conf_extract_value(c, v)
    PROVE  /\ c.key = "MIO_DRIVER" =>
                y = IF v = "MOTR" THEN [c EXCEPT !.drv_id = v]
                                  ELSE [c EXCEPT !.drv_id = "INVALID", !.rc = "err"]
           /\ c.key = "MIO_TELEMETRY_STORE" =>
                y = [c EXCEPT !.telem = IF v \in {"ADDB", "LOG"} THEN v ELSE "NONE"]
           /\ c.key = "MIO_LOG_LEVEL" =>
                y = [c EXCEPT !.inst[c.key] = v, !.rc = IF v \notin LogLevels THEN "err" ELSE @]
           /\ c.key \in InstSettings \ {"MIO_LOG_LEVEL"} =>
                y = NoEnd([c EXCEPT !.inst[c.key] = conf_copy_str(v)])
           /\ c.key \in MotrNumbers => y = [c EXCEPT !.motr_conf[c.key] = atoi(v)]
           /\ c.key \in MotrSettings \ MotrNumbers =>
                y = NoEnd([c EXCEPT !.motr_conf[c.key] = conf_copy_str(v)])
           /\ c.key = "MOTR_POOL_DEFAULT" => y = [c EXCEPT !.default = PoolName(v)]
           /\ c.key \in {"MIO_CONFIG", "MOTR_CONFIG", "MOTR_POOLS"} => y = c
  <1> USE DEF conf_extract_value, InstSettings, MotrSettings, MotrNumbers, MotrStrings
  <1>1. c.key = "MIO_DRIVER" => y = IF v = "MOTR" THEN [c EXCEPT !.drv_id = v]
                                      ELSE [c EXCEPT !.drv_id = "INVALID", !.rc = "err"]
    OBVIOUS
  <1>2. c.key = "MIO_TELEMETRY_STORE" => y = [c EXCEPT !.telem = IF v \in {"ADDB", "LOG"} THEN v ELSE "NONE"]
    OBVIOUS
  <1>3. c.key = "MIO_LOG_LEVEL" =>
          y = [c EXCEPT !.inst[c.key] = v, !.rc = IF v \notin LogLevels THEN "err" ELSE @]
    OBVIOUS
  <1>3a. c.key \in InstSettings \ {"MIO_LOG_LEVEL"} => y = NoEnd([c EXCEPT !.inst[c.key] = conf_copy_str(v)])
    OBVIOUS
  <1>4. c.key \in MotrNumbers => y = [c EXCEPT !.motr_conf[c.key] = atoi(v)]
    OBVIOUS
  <1>5. c.key \in MotrSettings \ MotrNumbers => y = NoEnd([c EXCEPT !.motr_conf[c.key] = conf_copy_str(v)])
    OBVIOUS
  <1>6. c.key = "MOTR_POOL_DEFAULT" => y = [c EXCEPT !.default = PoolName(v)]
    OBVIOUS
  <1>7. c.key \in {"MIO_CONFIG", "MOTR_CONFIG", "MOTR_POOLS"} => y = c
    OBVIOUS
  <1> QED
    <2> HIDE DEF conf_extract_value, InstSettings, MotrSettings, MotrNumbers, MotrStrings
    <2> QED BY <1>1, <1>2, <1>3, <1>3a, <1>4, <1>5, <1>6, <1>7

(* The missing end of a string is all that NoEnd changes.                  *)
LEMMA NoEndIs ==
    ASSUME NEW x \in ConfType, x.key \in InstSettings \cup MotrSettings, NEW y, y = NoEnd(x)
    PROVE  /\ y \in ConfType /\ y.key = x.key /\ y.rc = x.rc /\ SamePools(x, y) /\ SameRest(x, y)
           /\ y.motr_conf = x.motr_conf
  <1> DEFINE o == x.open \cup {x.key}
  <1>1. y = [x EXCEPT !.open = o]
    BY DEF NoEnd
  <1>2. o \in SUBSET (InstSettings \cup MotrSettings)
    <2>1. x.open \in SUBSET (InstSettings \cup MotrSettings)
      BY DEF ConfType
    <2> QED BY <2>1
  <1> HIDE DEF o
  <1>3. y \in ConfType /\ y.key = x.key /\ y.rc = x.rc /\ y.motr_conf = x.motr_conf
    BY <1>1, <1>2 DEF ConfType
  <1>4. SamePools(x, y) /\ SameRest(x, y)
    BY <1>1 DEF ConfType, SamePools, SameRest
  <1> QED BY <1>3, <1>4

(* A setting that was given is the one that counts.                        *)
Takes(y, k, v) ==
    /\ k \in MotrSettings => /\ y.motr_conf # NoConf
                             /\ y.motr_conf[k] = IF k \in MotrNumbers THEN atoi(v) ELSE conf_copy_str(v)
    /\ k \in InstSettings => y.inst[k] = IF k = "MIO_LOG_LEVEL" THEN v ELSE conf_copy_str(v)
    /\ k = "MIO_TELEMETRY_STORE" => y.telem = IF v \in {"ADDB", "LOG"} THEN v ELSE "NONE"
    /\ k = "MOTR_POOL_DEFAULT" => y.default = PoolName(v)
    /\ k = "MIO_DRIVER" => y.drv_id = "MOTR"

(* ... and leaves the others as they are.                                  *)
Spares(x, k, y) ==
    /\ x.motr_conf # NoConf => /\ y.motr_conf # NoConf
                               /\ \A i \in MotrSettings \ {k} : y.motr_conf[i] = x.motr_conf[i]
    /\ k \notin MotrKeys => y.motr_conf = x.motr_conf
    /\ \A i \in InstSettings \ {k} : y.inst[i] = x.inst[i]
    /\ k # "MIO_TELEMETRY_STORE" => y.telem = x.telem
    /\ k # "MIO_DRIVER" => y.drv_id = x.drv_id
    /\ k # "MOTR_POOL_DEFAULT" => y.default = x.default
    /\ y.wild = x.wild

PlainKeys == ConfKeys \ DOMAIN PoolFields

(* A scalar that is a value of a key outside of a pool: conf_extract_value *)
(* stores it and nothing else, and only a driver or a log level can be     *)
(* wrong.                                                                  *)
LEMMA ValueIs ==
    ASSUME NEW c \in ConfType, c.rc = "ok", c.key \in PlainKeys, c.key \in MotrKeys => c.motr_conf # NoConf,
           NEW v \in Text, conf_copy_str(v) \in Text, PoolName(v) \in Text,
           NEW y, y = conf_extract_value(c, v)
    PROVE  /\ y \in ConfType /\ y.key = c.key /\ SamePools(c, y) /\ Spares(c, c.key, y)
           /\ y.rc = "ok" => Takes(y, c.key, v)
           /\ y.rc # "ok" => c.key \in {"MIO_DRIVER", "MIO_LOG_LEVEL"}
  <1> DEFINE k == c.key
  <1>1. k \in MotrKeys => c.motr_conf \in [MotrSettings -> Text]
    BY DEF ConfType
  <1>2. CASE k = "MIO_DRIVER"
    <2>1. (y = [c EXCEPT !.drv_id = v] /\ v = "MOTR") \/ y = [c EXCEPT !.drv_id = "INVALID", !.rc = "err"]
      BY <1>2, ValueArms
    <2>2. y \in ConfType /\ y.key = k /\ SamePools(c, y)
      BY ZenonT(30), <2>1 DEF ConfType, SamePools, Text
    <2>3. Spares(c, k, y)
      BY <1>2, <2>1 DEF ConfType, Spares
    <2>4. y.rc = "ok" => y.drv_id = "MOTR"
      BY <2>1 DEF ConfType
    <2> QED BY <1>2, <2>2, <2>3, <2>4 DEF Takes, MotrSettings, MotrStrings, MotrNumbers, InstSettings
  <1>3. CASE k = "MIO_TELEMETRY_STORE"
    <2> DEFINE w == IF v \in {"ADDB", "LOG"} THEN v ELSE "NONE"
    <2>1. y = [c EXCEPT !.telem = w] /\ w \in Text
      BY <1>3, ValueArms DEF Text
    <2> HIDE DEF w
    <2>2. y \in ConfType /\ y.key = k /\ y.rc = "ok" /\ SamePools(c, y) /\ y.telem = w
      BY <2>1 DEF ConfType, SamePools
    <2>3. Spares(c, k, y)
      BY <1>3, <2>1 DEF ConfType, Spares
    <2> QED BY <1>3, <2>2, <2>3 DEF Takes, w, MotrSettings, MotrStrings, MotrNumbers, InstSettings
  <1>4. CASE k \in InstSettings
    <2> DEFINE w == IF k = "MIO_LOG_LEVEL" THEN v ELSE conf_copy_str(v)
               r == IF k = "MIO_LOG_LEVEL" /\ v \notin LogLevels THEN "err" ELSE c.rc
               x == [c EXCEPT !.inst[k] = w, !.rc = r]
    <2>1. y = x \/ y = NoEnd(x)
      <3>1. CASE k = "MIO_LOG_LEVEL"
        <4>1. y = [c EXCEPT !.inst[k] = v, !.rc = IF v \notin LogLevels THEN "err" ELSE @]
          BY <3>1, ValueArms
        <4> QED BY <3>1, <4>1
      <3>2. CASE k # "MIO_LOG_LEVEL"
        <4>1. y = NoEnd([c EXCEPT !.inst[k] = w])
          BY <1>4, <3>2, ValueArms
        <4>2. x = [c EXCEPT !.inst[k] = w]
          <5>1. r = c.rc
            BY <3>2
          <5> HIDE DEF w, r
          <5> QED BY <5>1 DEF ConfType
        <4> HIDE DEF w, x
        <4> QED BY <4>1, <4>2
      <3> QED BY <3>1, <3>2
    <2>2. r \in {"ok", "err"} /\ (r # "ok" => k = "MIO_LOG_LEVEL") /\ w \in Text
      OBVIOUS
    <2> HIDE DEF r, w
    <2>3. /\ x \in ConfType /\ x.key = k /\ x.rc = r /\ SamePools(c, x)
          /\ x.inst[k] = w /\ \A i \in InstSettings \ {k} : x.inst[i] = c.inst[i]
      <3>1. c.inst \in [InstSettings -> Text]
        BY DEF ConfType
      <3>2. x.inst = [c.inst EXCEPT ![k] = w] /\ x.key = k /\ x.rc = r /\ SamePools(c, x)
        BY DEF ConfType, SamePools
      <3>3. x.inst \in [InstSettings -> Text]
        BY <2>2, <3>1, <3>2
      <3>4. x \in ConfType
        BY <2>2, <3>2, <3>3 DEF ConfType
      <3> QED BY <1>4, <3>1, <3>2, <3>4
    <2>4. /\ x.motr_conf = c.motr_conf /\ x.telem = c.telem /\ x.drv_id = c.drv_id
          /\ x.default = c.default /\ x.wild = c.wild
      BY DEF ConfType
    <2> HIDE DEF x
    <2>5. /\ y \in ConfType /\ y.key = k /\ y.rc = r /\ SamePools(x, y) /\ SameRest(x, y)
          /\ y.motr_conf = x.motr_conf
      <3>1. CASE y = x
        BY <2>3, <3>1 DEF SamePools, SameRest
      <3>2. CASE y = NoEnd(x)
        BY <1>4, <2>3, <3>2, NoEndIs
      <3> QED BY <2>1, <3>1, <3>2
    <2>6. SamePools(c, y)
      BY <2>3, <2>5 DEF SamePools
    <2>7. Spares(c, k, y)
      BY <2>3, <2>4, <2>5 DEF Spares, SameRest
    <2>8. y.inst[k] = w
      BY <2>3, <2>5 DEF SameRest
    <2> QED BY <1>4, <2>2, <2>5, <2>6, <2>7, <2>8
            DEF Takes, w, MotrSettings, MotrStrings, MotrNumbers, InstSettings
  <1>5. CASE k \in MotrSettings
    <2> DEFINE w == IF k \in MotrNumbers THEN atoi(v) ELSE conf_copy_str(v)
               x == [c EXCEPT !.motr_conf[k] = w]
    <2>1. y = x \/ y = NoEnd(x)
      BY <1>5, ValueArms
    <2>2. w \in Text
      BY DEF atoi, Text
    <2>3. k \in MotrKeys /\ c.motr_conf \in [MotrSettings -> Text]
      BY <1>1, <1>5 DEF MotrKeys
    <2> HIDE DEF w
    <2>4. /\ x \in ConfType /\ x.key = k /\ x.rc = "ok" /\ SamePools(c, x)
          /\ x.motr_conf = [c.motr_conf EXCEPT ![k] = w]
      BY SMTT(30), <1>5, <2>2, <2>3 DEF ConfType, SamePools
    <2>5. x.motr_conf \in [MotrSettings -> Text] /\ x.motr_conf # NoConf
      BY <2>2, <2>3, <2>4, NoConfIs
    <2>6. /\ x.inst = c.inst /\ x.telem = c.telem /\ x.drv_id = c.drv_id
          /\ x.default = c.default /\ x.wild = c.wild
      BY DEF ConfType
    <2> HIDE DEF x
    <2>7. /\ y \in ConfType /\ y.key = k /\ y.rc = "ok" /\ SamePools(x, y) /\ SameRest(x, y)
          /\ y.motr_conf = x.motr_conf
      <3>1. CASE y = x
        BY <2>4, <3>1 DEF SamePools, SameRest
      <3>2. CASE y = NoEnd(x)
        BY <1>5, <2>4, <3>2, NoEndIs
      <3> QED BY <2>1, <3>1, <3>2
    <2>8. SamePools(c, y)
      BY <2>4, <2>7 DEF SamePools
    <2>9. Spares(c, k, y)
      BY <2>3, <2>4, <2>5, <2>6, <2>7 DEF Spares, SameRest
    <2>10. y.motr_conf[k] = w /\ y.motr_conf # NoConf
      BY <1>5, <2>3, <2>4, <2>5, <2>7
    <2> QED BY <1>5, <2>7, <2>8, <2>9, <2>10
            DEF Takes, w, MotrSettings, MotrStrings, MotrNumbers, InstSettings
  <1>6. CASE k = "MOTR_POOL_DEFAULT"
    <2>1. y = [c EXCEPT !.default = PoolName(v)]
      BY <1>6, ValueArms
    <2>2. y \in ConfType /\ y.key = k /\ y.rc = "ok" /\ SamePools(c, y) /\ y.default = PoolName(v)
      BY <2>1 DEF ConfType, SamePools
    <2>3. Spares(c, k, y)
      BY <1>6, <2>1 DEF ConfType, Spares
    <2> QED BY <1>6, <2>2, <2>3 DEF Takes, MotrSettings, MotrStrings, MotrNumbers, InstSettings
  <1>7. CASE k \in {"MIO_CONFIG", "MOTR_CONFIG", "MOTR_POOLS"}
    <2>1. y = c
      BY <1>7 DEF conf_extract_value, InstSettings, MotrSettings, MotrNumbers, MotrStrings
    <2> QED BY <1>7, <2>1 DEF Takes, Spares, SamePools, MotrSettings, MotrStrings, MotrNumbers, InstSettings
  <1>8. \/ k \in {"MIO_DRIVER", "MIO_TELEMETRY_STORE", "MOTR_POOL_DEFAULT"} \cup InstSettings \cup MotrSettings
        \/ k \in {"MIO_CONFIG", "MOTR_CONFIG", "MOTR_POOLS"}
    BY DEF PlainKeys, ConfKeys, MotrKeys
  <1> QED BY <1>2, <1>3, <1>4, <1>5, <1>6, <1>7, <1>8

(* Three tokens are three passes.                                          *)
LEMMA LeadsThree ==
    ASSUME NEW c, NEW d, NEW t, NEW u, NEW v, NEW s, s = <<t, u, v>>, Leads(c, s, d)
    PROVE  d = Step(Step(Step(c, t), u), v)
  <1>1. PICK r : IsRun(r, c, s) /\ r[Len(s)] = d
    BY DEF Leads
  <1>2. Len(s) = 3 /\ s[1] = t /\ s[2] = u /\ s[3] = v
    OBVIOUS
  <1>3. r[1] = Step(r[1 - 1], s[1]) /\ r[2] = Step(r[2 - 1], s[2]) /\ r[3] = Step(r[3 - 1], s[3])
    BY <1>1, <1>2 DEF IsRun
  <1>4. r[0] = c
    BY <1>1 DEF IsRun
  <1>5. r[1] = Step(c, t) /\ r[2] = Step(r[1], u) /\ r[3] = Step(r[2], v)
    BY <1>2, <1>3, <1>4
  <1> QED BY <1>1, <1>2, <1>5

(* The sequences that ScanPair is made of.                                 *)
LEMMA ThreeTokens ==
    ASSUME NEW S, NEW t \in S, NEW u \in S, NEW v \in S, NEW w \in S
    PROVE  <<t, u, v>> \in Seq(S) /\ <<w>> \in Seq(S) /\ <<>> \in Seq(S)
  OBVIOUS

(* The tokens of an entry.                                                 *)
LEMMA PairTokens ==
    ASSUME NEW e, e.key \in STRING, e.val \in STRING
    PROVE  /\ ScanPair(e) \in Seq(Tokens)
           /\ \E t \in Seq(Tokens) : /\ ScanPair(e) = <<Tok("KEY", ""), Tok("SCALAR", e.key), Tok("VALUE", "")>> \o t
                                     /\ t = IF e.val = "" THEN <<>> ELSE <<Tok("SCALAR", e.val)>>
  <1> DEFINE h == <<Tok("KEY", ""), Tok("SCALAR", e.key), Tok("VALUE", "")>>
             t == IF e.val = "" THEN <<>> ELSE <<Tok("SCALAR", e.val)>>
  <1>1. \A k \in {"KEY", "SCALAR", "VALUE"} : \A w \in Text : Tok(k, w) \in Tokens
    BY DEF Tok, Tokens
  <1>2. "" \in Text /\ e.key \in Text /\ e.val \in Text
    BY DEF Text
  <1>3. h \in Seq(Tokens) /\ t \in Seq(Tokens)
    <2>1. /\ Tok("KEY", "") \in Tokens /\ Tok("SCALAR", e.key) \in Tokens /\ Tok("VALUE", "") \in Tokens
          /\ Tok("SCALAR", e.val) \in Tokens
      BY <1>1, <1>2
    <2> QED BY <2>1, ThreeTokens
  <1>4. ScanPair(e) = h \o t
    BY DEF ScanPair
  <1> HIDE DEF h, t
  <1>5. ScanPair(e) \in Seq(Tokens)
    BY <1>3, <1>4
  <1> QED BY <1>3, <1>4, <1>5 DEF h, t

(* A key and its value: what mio_conf_init does with the four tokens.      *)
Valued(z, e) == IF e.val = "" THEN z ELSE conf_extract_value(z, e.val)

(* The tokens of a key and its value are the key, if it is known, and then *)
(* the value.                                                              *)
LEMMA PairIs ==
    ASSUME NEW x \in ConfType, x.rc = "ok", NEW e, e.key \in STRING, e.val \in STRING,
           NEW y, Leads(x, ScanPair(e), y)
    PROVE  \/ /\ e.key \notin ConfKeys /\ y \in ConfType /\ y.rc = "err"
              /\ SamePools(x, y) /\ SameRest(x, y) /\ y.motr_conf = x.motr_conf
           \/ /\ e.key \in ConfKeys
              /\ \E z : Keyed(x, e.key, z) /\ y = Valued(z, e)
  <1> DEFINE tk == Tok("KEY", "")
             ts == Tok("SCALAR", e.key)
             tv == Tok("VALUE", "")
             h == <<tk, ts, tv>>
  <1>1. PICK t \in Seq(Tokens) : /\ ScanPair(e) = h \o t
                                 /\ t = IF e.val = "" THEN <<>> ELSE <<Tok("SCALAR", e.val)>>
    BY PairTokens
  <1>2. h \in Seq(Tokens)
    <2>1. \A k \in {"KEY", "SCALAR", "VALUE"} : \A w \in Text : Tok(k, w) \in Tokens
      BY DEF Tok, Tokens
    <2>2. "" \in Text /\ e.key \in Text
      BY DEF Text
    <2>3. tk \in Tokens /\ ts \in Tokens /\ tv \in Tokens
      BY <2>1, <2>2
    <2> HIDE DEF tk, ts, tv
    <2> QED BY <2>3, ThreeTokens
  <1>3. PICK m : Leads(x, h, m) /\ Leads(m, t, y)
    <2> HIDE DEF h
    <2> QED BY <1>1, <1>2, LeadsSplit
  <1> DEFINE a == [x EXCEPT !.is_key = TRUE]
             z == conf_extract_key(a, e.key)
  <1>4. m = Step(Step(Step(x, tk), ts), tv)
    <2> HIDE DEF tk, ts, tv
    <2>1. h = <<tk, ts, tv>>
      OBVIOUS
    <2> HIDE DEF h
    <2> QED BY <1>3, <2>1, LeadsThree
  <1>5. Step(x, Tok("KEY", "")) = a
    BY DEF Step, ConfToken, Tok
  <1>6. a.rc = "ok" /\ a.is_key = TRUE
    BY DEF ConfType
  <1> HIDE DEF a
  <1>7. Step(a, Tok("SCALAR", e.key)) = z
    BY <1>6 DEF Step, ConfToken, Tok
  <1>8. e.key \in Text
    BY DEF Text
  <1>9. CASE e.key \notin ConfKeys
    <2>1. z \in ConfType /\ z.rc = "err" /\ SamePools(x, z) /\ SameRest(x, z) /\ z.motr_conf = x.motr_conf
      BY <1>8, <1>9, KeyIs DEF a
    <2> HIDE DEF z
    <2>2. m = z
      BY <1>4, <1>5, <1>7, <2>1 DEF Step
    <2>3. y = z
      <3>1. CASE e.val = ""
        BY <1>1, <1>3, <2>2, <3>1, LeadsNone
      <3>2. CASE e.val # ""
        <4>1. y = Step(m, Tok("SCALAR", e.val))
          BY <1>1, <1>3, <3>2, LeadsOne
        <4> QED BY <2>1, <2>2, <4>1 DEF Step
      <3> QED BY <3>1, <3>2
    <2> QED BY <1>9, <2>1, <2>3
  <1>10. CASE e.key \in ConfKeys
    <2> DEFINE w == [z EXCEPT !.is_key = FALSE]
    <2>1. Keyed(x, e.key, z) /\ Keyed(x, e.key, w)
      BY <1>8, <1>10, KeyIs DEF a
    <2> HIDE DEF z
    <2>2. m = w /\ w.rc = "ok" /\ w.is_key = FALSE
      <3>1. z \in ConfType /\ z.rc = "ok"
        BY <2>1 DEF Keyed
      <3>2. m = Step(z, Tok("VALUE", ""))
        BY <1>4, <1>5, <1>7
      <3>3. Step(z, Tok("VALUE", "")) = w
        BY <3>1 DEF Step, ConfToken, Tok
      <3> QED BY <3>1, <3>2, <3>3 DEF ConfType
    <2> HIDE DEF w
    <2>3. y = IF e.val = "" THEN w ELSE conf_extract_value(w, e.val)
      <3>1. CASE e.val = ""
        BY <1>1, <1>3, <2>2, <3>1, LeadsNone
      <3>2. CASE e.val # ""
        <4>1. y = Step(m, Tok("SCALAR", e.val))
          BY <1>1, <1>3, <3>2, LeadsOne
        <4> QED BY <2>2, <3>2, <4>1 DEF Step, ConfToken, Tok
      <3> QED BY <3>1, <3>2
    <2> QED BY <1>10, <2>1, <2>3 DEF Valued
  <1> QED BY <1>9, <1>10

(* A setting outside of the pools.                                         *)
LEMMA PlainPair ==
    ASSUME NEW x \in ConfType, x.rc = "ok", NEW e, e.key \in STRING, e.val \in Values,
           e.key \notin DOMAIN PoolFields, NEW y, Leads(x, ScanPair(e), y)
    PROVE  /\ y \in ConfType /\ SamePools(x, y) /\ Spares(x, e.key, y)
           /\ y.rc = "ok" => /\ e.key \in ConfKeys /\ y.key = e.key
                             /\ e.val # "" => Takes(y, e.key, e.val)
           /\ y.rc # "ok" => MayFail(e)
  <1>1. CASE e.key \notin ConfKeys
    <2>1. /\ y \in ConfType /\ y.rc = "err"
          /\ SamePools(x, y) /\ SameRest(x, y) /\ y.motr_conf = x.motr_conf
      BY <1>1, PairIs DEF Values
    <2> QED BY <1>1, <2>1 DEF SameRest, Spares, MayFail
  <1>2. CASE e.key \in ConfKeys
    <2>1. PICK z : Keyed(x, e.key, z) /\ y = Valued(z, e)
      BY <1>2, PairIs DEF Values
    <2>2. z \in ConfType /\ z.rc = "ok" /\ z.key = e.key /\ SamePools(x, z) /\ Spares(x, e.key, z)
      BY <2>1 DEF Keyed, SameRest, Spares
    <2>3. CASE e.val = ""
      BY <1>2, <2>1, <2>2, <2>3 DEF Valued
    <2>4. CASE e.val # ""
      <3>1. /\ e.val \in Text /\ conf_copy_str(e.val) \in Text /\ PoolName(e.val) \in Text
            /\ z.key \in PlainKeys /\ (z.key \in MotrKeys => z.motr_conf # NoConf)
        BY <1>2, <2>1, <2>2 DEF Keyed, PlainKeys, Text, Values
      <3>2. y = conf_extract_value(z, e.val)
        BY <2>1, <2>4 DEF Valued
      <3>3. /\ y \in ConfType /\ y.key = e.key /\ SamePools(z, y) /\ Spares(z, e.key, y)
            /\ y.rc = "ok" => Takes(y, e.key, e.val)
            /\ y.rc # "ok" => e.key \in {"MIO_DRIVER", "MIO_LOG_LEVEL"}
        BY <2>2, <3>1, <3>2, ValueIs
      <3>4. SamePools(x, y) /\ Spares(x, e.key, y)
        BY <2>2, <3>3 DEF SamePools, Spares
      <3> QED BY <1>2, <2>4, <3>3, <3>4 DEF MayFail
    <2> QED BY <2>3, <2>4
  <1> QED BY <1>1, <1>2

(* The first error ends the loop.                                          *)
LEMMA LeadsStuck ==
    ASSUME NEW c, c.rc # "ok", NEW s \in Seq(Tokens), NEW d, Leads(c, s, d)
    PROVE  d = c
  <1> DEFINE n == Len(s)
  <1>1. PICK r : IsRun(r, c, s) /\ r[n] = d
    BY DEF Leads
  <1>2. n \in Nat
    OBVIOUS
  <1> DEFINE T == {k \in 0..n : r[k] = c}
  <1>3. 0 \in T
    BY <1>1, <1>2 DEF IsRun
  <1>4. ASSUME NEW k \in 0..(n - 1), k \in T PROVE k + 1 \in T
    <2>1. k + 1 \in 1..n /\ (k + 1) - 1 = k /\ k + 1 \in 0..n
      BY <1>2
    <2>2. r[k + 1] = Step(r[k], s[k + 1])
      BY <1>1, <2>1 DEF IsRun
    <2> QED BY <1>4, <2>1, <2>2 DEF Step
  <1> HIDE DEF n, T
  <1>5. 0..n \subseteq T
    BY <1>2, <1>3, <1>4, Induct
  <1>6. n \in T
    BY <1>2, <1>5
  <1> QED BY <1>1, <1>6 DEF T

(***************************************************************************)
(* A pool: the fields go to the last one of the table.                     *)
(***************************************************************************)
LEMMA FieldsAre ==
    /\ DOMAIN PoolFields = {"MOTR_POOL_NAME", "MOTR_POOL_ID", "MOTR_POOL_TYPE"}
    /\ PoolFields["MOTR_POOL_NAME"] = "name" /\ PoolFields["MOTR_POOL_ID"] = "id"
    /\ PoolFields["MOTR_POOL_TYPE"] = "type"
  BY DEF PoolFields

(* What two steps spare one after the other is spared.                     *)
LEMMA SparesTwice ==
    ASSUME NEW x, NEW y, NEW z, NEW k, Spares(x, k, y), Spares(y, k, z)
    PROVE  Spares(x, k, z)
  BY DEF Spares

SameTable(x, y) == y.table = x.table /\ y.blk_seq = x.blk_seq

(* What is stored of a field of a pool.                                    *)
Put(e) == IF e.key = "MOTR_POOL_NAME" THEN PoolName(e.val) ELSE e.val

PoolDone(x, y, f, v) ==
    LET n == Len(x.pools)
    IN  /\ Len(y.pools) = n /\ \A i \in 1..(n - 1) : y.pools[i] = x.pools[i]
        /\ y.pools[n] = [x.pools[n] EXCEPT ![f] = v]

(* PoolSet changes one field of the last pool.                             *)
LEMMA PoolSetIs ==
    ASSUME NEW x \in ConfType, x.rc = "ok", Len(x.pools) # 0, NEW f, f \in {"name", "id", "type"},
           NEW v, v \in Text, NEW y, y = PoolSet(x, f, v)
    PROVE  /\ y \in ConfType /\ y.rc = "ok" /\ SameTable(x, y)
           /\ Spares(x, "MOTR_POOLS", y) /\ PoolDone(x, y, f, v)
  <1> DEFINE s == x.pools
             n == Len(s)
  <1>1. s \in Seq(PoolType) /\ n \in Nat /\ n \in 1..n /\ DOMAIN s = 1..n /\ s # <<>>
    BY DEF ConfType
  <1>2. s[n] \in PoolType
    BY <1>1
  <1> DEFINE p == [s[n] EXCEPT ![f] = v]
             t == [s EXCEPT ![n] = p]
  <1>3. p \in PoolType
    BY <1>2 DEF PoolType
  <1>4. y = [x EXCEPT !.pools = t]
    BY <1>1 DEF PoolSet, ConfType
  <1> HIDE DEF p
  <1>5. t \in Seq(PoolType) /\ Len(t) = n /\ t[n] = p /\ \A i \in 1..(n - 1) : t[i] = s[i]
    <2> HIDE DEF s
    <2>1. n \in 1..Len(s)
      BY <1>1
    <2>2. /\ t \in Seq(PoolType) /\ Len(t) = n
          /\ \A i \in 1..n : t[i] = IF i = n THEN p ELSE s[i]
      BY <1>1, <1>3, <2>1, ExceptSeq
    <2> HIDE DEF t, n
    <2>3. \A i \in 1..(n - 1) : i \in 1..n /\ i # n
      BY <1>1
    <2> QED BY <1>1, <2>2, <2>3
  <1> HIDE DEF t
  <1>6. y \in ConfType /\ y.rc = "ok" /\ SameTable(x, y) /\ y.pools = t
    BY <1>4, <1>5 DEF ConfType, SameTable
  <1>7. Spares(x, "MOTR_POOLS", y)
    BY <1>4 DEF Spares, ConfType
  <1>8. PoolDone(x, y, f, v)
    BY <1>5, <1>6 DEF PoolDone, p
  <1> QED BY <1>6, <1>7, <1>8

(* A field of a pool.                                                      *)
LEMMA PoolArms ==
    ASSUME NEW c, NEW v, NEW y, y = conf_extract_value(c, v), c.key \in DOMAIN PoolFields,
           c.key = "MOTR_POOL_ID" => conf_pool_id_sscanf(v) = v
    PROVE  \/ y = PoolSet(c, PoolFields[c.key], IF c.key = "MOTR_POOL_NAME" THEN PoolName(v) ELSE v)
           \/ y = [c EXCEPT !.rc = "err"]
  <1> USE DEF conf_extract_value, InstSettings, MotrSettings, MotrNumbers, MotrStrings
  <1>1. CASE c.key = "MOTR_POOL_NAME"
    <2>1. y = PoolSet(c, "name", PoolName(v))
      BY <1>1
    <2> QED BY <1>1, <2>1, FieldsAre
  <1>2. CASE c.key = "MOTR_POOL_ID"
    <2>1. y = PoolSet(c, "id", conf_pool_id_sscanf(v))
      BY <1>2
    <2> QED BY <1>2, <2>1, FieldsAre
  <1>3. CASE c.key = "MOTR_POOL_TYPE"
    <2>1. y = IF v \in PoolTypes THEN PoolSet(c, "type", v) ELSE [c EXCEPT !.rc = "err"]
      BY <1>3
    <2> QED BY <1>3, <2>1, FieldsAre
  <1> QED BY <1>1, <1>2, <1>3, FieldsAre

(* The tokens of a field of a pool set that field of the last pool.        *)
LEMMA PoolPair ==
    ASSUME NEW x \in ConfType, x.rc = "ok", Len(x.pools) # 0,
           NEW e, e.key \in STRING, e.val \in Values, e.key \in DOMAIN PoolFields, e.val # "",
           e.key = "MOTR_POOL_ID" => conf_pool_id_sscanf(e.val) = e.val,
           NEW y, Leads(x, ScanPair(e), y)
    PROVE  /\ y \in ConfType /\ SameTable(x, y)
           /\ Spares(x, "MOTR_POOLS", y)
           /\ y.rc = "ok" => PoolDone(x, y, PoolFields[e.key], Put(e))
  <1>1. e.key \in ConfKeys
    BY DEF ConfKeys, MotrKeys
  <1>2. PICK z : Keyed(x, e.key, z) /\ y = Valued(z, e)
    BY ZenonT(30), <1>1, PairIs DEF Values
  <1>3. y = conf_extract_value(z, e.val)
    BY <1>2 DEF Valued
  <1>4. e.key \notin MotrSettings \cup InstSettings \cup {"MIO_TELEMETRY_STORE", "MIO_DRIVER", "MOTR_POOL_DEFAULT"}
    BY FieldsAre DEF MotrSettings, MotrStrings, MotrNumbers, InstSettings
  <1>5. /\ z \in ConfType /\ z.rc = "ok" /\ z.key = e.key /\ z.pools = x.pools
        /\ SameTable(x, z)
    BY <1>2 DEF Keyed, SamePools, SameTable
  <1>6. Spares(x, "MOTR_POOLS", z)
    BY <1>2 DEF Keyed, SameRest, Spares, MotrKeys
  <1> DEFINE v == Put(e)
             f == PoolFields[z.key]
  <1>7. v \in Text
    BY DEF Text, Values, Put
  <1>8. y = PoolSet(z, f, v) \/ y = [z EXCEPT !.rc = "err"]
    <2> DEFINE u == e.val
    <2>1. y = conf_extract_value(z, u)
      BY <1>3
    <2>2. z.key \in DOMAIN PoolFields /\ (z.key = "MOTR_POOL_ID" => conf_pool_id_sscanf(u) = u)
      BY <1>5
    <2>3. v = IF z.key = "MOTR_POOL_NAME" THEN PoolName(u) ELSE u
      BY <1>5 DEF Put
    <2> HIDE DEF u, v
    <2> QED BY <2>1, <2>2, <2>3, PoolArms
  <1>9. CASE y = PoolSet(z, f, v)
    <2>1. f \in {"name", "id", "type"} /\ f = PoolFields[e.key] /\ v \in Text
      BY <1>5, <1>7, FieldsAre
    <2>2. z \in ConfType /\ z.rc = "ok" /\ Len(z.pools) # 0
      BY <1>5
    <2> HIDE DEF f, v
    <2>3. /\ y \in ConfType /\ y.rc = "ok" /\ SameTable(z, y)
          /\ Spares(z, "MOTR_POOLS", y) /\ PoolDone(z, y, f, v)
      BY <1>9, <2>1, <2>2, PoolSetIs
    <2>4. Spares(x, "MOTR_POOLS", y)
      BY <1>6, <2>3, SparesTwice
    <2>5. PoolDone(x, y, f, v)
      BY <1>5, <2>3 DEF PoolDone
    <2> QED BY <1>5, <2>1, <2>3, <2>4, <2>5 DEF SameTable, v
  <1>10. CASE y = [z EXCEPT !.rc = "err"]
    <2>1. y \in ConfType /\ y.rc = "err" /\ SameTable(z, y)
      BY <1>5, <1>10 DEF ConfType, SameTable
    <2>2. Spares(z, "MOTR_POOLS", y)
      BY <1>5, <1>10 DEF ConfType, Spares
    <2> QED BY <1>5, <1>6, <2>1, <2>2, SparesTwice DEF SameTable
  <1> QED BY <1>8, <1>9, <1>10

(* The pool that an item of the list describes.                            *)
FieldOf(s, k) == s[CHOOSE i \in 1..Len(s) : s[i].key = k]
PoolOf(s) == [name |-> Put(FieldOf(s, "MOTR_POOL_NAME")), id |-> Put(FieldOf(s, "MOTR_POOL_ID")),
              type |-> Put(FieldOf(s, "MOTR_POOL_TYPE"))]

(* Three fields in any order make it.                                      *)
LEMMA ThreeFields ==
    ASSUME NEW s \in Seq(Pairs), PoolItem(s), NEW p, NEW q, NEW r,
           p = [ZeroPool EXCEPT ![PoolFields[s[1].key]] = Put(s[1])],
           q = [p EXCEPT ![PoolFields[s[2].key]] = Put(s[2])],
           r = [q EXCEPT ![PoolFields[s[3].key]] = Put(s[3])]
    PROVE  r = PoolOf(s)
  <1>1. Len(s) = 3 /\ {s[i].key : i \in 1..3} = {"MOTR_POOL_NAME", "MOTR_POOL_ID", "MOTR_POOL_TYPE"}
    BY FieldsAre DEF PoolItem
  <1>2. /\ s[1].key \in {"MOTR_POOL_NAME", "MOTR_POOL_ID", "MOTR_POOL_TYPE"}
        /\ s[2].key \in {"MOTR_POOL_NAME", "MOTR_POOL_ID", "MOTR_POOL_TYPE"}
        /\ s[3].key \in {"MOTR_POOL_NAME", "MOTR_POOL_ID", "MOTR_POOL_TYPE"}
    <2>1. 1 \in 1..3 /\ 2 \in 1..3 /\ 3 \in 1..3
      OBVIOUS
    <2> QED BY <1>1, <2>1
  <1>3. \A k \in {"MOTR_POOL_NAME", "MOTR_POOL_ID", "MOTR_POOL_TYPE"} :
          k = s[1].key \/ k = s[2].key \/ k = s[3].key
    <2> SUFFICES ASSUME NEW k \in {"MOTR_POOL_NAME", "MOTR_POOL_ID", "MOTR_POOL_TYPE"}
                 PROVE  k = s[1].key \/ k = s[2].key \/ k = s[3].key
      OBVIOUS
    <2>1. PICK i \in 1..3 : k = s[i].key
      BY <1>1
    <2>2. i = 1 \/ i = 2 \/ i = 3
      OBVIOUS
    <2> QED BY <2>1, <2>2
  <1> DEFINE a == s[1].key
             b == s[2].key
             c == s[3].key
  <1>4. a # b /\ b # c /\ a # c
    <2> HIDE DEF a, b, c
    <2>1. \/ "MOTR_POOL_NAME" = a \/ "MOTR_POOL_NAME" = b \/ "MOTR_POOL_NAME" = c
      BY <1>3 DEF a, b, c
    <2>2. \/ "MOTR_POOL_ID" = a \/ "MOTR_POOL_ID" = b \/ "MOTR_POOL_ID" = c
      BY <1>3 DEF a, b, c
    <2>3. \/ "MOTR_POOL_TYPE" = a \/ "MOTR_POOL_TYPE" = b \/ "MOTR_POOL_TYPE" = c
      BY <1>3 DEF a, b, c
    <2> QED BY <2>1, <2>2, <2>3
  <1>5. ASSUME NEW j \in 1..3 PROVE FieldOf(s, s[j].key) = s[j]
    <2> DEFINE Q(i) == i \in 1..Len(s) /\ s[i].key = s[j].key
    <2>1. \A i \in 1..3 : i = 1 \/ i = 2 \/ i = 3
      OBVIOUS
    <2>2. \A i \in 1..Len(s) : s[i].key = s[j].key => i = j
      BY <1>1, <1>4, <2>1
    <2>3. j \in 1..Len(s)
      BY <1>1
    <2>4. (CHOOSE i \in 1..Len(s) : s[i].key = s[j].key) = j
      BY <2>2, <2>3
    <2> QED BY <2>4 DEF FieldOf
  <1>6. FieldOf(s, a) = s[1] /\ FieldOf(s, b) = s[2] /\ FieldOf(s, c) = s[3]
    <2>1. 1 \in 1..3 /\ 2 \in 1..3 /\ 3 \in 1..3
      OBVIOUS
    <2> QED BY <1>5, <2>1
  <1>7. /\ DOMAIN r = {"name", "id", "type"} /\ r = [f \in {"name", "id", "type"} |-> r[f]]
        /\ r[PoolFields[a]] = Put(s[1]) /\ r[PoolFields[b]] = Put(s[2]) /\ r[PoolFields[c]] = Put(s[3])
    <2>1. ZeroPool = [f \in {"name", "id", "type"} |-> ZeroPool[f]]
      BY DEF ZeroPool
    <2> DEFINE fa == PoolFields[a]
               fb == PoolFields[b]
               fc == PoolFields[c]
    <2>2. /\ fa \in {"name", "id", "type"} /\ fb \in {"name", "id", "type"} /\ fc \in {"name", "id", "type"}
          /\ fa # fb /\ fb # fc /\ fa # fc
      <3> HIDE DEF a, b, c
      <3>1. /\ a \in {"MOTR_POOL_NAME", "MOTR_POOL_ID", "MOTR_POOL_TYPE"}
            /\ b \in {"MOTR_POOL_NAME", "MOTR_POOL_ID", "MOTR_POOL_TYPE"}
            /\ c \in {"MOTR_POOL_NAME", "MOTR_POOL_ID", "MOTR_POOL_TYPE"}
        BY <1>2 DEF a, b, c
      <3> QED BY <1>4, <3>1, FieldsAre
    <2>3. p = [ZeroPool EXCEPT ![fa] = Put(s[1])] /\ q = [p EXCEPT ![fb] = Put(s[2])] /\ r = [q EXCEPT ![fc] = Put(s[3])]
      OBVIOUS
    <2> HIDE DEF a, b, c, fa, fb, fc
    <2>4. p = [f \in {"name", "id", "type"} |-> p[f]] /\ p[fa] = Put(s[1])
      BY <2>1, <2>2, <2>3
    <2>5. q = [f \in {"name", "id", "type"} |-> q[f]] /\ q[fa] = Put(s[1]) /\ q[fb] = Put(s[2])
      BY <2>2, <2>3, <2>4
    <2>6. /\ r = [f \in {"name", "id", "type"} |-> r[f]]
          /\ r[fa] = Put(s[1]) /\ r[fb] = Put(s[2]) /\ r[fc] = Put(s[3])
      BY <2>2, <2>3, <2>5
    <2>7. DOMAIN r = {"name", "id", "type"}
      BY <2>6
    <2> QED BY <2>6, <2>7 DEF fa, fb, fc
  <1>8. /\ r["name"] = Put(FieldOf(s, "MOTR_POOL_NAME")) /\ r["id"] = Put(FieldOf(s, "MOTR_POOL_ID"))
        /\ r["type"] = Put(FieldOf(s, "MOTR_POOL_TYPE"))
    <2>1. \A k \in {"MOTR_POOL_NAME", "MOTR_POOL_ID", "MOTR_POOL_TYPE"} : r[PoolFields[k]] = Put(FieldOf(s, k))
      BY <1>3, <1>6, <1>7
    <2> QED BY <2>1, FieldsAre
  <1>9. r = [name |-> r["name"], id |-> r["id"], type |-> r["type"]]
    BY <1>7
  <1> QED BY <1>8, <1>9 DEF PoolOf

(***************************************************************************)
(* An item of the list of pools.                                           *)
(***************************************************************************)
LEMMA StartBlock ==
    ASSUME NEW x \in ConfType, x.rc = "ok", x.table = TRUE, x.blk_seq = TRUE,
           NEW y, y = conf_start_block(x)
    PROVE  /\ y \in ConfType /\ SameTable(x, y) /\ Spares(x, "MOTR_POOLS", y)
           /\ y.rc = "ok" => y.pools = Append(x.pools, ZeroPool)
  <1>1. CASE Len(x.pools) + 1 = MaxPools
    <2>1. y = [x EXCEPT !.rc = "err"]
      BY <1>1 DEF conf_start_block
    <2>2. y \in ConfType /\ SameTable(x, y) /\ y.rc = "err"
      BY <2>1 DEF ConfType, SameTable
    <2>3. Spares(x, "MOTR_POOLS", y)
      BY <2>1 DEF ConfType, Spares
    <2> QED BY <2>2, <2>3
  <1>2. CASE Len(x.pools) + 1 # MaxPools
    <2> DEFINE s == Append(x.pools, ZeroPool)
    <2>1. y = [x EXCEPT !.pools = s, !.wild = @ \/ ~x.table]
      BY <1>2 DEF conf_start_block
    <2>2. s \in Seq(PoolType)
      <3>1. ZeroPool \in PoolType
        BY DEF ZeroPool, PoolType, Text
      <3>2. x.pools \in Seq(PoolType)
        BY DEF ConfType
      <3> QED BY <3>1, <3>2, AppendProperties
    <2> HIDE DEF s
    <2>3. y.wild = x.wild /\ y = [x EXCEPT !.pools = s]
      BY ZenonT(30), <2>1 DEF ConfType
    <2>4. y \in ConfType /\ SameTable(x, y) /\ y.rc = "ok" /\ y.pools = s
      BY <2>2, <2>3 DEF ConfType, SameTable
    <2>5. Spares(x, "MOTR_POOLS", y)
      BY <2>3 DEF ConfType, Spares
    <2> QED BY <2>4, <2>5 DEF s
  <1> QED BY <1>1, <1>2

(* One pair of it; an error before it stays.                               *)
ItemStep(x, e, y) ==
    /\ y \in ConfType /\ SameTable(x, y) /\ Spares(x, "MOTR_POOLS", y)
    /\ y.rc = "ok" => x.rc = "ok" /\ PoolDone(x, y, PoolFields[e.key], Put(e))

(* A field of an item of the list.                                         *)
LEMMA ItemPair ==
    ASSUME NEW s \in Seq(Pairs), PoolItem(s), NEW i \in 1..3, NEW x \in ConfType,
           x.rc = "ok" => Len(x.pools) # 0, NEW y, Leads(x, ScanPair(s[i]), y)
    PROVE  ItemStep(x, s[i], y)
  <1> DEFINE e == s[i]
  <1>1. Len(s) = 3 /\ e.key \in DOMAIN PoolFields /\ e.val # ""
        /\ (e.key = "MOTR_POOL_ID" => conf_pool_id_sscanf(e.val) = e.val)
    BY DEF PoolItem
  <1>2. e.key \in STRING /\ e.val \in STRING /\ e.val \in Values
    <2>1. i \in 1..Len(s)
      BY <1>1
    <2>2. e \in Pairs
      BY <2>1
    <2> QED BY <2>2 DEF Pairs, Values
  <1>3. ScanPair(e) \in Seq(Tokens)
    BY <1>2, PairTokens
  <1> HIDE DEF e
  <1>4. Leads(x, ScanPair(e), y)
    BY DEF e
  <1>5. CASE x.rc # "ok"
    <2>1. y = x
      BY <1>3, <1>4, <1>5, LeadsStuck
    <2> QED BY <1>5, <2>1 DEF ItemStep, SameTable, Spares, e
  <1>6. CASE x.rc = "ok"
    <2>1. /\ y \in ConfType /\ SameTable(x, y) /\ Spares(x, "MOTR_POOLS", y)
          /\ y.rc = "ok" => PoolDone(x, y, PoolFields[e.key], Put(e))
      BY <1>1, <1>2, <1>4, <1>6, PoolPair
    <2> QED BY <1>6, <2>1 DEF ItemStep, e
  <1> QED BY <1>5, <1>6

(* The tokens of an item.                                                  *)
LEMMA ItemTokens ==
    ASSUME NEW s \in Seq(Pairs)
    PROVE  LET ss == [i \in 1..Len(s) |-> ScanPair(s[i])]
           IN  ss \in Seq(Seq(Tokens)) /\ Len(ss) = Len(s)
  <1>1. ASSUME NEW i \in 1..Len(s) PROVE ScanPair(s[i]) \in Seq(Tokens)
    <2>1. s[i] \in Pairs
      OBVIOUS
    <2>2. s[i].key \in STRING /\ s[i].val \in STRING
      BY <2>1 DEF Pairs, Values
    <2> QED BY <2>2, PairTokens
  <1>2. Len(s) \in Nat
    OBVIOUS
  <1> QED BY <1>1, <1>2

(* What FlattenSeq makes of tokens are tokens.                             *)
LEMMA FlattenTokens ==
    ASSUME NEW ss \in Seq(Seq(Tokens))
    PROVE  FlattenSeq(ss) \in Seq(Tokens)
  <1>1. CASE Len(ss) = 0
    <2>1. FlattenSeq(ss) = ss /\ ss = <<>>
      BY <1>1 DEF FlattenSeq
    <2> QED BY <2>1
  <1>2. CASE Len(ss) # 0
    <2>1. PICK f : /\ FlattenSeq(ss) = f[Len(ss)]
                   /\ \A i \in 1..Len(ss) : f[i] \in Seq(Tokens)
      BY <1>2, FlattenIs
    <2>2. Len(ss) \in 1..Len(ss)
      BY <1>2
    <2> QED BY <2>1, <2>2
  <1> QED BY <1>1, <1>2

(* An item: a new pool with the fields of the item.                        *)
ItemDone(x, s, y) ==
    LET n == Len(x.pools)
    IN  /\ y \in ConfType /\ SameTable(x, y) /\ Spares(x, "MOTR_POOLS", y)
        /\ y.rc = "ok" => /\ x.rc = "ok" /\ Len(y.pools) = n + 1 /\ y.pools[n + 1] = PoolOf(s)
                          /\ \A i \in 1..n : y.pools[i] = x.pools[i]

(* Two steps that leave the table.                                         *)
LEMMA SameTableTwice ==
    ASSUME NEW x, NEW y, NEW z, SameTable(x, y), SameTable(y, z)
    PROVE  SameTable(x, z)
  BY DEF SameTable

(* An item of the list has tokens.                                         *)
LEMMA ScanItemTokens ==
    ASSUME NEW s \in Seq(Pairs)
    PROVE  ScanItem(s) \in Seq(Tokens)
  <1> DEFINE ss == [i \in 1..Len(s) |-> ScanPair(s[i])]
             t == Tok("ENTRY", "")
  <1>1. FlattenSeq(ss) \in Seq(Tokens)
    <2>1. ss \in Seq(Seq(Tokens))
      BY ItemTokens
    <2> HIDE DEF ss
    <2> QED BY <2>1, FlattenTokens
  <1>2. t \in Tokens
    BY DEF Tok, Tokens, Text
  <1>3. ScanItem(s) = <<t>> \o FlattenSeq(ss)
    BY DEF ScanItem
  <1> HIDE DEF ss, t
  <1>4. <<t>> \in Seq(Tokens)
    BY <1>2, ThreeTokens
  <1> QED BY <1>1, <1>3, <1>4

(* An item of the list adds one pool, with the three fields in whatever    *)
(* order.                                                                  *)
LEMMA ItemIs ==
    ASSUME NEW s \in Seq(Pairs), PoolItem(s), NEW x \in ConfType, x.table = TRUE, x.blk_seq = TRUE,
           NEW y, Leads(x, ScanItem(s), y)
    PROVE  ItemDone(x, s, y)
  <1> DEFINE ss == [i \in 1..Len(s) |-> ScanPair(s[i])]
             t == Tok("ENTRY", "")
             n == Len(x.pools)
  <1>1. CASE x.rc # "ok"
    <2>1. y = x
      BY <1>1, ScanItemTokens, LeadsStuck
    <2> QED BY <1>1, <2>1 DEF ItemDone, SameTable, Spares
  <1>2. CASE x.rc = "ok"
    <2>1. ss \in Seq(Seq(Tokens)) /\ Len(ss) = 3 /\ ss[1] = ScanPair(s[1]) /\ ss[2] = ScanPair(s[2])
          /\ ss[3] = ScanPair(s[3])
      <3>1. Len(s) = 3
        BY DEF PoolItem
      <3> QED BY <3>1, ItemTokens
    <2>2. PICK m : Leads(x, <<t>>, m) /\ Leads(m, FlattenSeq(ss), y)
      <3>1. t \in Tokens
        BY DEF Tok, Tokens, Text
      <3>2. ScanItem(s) = <<t>> \o FlattenSeq(ss)
        BY DEF ScanItem
      <3> HIDE DEF ss, t
      <3>3. <<t>> \in Seq(Tokens) /\ FlattenSeq(ss) \in Seq(Tokens)
        BY <2>1, <3>1, ThreeTokens, FlattenTokens
      <3> QED BY <3>2, <3>3, LeadsSplit
    <2> HIDE DEF ss
    <2>3. m = Step(x, t)
      <3> HIDE DEF t
      <3> QED BY <2>2, LeadsOne
    <2>4. /\ m \in ConfType /\ SameTable(x, m) /\ Spares(x, "MOTR_POOLS", m)
          /\ m.rc = "ok" => m.pools = Append(x.pools, ZeroPool)
      <3>1. m = conf_start_block(x)
        BY <1>2, <2>3 DEF Step, ConfToken, Tok, t
      <3> QED BY <1>2, <3>1, StartBlock
    <2>5. PICK r : Stations(r, m, ss, y)
      BY <2>1, <2>2, FlatRun
    <2>6. /\ r[0] = m /\ r[3] = y
          /\ Leads(r[0], ScanPair(s[1]), r[1]) /\ Leads(r[1], ScanPair(s[2]), r[2])
          /\ Leads(r[2], ScanPair(s[3]), r[3])
      <3>1. 1 \in 1..3 /\ 2 \in 1..3 /\ 3 \in 1..3 /\ 1 - 1 = 0 /\ 2 - 1 = 1 /\ 3 - 1 = 2
        OBVIOUS
      <3>2. /\ Leads(r[1 - 1], ss[1], r[1]) /\ Leads(r[2 - 1], ss[2], r[2])
            /\ Leads(r[3 - 1], ss[3], r[3])
        BY <2>1, <2>5, <3>1 DEF Stations
      <3>3. r[0] = m /\ r[3] = y
        BY <2>1, <2>5 DEF Stations
      <3> QED BY <2>1, <3>1, <3>2, <3>3
    <2> DEFINE a == r[1]
               b == r[2]
               k == n + 1
    <2>7. /\ x.pools \in Seq(PoolType) /\ n \in Nat
          /\ m.rc = "ok" => /\ Len(m.pools) = k /\ m.pools[k] = ZeroPool
                            /\ \A i \in 1..n : m.pools[i] = x.pools[i]
      <3>1. x.pools \in Seq(PoolType)
        BY DEF ConfType
      <3> QED BY <2>4, <3>1
    <2> HIDE DEF a, b, k
    <2>8. k \in Nat /\ k # 0 /\ k - 1 = n /\ k = n + 1
      BY <2>7 DEF k
    <2> HIDE DEF n
    <2>9. ItemStep(m, s[1], a)
      <3>1. 1 \in 1..3 /\ (m.rc = "ok" => Len(m.pools) # 0)
        BY <2>7, <2>8
      <3>2. Leads(m, ScanPair(s[1]), a)
        BY <2>6 DEF a
      <3> QED BY <2>4, <3>1, <3>2, ItemPair
    <2>10. /\ a \in ConfType
           /\ a.rc = "ok" => /\ m.rc = "ok" /\ Len(a.pools) = k
                             /\ a.pools[k] = [ZeroPool EXCEPT ![PoolFields[s[1].key]] = Put(s[1])]
                             /\ \A i \in 1..n : a.pools[i] = x.pools[i]
      BY <2>7, <2>8, <2>9 DEF ItemStep, PoolDone
    <2>11. ItemStep(a, s[2], b)
      <3>1. 2 \in 1..3 /\ (a.rc = "ok" => Len(a.pools) # 0)
        BY <2>8, <2>10
      <3>2. Leads(a, ScanPair(s[2]), b)
        BY <2>6 DEF a, b
      <3> QED BY <2>10, <3>1, <3>2, ItemPair
    <2>12. /\ b \in ConfType
           /\ b.rc = "ok" => /\ a.rc = "ok" /\ Len(b.pools) = k
                             /\ b.pools[k] = [a.pools[k] EXCEPT ![PoolFields[s[2].key]] = Put(s[2])]
                             /\ \A i \in 1..n : b.pools[i] = x.pools[i]
      BY <2>8, <2>10, <2>11 DEF ItemStep, PoolDone
    <2>13. ItemStep(b, s[3], y)
      <3>1. 3 \in 1..3 /\ (b.rc = "ok" => Len(b.pools) # 0)
        BY <2>8, <2>12
      <3>2. Leads(b, ScanPair(s[3]), y)
        BY <2>6 DEF b
      <3> QED BY <2>12, <3>1, <3>2, ItemPair
    <2>14. /\ y \in ConfType
           /\ y.rc = "ok" => /\ b.rc = "ok" /\ Len(y.pools) = k
                             /\ y.pools[k] = [b.pools[k] EXCEPT ![PoolFields[s[3].key]] = Put(s[3])]
                             /\ \A i \in 1..n : y.pools[i] = x.pools[i]
      BY <2>8, <2>12, <2>13 DEF ItemStep, PoolDone
    <2>15. SameTable(x, y) /\ Spares(x, "MOTR_POOLS", y)
      <3>1. SameTable(m, a) /\ SameTable(a, b) /\ SameTable(b, y)
        BY <2>9, <2>11, <2>13 DEF ItemStep
      <3>2. Spares(m, "MOTR_POOLS", a) /\ Spares(a, "MOTR_POOLS", b) /\ Spares(b, "MOTR_POOLS", y)
        BY <2>9, <2>11, <2>13 DEF ItemStep
      <3>3. SameTable(x, a) /\ SameTable(a, y)
        BY <2>4, <3>1, SameTableTwice
      <3>4. Spares(x, "MOTR_POOLS", a) /\ Spares(a, "MOTR_POOLS", y)
        BY <2>4, <3>2, SparesTwice
      <3> QED BY <3>3, <3>4, SameTableTwice, SparesTwice
    <2>16. y.rc = "ok" => y.pools[k] = PoolOf(s)
      BY <2>10, <2>12, <2>14, ThreeFields
    <2> QED BY <1>2, <2>8, <2>14, <2>15, <2>16 DEF ItemDone, n
  <1> QED BY <1>1, <1>2

(***************************************************************************)
(* The list of pools, and an entry of a file.                              *)
(***************************************************************************)
ListTokens(e) == [i \in 1..Len(e.items) |-> ScanItem(e.items[i])]

(* The tokens of a list are those of its items.                            *)
LEMMA ListTokensAre ==
    ASSUME NEW e \in Entries
    PROVE  /\ ListTokens(e) \in Seq(Seq(Tokens)) /\ Len(ListTokens(e)) = Len(e.items)
           /\ \A i \in 1..Len(e.items) : ListTokens(e)[i] = ScanItem(e.items[i]) /\ e.items[i] \in Seq(Pairs)
           /\ Len(e.items) \in Nat
  <1>1. e.items \in Seq(Seq(Pairs)) /\ Len(e.items) \in Nat
    BY DEF Entries
  <1>2. ASSUME NEW i \in 1..Len(e.items) PROVE e.items[i] \in Seq(Pairs) /\ ScanItem(e.items[i]) \in Seq(Tokens)
    <2>1. e.items[i] \in Seq(Pairs)
      BY <1>1
    <2> QED BY <2>1, ScanItemTokens
  <1> QED BY <1>1, <1>2 DEF ListTokens

(* The table after some of the items.                                      *)
Listed(m, e, k, y) ==
    /\ y \in ConfType /\ y.table = TRUE /\ y.blk_seq = TRUE /\ Spares(m, "MOTR_POOLS", y)
    /\ y.rc = "ok" => Len(y.pools) = k /\ \A i \in 1..k : y.pools[i] = PoolOf(e.items[i])

(* The items of the list, by induction, are the pools of the table.        *)
LEMMA ListIs ==
    ASSUME NEW e \in Entries, \A i \in 1..Len(e.items) : PoolItem(e.items[i]),
           NEW m, Listed(m, e, 0, m), NEW y, Leads(m, FlattenSeq(ListTokens(e)), y)
    PROVE  Listed(m, e, Len(e.items), y)
  <1> DEFINE ss == ListTokens(e)
             n == Len(e.items)
  <1>1. /\ ss \in Seq(Seq(Tokens)) /\ Len(ss) = n /\ n \in Nat
        /\ \A i \in 1..n : ss[i] = ScanItem(e.items[i]) /\ e.items[i] \in Seq(Pairs)
    BY ListTokensAre
  <1> HIDE DEF ss
  <1>2. PICK r : Stations(r, m, ss, y)
    <2>1. Leads(m, FlattenSeq(ss), y)
      BY DEF ss
    <2> QED BY <1>1, <2>1, FlatRun
  <1> DEFINE T == {k \in 0..n : Listed(m, e, k, r[k])}
  <1>3. 0 \in T
    BY <1>1, <1>2 DEF Stations
  <1>4. ASSUME NEW k \in 0..(n - 1), k \in T PROVE k + 1 \in T
    <2> DEFINE a == r[k]
               b == r[k + 1]
               s == e.items[k + 1]
    <2>1. k + 1 \in 1..n /\ (k + 1) - 1 = k /\ k + 1 \in 0..n /\ k \in Nat
      BY <1>1
    <2>2. Listed(m, e, k, a)
      BY <1>4
    <2>3. Leads(a, ScanItem(s), b) /\ s \in Seq(Pairs) /\ PoolItem(s)
      BY <1>1, <1>2, <2>1 DEF Stations
    <2> HIDE DEF a, b
    <2>4. a \in ConfType /\ a.table = TRUE /\ a.blk_seq = TRUE
      BY <2>2 DEF Listed
    <2> HIDE DEF s
    <2>5. ItemDone(a, s, b)
      BY <2>3, <2>4, ItemIs
    <2>6. b \in ConfType /\ b.table = TRUE /\ b.blk_seq = TRUE /\ Spares(m, "MOTR_POOLS", b)
      <3>1. Spares(m, "MOTR_POOLS", b)
        BY <2>2, <2>5, SparesTwice DEF Listed, ItemDone
      <3> QED BY <2>4, <2>5, <3>1 DEF ItemDone, SameTable
    <2>7. ASSUME b.rc = "ok"
          PROVE  Len(b.pools) = k + 1 /\ \A i \in 1..(k + 1) : b.pools[i] = PoolOf(e.items[i])
      <3>1. /\ a.rc = "ok" /\ Len(b.pools) = Len(a.pools) + 1 /\ b.pools[Len(a.pools) + 1] = PoolOf(s)
            /\ \A i \in 1..Len(a.pools) : b.pools[i] = a.pools[i]
        BY <2>5, <2>7 DEF ItemDone
      <3>2. Len(a.pools) = k /\ \A i \in 1..k : a.pools[i] = PoolOf(e.items[i])
        BY <2>2, <3>1 DEF Listed
      <3>3. ASSUME NEW i \in 1..(k + 1) PROVE b.pools[i] = PoolOf(e.items[i])
        <4>1. i \in 1..k \/ i = k + 1
          BY <2>1
        <4> QED BY <3>1, <3>2, <4>1 DEF s
      <3> QED BY <3>1, <3>2, <3>3
    <2>8. Listed(m, e, k + 1, b)
      BY <2>6, <2>7 DEF Listed
    <2> QED BY <2>1, <2>8 DEF b
  <1> HIDE DEF n, T
  <1>5. 0..n \subseteq T
    BY <1>1, <1>3, <1>4, Induct
  <1>6. n \in T
    BY <1>1, <1>5
  <1>7. r[n] = y
    BY <1>1, <1>2 DEF Stations
  <1> QED BY <1>6, <1>7 DEF n, T

(* An entry: what it sets, what it leaves alone, and when it may fail.     *)
EntryDone(x, e, y) ==
    /\ y \in ConfType /\ Spares(x, e.key, y)
    /\ e.items = <<>> => y.pools = x.pools
    /\ y.rc = "ok" => /\ x.rc = "ok"
                      /\ e.val # "" => Takes(y, e.key, e.val)
                      /\ e.items # <<>> => /\ Len(y.pools) = Len(e.items)
                                           /\ \A i \in 1..Len(e.items) : y.pools[i] = PoolOf(e.items[i])
    /\ y.rc # "ok" /\ x.rc = "ok" => MayFail(e)
    /\ x.rc # "ok" => y = x

(* The tokens of an entry of the file, with its list if it has one.        *)
LEMMA EntryTokens ==
    ASSUME NEW e \in Entries
    PROVE  /\ ScanPair(e) \in Seq(Tokens) /\ ScanEntry(e) \in Seq(Tokens)
           /\ e.items = <<>> => ScanEntry(e) = ScanPair(e) \o <<>>
           /\ e.items # <<>> =>
                /\ <<Tok("SEQUENCE", "")>> \in Seq(Tokens) /\ <<Tok("END", "")>> \in Seq(Tokens)
                /\ FlattenSeq(ListTokens(e)) \in Seq(Tokens)
                /\ ScanEntry(e) = ScanPair(e) \o (<<Tok("SEQUENCE", "")>> \o FlattenSeq(ListTokens(e))
                                                  \o <<Tok("END", "")>>)
  <1> DEFINE a == Tok("SEQUENCE", "")
             b == Tok("END", "")
             l == FlattenSeq(ListTokens(e))
  <1>1. a \in Tokens /\ b \in Tokens
    BY DEF Tok, Tokens, Text
  <1>2. ScanPair(e) \in Seq(Tokens)
    <2>1. e.key \in STRING /\ e.val \in STRING
      BY DEF Entries, Values
    <2> QED BY <2>1, PairTokens
  <1>3. l \in Seq(Tokens)
    BY ListTokensAre, FlattenTokens
  <1>4. ScanEntry(e) = ScanPair(e) \o (IF e.items = <<>> THEN <<>> ELSE <<a>> \o l \o <<b>>)
    BY DEF ScanEntry, ListTokens
  <1> HIDE DEF a, b, l
  <1>5. <<a>> \in Seq(Tokens) /\ <<b>> \in Seq(Tokens) /\ <<>> \in Seq(Tokens)
    BY <1>1, ThreeTokens
  <1>6. <<a>> \o l \o <<b>> \in Seq(Tokens)
    BY <1>3, <1>5
  <1>7. ScanEntry(e) \in Seq(Tokens)
    BY <1>2, <1>4, <1>5, <1>6
  <1> QED BY <1>2, <1>3, <1>4, <1>5, <1>7 DEF a, b, l

(* A list begins with an empty table, whatever pools an earlier file has   *)
(* left.                                                                   *)
LEMMA SequenceStarts ==
    ASSUME NEW x \in ConfType, x.key = "MOTR_POOLS", NEW e, NEW y, y = conf_extract_blk_seq(x)
    PROVE  Spares(x, "MOTR_POOLS", y) /\ Listed(y, e, 0, y)
  <1>1. y = [[x EXCEPT !.blk_seq = TRUE] EXCEPT !.table = TRUE, !.pools = <<>>, !.default_idx = 0]
    BY DEF conf_extract_blk_seq, conf_alloc_mio_pools
  <1>2. y \in ConfType /\ y.table = TRUE /\ y.blk_seq = TRUE /\ y.pools = <<>>
    <2> DEFINE none == <<>>
               z == [x EXCEPT !.blk_seq = TRUE]
               u == [z EXCEPT !.table = TRUE]
               v == [u EXCEPT !.pools = none]
    <2>1. none \in Seq(PoolType)
      OBVIOUS
    <2>2. z \in ConfType /\ z.blk_seq = TRUE
      BY DEF ConfType
    <2> HIDE DEF none, z
    <2>3. u \in ConfType /\ u.blk_seq = TRUE /\ u.table = TRUE
      BY <2>2 DEF ConfType
    <2> HIDE DEF u
    <2>4. v \in ConfType /\ v.blk_seq = TRUE /\ v.table = TRUE /\ v.pools = none
      BY <2>1, <2>3 DEF ConfType
    <2>5. y = [v EXCEPT !.default_idx = 0]
      BY <1>1, <2>2 DEF ConfType, u, z, none
    <2> HIDE DEF v
    <2>6. y \in ConfType
      <3> DEFINE n == 0
      <3>1. n \in Nat /\ y = [v EXCEPT !.default_idx = n]
        BY <2>5
      <3> HIDE DEF n
      <3> QED BY <2>4, <3>1 DEF ConfType
    <2>7. y.table = TRUE /\ y.blk_seq = TRUE /\ y.pools = none
      BY <2>4, <2>5 DEF ConfType
    <2> QED BY <2>6, <2>7 DEF none
  <1>3. Spares(x, "MOTR_POOLS", y)
    BY <1>1 DEF ConfType, Spares
  <1>4. Spares(y, "MOTR_POOLS", y)
    BY DEF Spares
  <1>5. Len(y.pools) = 0 /\ \A i \in 1..0 : y.pools[i] = PoolOf(e.items[i])
    BY <1>2
  <1> QED BY <1>2, <1>3, <1>4, <1>5 DEF Listed

(* An entry of the file, from any state of the parser.                     *)
LEMMA EntryIs ==
    ASSUME NEW e \in Entries, EntryMade(e), NEW x \in ConfType, NEW y, Leads(x, ScanEntry(e), y)
    PROVE  EntryDone(x, e, y)
  <1>1. e.key \in STRING /\ e.val \in Values /\ e.items \in Seq(Seq(Pairs)) /\ e.key \notin DOMAIN PoolFields
    BY DEF Entries, EntryMade
  <1>2. CASE x.rc # "ok"
    <2>1. y = x
      BY <1>2, EntryTokens, LeadsStuck
    <2> QED BY <1>2, <2>1 DEF EntryDone, Spares
  <1>3. CASE x.rc = "ok" /\ e.items = <<>>
    <2>1. PICK m : Leads(x, ScanPair(e), m) /\ Leads(m, <<>>, y)
      <3>1. ScanPair(e) \in Seq(Tokens) /\ ScanEntry(e) = ScanPair(e) \o <<>>
        BY <1>3, EntryTokens
      <3>2. <<>> \in Seq(Tokens)
        OBVIOUS
      <3> QED BY <3>1, <3>2, LeadsSplit
    <2>2. y = m
      BY <2>1, LeadsNone
    <2>3. /\ y \in ConfType /\ SamePools(x, y) /\ Spares(x, e.key, y)
          /\ y.rc = "ok" => (e.val # "" => Takes(y, e.key, e.val))
          /\ y.rc # "ok" => MayFail(e)
      BY <1>1, <1>3, <2>1, <2>2, PlainPair
    <2> QED BY <1>3, <2>3 DEF EntryDone, SamePools
  <1>4. CASE x.rc = "ok" /\ e.items # <<>>
    <2> DEFINE a == Tok("SEQUENCE", "")
               b == Tok("END", "")
               l == FlattenSeq(ListTokens(e))
    <2>1. /\ ScanPair(e) \in Seq(Tokens) /\ <<a>> \in Seq(Tokens) /\ <<b>> \in Seq(Tokens) /\ l \in Seq(Tokens)
          /\ ScanEntry(e) = ScanPair(e) \o (<<a>> \o l \o <<b>>)
      BY <1>4, EntryTokens
    <2> HIDE DEF a, b, l
    <2>2. <<a>> \o l \in Seq(Tokens) /\ <<a>> \o l \o <<b>> \in Seq(Tokens)
      BY <2>1
    <2>3. PICK m : Leads(x, ScanPair(e), m) /\ Leads(m, <<a>> \o l \o <<b>>, y)
      BY <2>1, <2>2, LeadsSplit
    <2>4. e.key = "MOTR_POOLS" /\ e.val = "" /\ \A i \in 1..Len(e.items) : PoolItem(e.items[i])
      BY <1>4 DEF EntryMade
    <2>5. /\ m \in ConfType /\ Spares(x, e.key, m)
          /\ m.rc = "ok" => m.key = "MOTR_POOLS"
      BY <1>1, <1>4, <2>3, <2>4, PlainPair
    <2>6. MayFail(e)
      BY <2>4 DEF MayFail
    <2>7. CASE m.rc # "ok"
      <3>1. y = m
        BY <2>2, <2>3, <2>7, LeadsStuck
      <3> QED BY <1>4, <2>5, <2>6, <2>7, <3>1 DEF EntryDone
    <2>8. CASE m.rc = "ok"
      <3>1. PICK n : Leads(m, <<a>> \o l, n) /\ Leads(n, <<b>>, y)
        BY <2>1, <2>2, <2>3, LeadsSplit
      <3>2. PICK k : Leads(m, <<a>>, k) /\ Leads(k, l, n)
        BY <2>1, <3>1, LeadsSplit
      <3>3. k = Step(m, a) /\ y = Step(n, b)
        BY <3>1, <3>2, LeadsOne
      <3>4. Spares(m, "MOTR_POOLS", k) /\ Listed(k, e, 0, k)
        <4>1. k = conf_extract_blk_seq(m)
          BY <2>8, <3>3 DEF Step, ConfToken, Tok, a
        <4> QED BY <2>5, <2>8, <4>1, SequenceStarts
      <3>5. Listed(k, e, Len(e.items), n)
        BY <2>4, <3>2, <3>4, ListIs DEF l
      <3>6. y = n
        BY <3>3 DEF Step, ConfToken, Tok, b
      <3>7. Spares(x, e.key, y)
        <4>1. Spares(x, e.key, k)
          BY <2>4, <2>5, <3>4, SparesTwice
        <4> QED BY <2>4, <3>5, <3>6, <4>1, SparesTwice DEF Listed
      <3>8. /\ y \in ConfType
            /\ y.rc = "ok" => /\ Len(y.pools) = Len(e.items)
                              /\ \A i \in 1..Len(e.items) : y.pools[i] = PoolOf(e.items[i])
        BY <3>5, <3>6 DEF Listed
      <3> QED BY <1>4, <2>4, <2>6, <3>7, <3>8 DEF EntryDone
    <2> QED BY <2>7, <2>8
  <1> QED BY <1>2, <1>3, <1>4

(***************************************************************************)
(* A file: entry by entry, what it has said so far counts.  If it fails,   *)
(* the strings of Motr can be freed.                                       *)
(***************************************************************************)
Given(e, y) ==
    /\ e.val # "" => Takes(y, e.key, e.val)
    /\ e.items # <<>> => /\ Len(y.pools) = Len(e.items)
                         /\ \A i \in 1..Len(e.items) : y.pools[i] = PoolOf(e.items[i])

Freeable(y) == y.motr_conf # NoConf => \A k \in MotrStrings : y.motr_conf[k] # Garbage

DocRead(c, doc, k, y) ==
    /\ y \in ConfType /\ ~y.wild
    /\ y.rc = "ok" => /\ \A j \in 1..k : Given(doc[j], y)
                      /\ (\A j \in 1..k : doc[j].key \notin MotrKeys) => y.motr_conf = c.motr_conf
    /\ y.rc # "ok" => Freeable(y)

(* What an entry has given, one of another key leaves.                     *)
LEMMA GivenStays ==
    ASSUME NEW d, NEW e, EntryMade(d), EntryMade(e), d.key # e.key,
           NEW x, NEW y, EntryDone(x, e, y), Given(d, x)
    PROVE  Given(d, y)
  <1>1. Spares(x, e.key, y)
    BY DEF EntryDone
  <1>2. ASSUME d.val # "" PROVE Takes(y, d.key, d.val)
    <2>1. Takes(x, d.key, d.val)
      BY <1>2 DEF Given
    <2> DEFINE k == d.key
               v == d.val
               h == e.key
    <2>2. Takes(x, k, v) /\ k # h /\ Spares(x, h, y)
      BY <1>1, <2>1
    <2> HIDE DEF k, v, h
    <2>3. k \in MotrSettings => /\ y.motr_conf # NoConf
                                /\ y.motr_conf[k] = IF k \in MotrNumbers THEN atoi(v) ELSE conf_copy_str(v)
      BY <2>2 DEF Takes, Spares
    <2>4. k \in InstSettings => y.inst[k] = IF k = "MIO_LOG_LEVEL" THEN v ELSE conf_copy_str(v)
      BY <2>2 DEF Takes, Spares
    <2>5. /\ k = "MIO_TELEMETRY_STORE" => y.telem = IF v \in {"ADDB", "LOG"} THEN v ELSE "NONE"
          /\ k = "MOTR_POOL_DEFAULT" => y.default = PoolName(v)
          /\ k = "MIO_DRIVER" => y.drv_id = "MOTR"
      BY <2>2 DEF Takes, Spares
    <2>6. Takes(y, k, v)
      BY <2>3, <2>4, <2>5 DEF Takes
    <2> QED BY <2>6 DEF k, v
  <1>3. ASSUME d.items # <<>> PROVE y.pools = x.pools
    <2>1. d.key = "MOTR_POOLS"
      BY <1>3 DEF EntryMade
    <2>2. e.items = <<>>
      BY <2>1 DEF EntryMade
    <2> QED BY <2>2 DEF EntryDone
  <1> QED BY <1>2, <1>3 DEF Given

(* One more entry: the earlier ones stay in place, since no key comes      *)
(* twice.                                                                  *)
LEMMA DocStep ==
    ASSUME NEW doc, Made(doc), NEW c, Freeable(c), NEW k \in 0..(Len(doc) - 1),
           NEW x, DocRead(c, doc, k, x), NEW y, EntryDone(x, doc[k + 1], y)
    PROVE  DocRead(c, doc, k + 1, y)
  <1> DEFINE e == doc[k + 1]
             n == Len(doc)
  <1>1. doc \in Seq(Entries) /\ n \in Nat /\ k \in Nat /\ k + 1 \in 1..n /\ \A j \in 1..k : j \in 1..n /\ j # k + 1
    <2>1. doc \in Seq(Entries)
      BY DEF Made
    <2>2. n \in Nat
      BY <2>1
    <2> QED BY <2>1, <2>2
  <1>2. EntryMade(e) /\ \A j \in 1..k : EntryMade(doc[j]) /\ doc[j].key # e.key
    BY <1>1 DEF Made
  <1>3. y \in ConfType /\ Spares(x, e.key, y)
    BY DEF EntryDone
  <1>4. ~y.wild
    <2>1. y.wild = x.wild /\ x.wild = FALSE
      BY <1>3 DEF Spares, DocRead, ConfType
    <2> QED BY <2>1
  <1>5. ASSUME y.rc = "ok"
        PROVE  /\ \A j \in 1..(k + 1) : Given(doc[j], y)
               /\ (\A j \in 1..(k + 1) : doc[j].key \notin MotrKeys) => y.motr_conf = c.motr_conf
    <2>1. x.rc = "ok" /\ Given(e, y)
      BY <1>5 DEF EntryDone, Given
    <2>2. \A j \in 1..k : Given(doc[j], x)
      BY <2>1 DEF DocRead
    <2>3. ASSUME NEW j \in 1..(k + 1) PROVE Given(doc[j], y)
      <3>1. j \in 1..k \/ j = k + 1
        BY <1>1
      <3>2. CASE j \in 1..k
        <4>1. Given(doc[j], x) /\ EntryMade(doc[j]) /\ doc[j].key # e.key
          BY <1>2, <2>2, <3>2
        <4> HIDE DEF e
        <4>2. EntryDone(x, e, y)
          BY DEF e
        <4> QED BY <1>2, <4>1, <4>2, GivenStays
      <3> QED BY <2>1, <3>1, <3>2
    <2>4. ASSUME \A j \in 1..(k + 1) : doc[j].key \notin MotrKeys PROVE y.motr_conf = c.motr_conf
      <3>1. k + 1 \in 1..(k + 1) /\ \A j \in 1..k : j \in 1..(k + 1)
        BY <1>1
      <3>2. x.motr_conf = c.motr_conf
        BY <2>1, <2>4, <3>1 DEF DocRead
      <3>3. y.motr_conf = x.motr_conf
        BY <1>3, <2>4, <3>1 DEF Spares
      <3> QED BY <3>2, <3>3
    <2> QED BY <2>3, <2>4
  <1>6. ASSUME y.rc # "ok" PROVE Freeable(y)
    <2>1. CASE x.rc # "ok"
      <3>1. y = x
        BY <2>1 DEF EntryDone
      <3> QED BY <2>1, <3>1 DEF DocRead
    <2>2. CASE x.rc = "ok"
      <3>1. MayFail(e)
        BY <1>6, <2>2 DEF EntryDone
      <3>2. CASE \A h \in 1..(k + 1) : doc[h].key \notin MotrKeys
        <4>1. k + 1 \in 1..(k + 1) /\ \A j \in 1..k : j \in 1..(k + 1)
          BY <1>1
        <4>2. x.motr_conf = c.motr_conf
          BY <2>2, <3>2, <4>1 DEF DocRead
        <4>3. y.motr_conf = x.motr_conf
          BY <1>3, <3>2, <4>1 DEF Spares
        <4> QED BY <4>2, <4>3 DEF Freeable
      <3>3. CASE \A s \in MotrStrings : \E i \in 1..(k + 1) : doc[i].key = s
        <4> SUFFICES ASSUME NEW s \in MotrStrings PROVE y.motr_conf[s] # Garbage
          BY DEF Freeable
        <4>1. PICK i \in 1..(k + 1) : doc[i].key = s
          BY <3>3
        <4>2. s \in ConfKeys \ {"MIO_DRIVER", "MIO_LOG_LEVEL", "MOTR_POOLS"}
          BY DEF ConfKeys, MotrKeys, MotrSettings, MotrStrings
        <4>3. i # k + 1 /\ s # e.key
          BY <3>1, <4>1, <4>2 DEF MayFail
        <4>4. i \in 1..k
          BY <1>1, <4>3
        <4>5. Given(doc[i], x) /\ EntryMade(doc[i])
          BY <1>2, <2>2, <4>4 DEF DocRead
        <4>6. doc[i].val # "" /\ conf_copy_str(doc[i].val) # Garbage
          BY <4>1, <4>5 DEF EntryMade, Needed
        <4>7. Takes(x, s, doc[i].val)
          BY <4>1, <4>5, <4>6 DEF Given
        <4>8. s \in MotrSettings /\ s \notin MotrNumbers
          BY DEF MotrSettings, MotrStrings, MotrNumbers
        <4>9. x.motr_conf # NoConf /\ x.motr_conf[s] = conf_copy_str(doc[i].val)
          BY <4>7, <4>8 DEF Takes
        <4>10. y.motr_conf[s] = x.motr_conf[s]
          BY <1>3, <4>3, <4>8, <4>9 DEF Spares
        <4> QED BY <4>6, <4>9, <4>10
      <3> QED BY <1>1, <3>1, <3>2, <3>3 DEF Made, Careful
    <2> QED BY <2>1, <2>2
  <1> QED BY <1>3, <1>4, <1>5, <1>6 DEF DocRead

(* By induction, all the entries of the file.                              *)
LEMMA DocIs ==
    ASSUME NEW doc, Made(doc), NEW c \in ConfType, Freeable(c), ~c.wild, c.rc = "ok",
           NEW y, Leads(c, Scan(doc), y)
    PROVE  DocRead(c, doc, Len(doc), y)
  <1> DEFINE ss == [i \in 1..Len(doc) |-> ScanEntry(doc[i])]
             n == Len(doc)
             t == Tok("STREAM_END", "")
  <1>1. doc \in Seq(Entries) /\ n \in Nat /\ \A i \in 1..n : doc[i] \in Entries /\ EntryMade(doc[i])
    BY DEF Made
  <1>2. ss \in Seq(Seq(Tokens)) /\ Len(ss) = n /\ \A i \in 1..n : ss[i] = ScanEntry(doc[i])
    <2>1. \A i \in 1..n : ScanEntry(doc[i]) \in Seq(Tokens)
      BY <1>1, EntryTokens
    <2> QED BY <1>1, <2>1
  <1>3. Scan(doc) = FlattenSeq(ss) \o <<t>>
    BY DEF Scan
  <1>4. t \in Tokens
    BY DEF Tok, Tokens, Text
  <1> HIDE DEF ss
  <1>5. PICK m : Leads(c, FlattenSeq(ss), m) /\ m = y
    <2> HIDE DEF t
    <2>1. FlattenSeq(ss) \in Seq(Tokens) /\ <<t>> \in Seq(Tokens)
      BY <1>2, <1>4, FlattenTokens, ThreeTokens
    <2>2. PICK m : Leads(c, FlattenSeq(ss), m) /\ Leads(m, <<t>>, y)
      BY <1>3, <2>1, LeadsSplit
    <2>3. y = Step(m, t)
      BY <2>2, LeadsOne
    <2>4. y = m
      BY <2>3 DEF Step, ConfToken, Tok, t
    <2> QED BY <2>2, <2>4
  <1>6. PICK r : Stations(r, c, ss, y)
    BY <1>2, <1>5, FlatRun
  <1> DEFINE T == {k \in 0..n : DocRead(c, doc, k, r[k])}
  <1>7. 0 \in T
    <2>1. DocRead(c, doc, 0, c)
      BY DEF DocRead
    <2> QED BY <1>1, <1>6, <2>1 DEF Stations
  <1>8. ASSUME NEW k \in 0..(n - 1), k \in T PROVE k + 1 \in T
    <2>1. k + 1 \in 1..n /\ (k + 1) - 1 = k /\ k + 1 \in 0..n
      BY <1>1
    <2>2. DocRead(c, doc, k, r[k])
      BY <1>8
    <2>3. Leads(r[k], ScanEntry(doc[k + 1]), r[k + 1])
      BY <1>2, <1>6, <2>1 DEF Stations
    <2>4. r[k] \in ConfType /\ doc[k + 1] \in Entries /\ EntryMade(doc[k + 1])
      BY <1>1, <2>1, <2>2 DEF DocRead
    <2>5. EntryDone(r[k], doc[k + 1], r[k + 1])
      BY <2>3, <2>4, EntryIs
    <2>6. DocRead(c, doc, k + 1, r[k + 1])
      BY <2>2, <2>5, DocStep
    <2> QED BY <2>1, <2>6
  <1> HIDE DEF n, T
  <1>9. 0..n \subseteq T
    BY <1>1, <1>7, <1>8, Induct
  <1>10. n \in T
    BY <1>1, <1>9
  <1>11. r[n] = y
    BY <1>2, <1>6 DEF Stations
  <1> QED BY <1>10, <1>11 DEF n, T

(* mio_conf_init starts afresh but for the configuration of Motr.          *)
LEMMA StartIs ==
    ASSUME NEW c \in ConfType
    PROVE  /\ ConfStart(c) \in ConfType /\ ConfStart(c).rc = "ok"
           /\ ConfStart(c).motr_conf = c.motr_conf /\ ConfStart(c).wild = c.wild
  <1> DEFINE f == [k \in InstSettings |-> ""]
  <1>1. f \in [InstSettings -> Text]
    BY DEF Text
  <1> DEFINE o == c.open \ InstSettings
             a == [c EXCEPT !.default = NoPoolName, !.is_key = TRUE, !.key = "INVALID", !.rc = "ok", !.inst = f]
  <1>2. ConfStart(c) = [a EXCEPT !.open = o]
    BY DEF ConfStart
  <1>2a. o \in SUBSET (InstSettings \cup MotrSettings)
    <2>1. c.open \in SUBSET (InstSettings \cup MotrSettings)
      BY DEF ConfType
    <2> QED BY <2>1
  <1> HIDE DEF f, o
  <1>3. NoPoolName \in Text /\ "INVALID" \in Text
    BY DEF Text
  <1>4. a \in ConfType
    BY ZenonT(30), <1>1, <1>3 DEF ConfType
  <1>5. a.rc = "ok" /\ a.motr_conf = c.motr_conf /\ a.wild = c.wild
    BY DEF ConfType
  <1> HIDE DEF a
  <1>6. ConfStart(c) \in ConfType
    BY <1>2, <1>2a, <1>4 DEF ConfType
  <1> QED BY <1>2, <1>4, <1>5, <1>6 DEF ConfType

(* The loop of mio_conf_init has read the file, whatever it began with.    *)
LEMMA ScanIs ==
    ASSUME NEW doc, Made(doc), NEW c \in ConfType, Freeable(c), ~c.wild
    PROVE  \E s \in ConfType : DocRead(s, doc, Len(doc), ConfScan(c, Scan(doc)))
  <1> DEFINE s == ConfStart(c)
  <1>1. s \in ConfType /\ s.rc = "ok" /\ Freeable(s) /\ ~s.wild
    BY StartIs DEF Freeable
  <1> HIDE DEF s
  <1>2. Scan(doc) \in Seq(Tokens)
    <2> DEFINE ss == [i \in 1..Len(doc) |-> ScanEntry(doc[i])]
               t == Tok("STREAM_END", "")
    <2>1. doc \in Seq(Entries) /\ \A i \in 1..Len(doc) : doc[i] \in Entries
      BY DEF Made
    <2>2. \A i \in 1..Len(doc) : ScanEntry(doc[i]) \in Seq(Tokens)
      BY <2>1, EntryTokens
    <2>3. ss \in Seq(Seq(Tokens))
      BY <2>1, <2>2
    <2>4. Scan(doc) = FlattenSeq(ss) \o <<t>>
      BY DEF Scan
    <2>5. t \in Tokens
      BY DEF Tok, Tokens, Text
    <2> HIDE DEF ss, t
    <2>6. FlattenSeq(ss) \in Seq(Tokens) /\ <<t>> \in Seq(Tokens)
      BY <2>3, <2>5, FlattenTokens, ThreeTokens
    <2> QED BY <2>4, <2>6
  <1>3. Leads(s, Scan(doc), ConfScan(c, Scan(doc)))
    BY <1>2, ScanLeads DEF s
  <1>4. DocRead(s, doc, Len(doc), ConfScan(c, Scan(doc)))
    BY <1>1, <1>3, DocIs
  <1> QED BY <1>1, <1>4

(***************************************************************************)
(* What the file says.                                                     *)
(***************************************************************************)
Declared(doc, c) ==
    /\ \A k \in MotrSettings : Says(doc, k) =>
          c.motr_conf[k] = IF k \in MotrNumbers THEN atoi(Said(doc, k)) ELSE conf_copy_str(Said(doc, k))
    /\ \A k \in InstSettings : Says(doc, k) =>
          c.inst[k] = IF k = "MIO_LOG_LEVEL" THEN Said(doc, k) ELSE conf_copy_str(Said(doc, k))
    /\ Says(doc, "MIO_TELEMETRY_STORE") => c.telem = Said(doc, "MIO_TELEMETRY_STORE")
    /\ Says(doc, "MOTR_POOLS") => c.pools = SaidPools(doc)

(* An entry is found by its key.                                           *)
LEMMA PlaceIs ==
    ASSUME NEW doc, Made(doc), NEW k, Says(doc, k)
    PROVE  /\ Place(doc, k) \in 1..Len(doc) /\ doc[Place(doc, k)].key = k /\ EntryMade(doc[Place(doc, k)])
           /\ doc[Place(doc, k)] \in Entries
           /\ doc[Place(doc, k)].val # "" \/ doc[Place(doc, k)].items # <<>>
  <1>1. PICK i \in 1..Len(doc) : doc[i].key = k /\ (doc[i].val # "" \/ doc[i].items # <<>>)
    BY DEF Says
  <1>2. doc \in Seq(Entries) /\ Len(doc) \in Nat
    BY DEF Made
  <1>3. \A j \in 1..Len(doc) : doc[j].key = k => j = i
    BY <1>1 DEF Made
  <1>4. \A j \in i+1..Len(doc) : doc[j].key # k
    <2> SUFFICES ASSUME NEW j \in i+1..Len(doc) PROVE doc[j].key # k
      OBVIOUS
    <2>1. j \in 1..Len(doc) /\ j # i
      BY <1>2
    <2> QED BY <1>3, <2>1
  <1> DEFINE P(j) == doc[j].key = k /\ \A h \in j+1..Len(doc) : doc[h].key # k
  <1>5. P(i)
    BY <1>1, <1>4
  <1>6. Place(doc, k) \in 1..Len(doc) /\ doc[Place(doc, k)].key = k
    BY <1>5 DEF Place
  <1>7. Place(doc, k) = i
    BY <1>3, <1>6
  <1>8. EntryMade(doc[i]) /\ doc[i] \in Entries
    BY <1>2 DEF Made
  <1> QED BY <1>1, <1>7, <1>8

(* If the loop came to the end of the file, the configuration is what the  *)
(* file says.                                                              *)
LEMMA DeclaredIs ==
    ASSUME NEW doc, Made(doc), NEW s, NEW c, DocRead(s, doc, Len(doc), c), c.rc = "ok"
    PROVE  /\ Declared(doc, c) /\ Freeable(c) /\ c.drv_id = "MOTR"
           /\ Says(doc, "MOTR_POOL_DEFAULT") => /\ c.default = PoolName(Said(doc, "MOTR_POOL_DEFAULT"))
                                                /\ c.default # NoPoolName
  <1>1. c \in ConfType /\ \A j \in 1..Len(doc) : Given(doc[j], c)
    BY DEF DocRead
  <1>2. ASSUME NEW k, Says(doc, k), k # "MOTR_POOLS" PROVE Takes(c, k, Said(doc, k)) /\ Said(doc, k) # ""
    <2> DEFINE e == doc[Place(doc, k)]
    <2>1. e.key = k /\ EntryMade(e) /\ (e.val # "" \/ e.items # <<>>) /\ Given(e, c)
      BY <1>1, <1>2, PlaceIs
    <2> HIDE DEF e
    <2>2. e.val # ""
      BY <1>2, <2>1 DEF EntryMade
    <2>3. Takes(c, k, e.val)
      BY <2>1, <2>2 DEF Given
    <2> QED BY <2>2, <2>3 DEF Said, e
  <1>3. "MOTR_POOLS" \notin MotrSettings \cup InstSettings
    BY DEF MotrSettings, MotrStrings, MotrNumbers, InstSettings
  <1>4. ASSUME NEW k \in MotrSettings, Says(doc, k)
        PROVE  c.motr_conf[k] = IF k \in MotrNumbers THEN atoi(Said(doc, k)) ELSE conf_copy_str(Said(doc, k))
    <2>1. Takes(c, k, Said(doc, k))
      BY <1>2, <1>3, <1>4
    <2> QED BY <2>1 DEF Takes
  <1>5. ASSUME NEW k \in InstSettings, Says(doc, k)
        PROVE  c.inst[k] = IF k = "MIO_LOG_LEVEL" THEN Said(doc, k) ELSE conf_copy_str(Said(doc, k))
    <2>1. Takes(c, k, Said(doc, k))
      BY <1>2, <1>3, <1>5
    <2> QED BY <2>1 DEF Takes
  <1>6. ASSUME Says(doc, "MIO_TELEMETRY_STORE") PROVE c.telem = Said(doc, "MIO_TELEMETRY_STORE")
    <2> DEFINE v == Said(doc, "MIO_TELEMETRY_STORE")
    <2>1. Takes(c, "MIO_TELEMETRY_STORE", v) /\ v # ""
      BY <1>2, <1>6
    <2>2. v \in {"", "ADDB", "LOG", "NONE"}
      <3> DEFINE e == doc[Place(doc, "MIO_TELEMETRY_STORE")]
      <3>1. e.key = "MIO_TELEMETRY_STORE" /\ EntryMade(e)
        BY <1>6, PlaceIs
      <3> HIDE DEF e
      <3>2. e.val \in {"", "ADDB", "LOG", "NONE"}
        BY <3>1 DEF EntryMade
      <3> QED BY <3>2 DEF Said, e
    <2> HIDE DEF v
    <2>3. c.telem = IF v \in {"ADDB", "LOG"} THEN v ELSE "NONE"
      BY <2>1 DEF Takes
    <2>4. c.telem = v
      BY <2>1, <2>2, <2>3
    <2> QED BY <2>4 DEF v
  <1>7. ASSUME Says(doc, "MOTR_POOLS") PROVE c.pools = SaidPools(doc)
    <2> DEFINE e == doc[Place(doc, "MOTR_POOLS")]
               items == e.items
    <2>1. e.key = "MOTR_POOLS" /\ EntryMade(e) /\ (e.val # "" \/ e.items # <<>>) /\ Given(e, c)
      BY <1>1, <1>7, PlaceIs
    <2>2. SaidPools(doc) = [i \in 1..Len(items) |-> PoolOf(items[i])]
      <3>1. ASSUME NEW z \in DOMAIN PoolFields, NEW i \in 1..Len(items)
            PROVE  FieldOf(items[i], z).key = z
        <4>1. PoolItem(items[i])
          BY <2>1 DEF EntryMade
        <4>2. Len(items[i]) = 3 /\ {items[i][j].key : j \in 1..3} = DOMAIN PoolFields
          BY <4>1 DEF PoolItem
        <4>3. \E j \in 1..Len(items[i]) : items[i][j].key = z
          BY <4>2
        <4> QED BY <4>3 DEF FieldOf
      <3>2. ASSUME NEW i \in 1..Len(items)
            PROVE  PoolOf(items[i]) = [name |-> PoolName(FieldOf(items[i], "MOTR_POOL_NAME").val),
                                       id   |-> FieldOf(items[i], "MOTR_POOL_ID").val,
                                       type |-> FieldOf(items[i], "MOTR_POOL_TYPE").val]
        <4>1. /\ FieldOf(items[i], "MOTR_POOL_NAME").key = "MOTR_POOL_NAME"
              /\ FieldOf(items[i], "MOTR_POOL_ID").key = "MOTR_POOL_ID"
              /\ FieldOf(items[i], "MOTR_POOL_TYPE").key = "MOTR_POOL_TYPE"
          BY <3>1, FieldsAre
        <4> QED BY <4>1 DEF PoolOf, Put
      <3> QED BY <3>2 DEF SaidPools, FieldOf
    <2> HIDE DEF e
    <2>3. Len(c.pools) = Len(e.items) /\ \A i \in 1..Len(e.items) : c.pools[i] = PoolOf(e.items[i])
      BY <2>1 DEF Given, EntryMade
    <2>4. c.pools = [i \in 1..Len(c.pools) |-> c.pools[i]]
      <3>1. c.pools \in Seq(PoolType)
        BY <1>1 DEF ConfType
      <3> QED BY <3>1
    <2> QED BY <2>2, <2>3, <2>4
  <1>8. Declared(doc, c)
    BY <1>4, <1>5, <1>6, <1>7 DEF Declared
  <1>9. ASSUME NEW k \in Needed \cup {"MIO_DRIVER"} PROVE Says(doc, k)
    <2>1. PICK i \in 1..Len(doc) : doc[i].key = k
      BY DEF Made
    <2>2. EntryMade(doc[i])
      BY DEF Made
    <2>3. doc[i].val # ""
      BY <2>1, <2>2 DEF EntryMade
    <2> QED BY <2>1, <2>3 DEF Says
  <1>10. Freeable(c)
    <2> SUFFICES ASSUME NEW k \in MotrStrings PROVE c.motr_conf[k] # Garbage
      BY DEF Freeable
    <2>1. k \in Needed /\ k \in MotrSettings /\ k \notin MotrNumbers
      BY DEF Needed, MotrSettings, MotrStrings, MotrNumbers
    <2>2. c.motr_conf[k] = conf_copy_str(Said(doc, k))
      BY <1>4, <1>9, <2>1
    <2> DEFINE e == doc[Place(doc, k)]
    <2>3. e.key = k /\ EntryMade(e)
      BY <1>9, <2>1, PlaceIs
    <2> HIDE DEF e
    <2>4. conf_copy_str(e.val) # Garbage
      BY <2>1, <2>3 DEF EntryMade
    <2> QED BY <2>2, <2>4 DEF Said, e
  <1>11. c.drv_id = "MOTR"
    <2>1. Takes(c, "MIO_DRIVER", Said(doc, "MIO_DRIVER"))
      BY <1>2, <1>9
    <2> QED BY <2>1 DEF Takes
  <1>12. ASSUME Says(doc, "MOTR_POOL_DEFAULT")
         PROVE  c.default = PoolName(Said(doc, "MOTR_POOL_DEFAULT")) /\ c.default # NoPoolName
    <2> DEFINE e == doc[Place(doc, "MOTR_POOL_DEFAULT")]
    <2>1. Takes(c, "MOTR_POOL_DEFAULT", Said(doc, "MOTR_POOL_DEFAULT"))
      BY <1>2, <1>12
    <2>2. c.default = PoolName(Said(doc, "MOTR_POOL_DEFAULT"))
      BY <2>1 DEF Takes
    <2>3. e.key = "MOTR_POOL_DEFAULT" /\ EntryMade(e)
      BY <1>12, PlaceIs
    <2> HIDE DEF e
    <2>4. PoolName(e.val) # NoPoolName
      BY <2>3 DEF EntryMade
    <2> QED BY <2>2, <2>4 DEF Said, e
  <1> QED BY <1>8, <1>10, <1>11, <1>12

(* The default pool is found by its name.                                  *)
LEMMA DefaultIs ==
    ASSUME NEW c \in ConfType, c.rc = "ok", NEW d \in ConfDefaultPool(c)
    PROVE  /\ d \in ConfType /\ d.motr_conf = c.motr_conf /\ d.inst = c.inst /\ d.telem = c.telem
           /\ d.pools = c.pools /\ d.drv_id = c.drv_id /\ d.wild = c.wild
           /\ d.rc = "ok" /\ c.default # NoPoolName => d.pools[d.default_idx + 1].name = c.default
  <1> DEFINE found == {i \in 1..Len(c.pools) : c.pools[i].name = c.default}
  <1>1. CASE c.default = NoPoolName
    <2>1. d = c
      BY <1>1 DEF ConfDefaultPool, mio_conf_default_pool_has_set
    <2> QED BY <1>1, <2>1
  <1>2. CASE c.default # NoPoolName /\ found = {}
    <2>1. d = [c EXCEPT !.rc = "err"]
      BY <1>2 DEF ConfDefaultPool, mio_conf_default_pool_has_set
    <2> QED BY <2>1 DEF ConfType
  <1>3. CASE c.default # NoPoolName /\ found # {}
    <2>0. CASE d = [c EXCEPT !.rc = "err"]
      BY <2>0 DEF ConfType
    <2>1. ASSUME d # [c EXCEPT !.rc = "err"]
          PROVE  \E i \in found : d = [c EXCEPT !.default_idx = i - 1]
      BY <1>3, <2>1 DEF ConfDefaultPool, mio_conf_default_pool_has_set
    <2> SUFFICES ASSUME NEW first \in found, d = [c EXCEPT !.default_idx = first - 1]
                 PROVE  /\ d \in ConfType /\ d.motr_conf = c.motr_conf /\ d.inst = c.inst /\ d.telem = c.telem
                        /\ d.pools = c.pools /\ d.drv_id = c.drv_id /\ d.wild = c.wild
                        /\ d.rc = "ok" /\ c.default # NoPoolName => d.pools[d.default_idx + 1].name = c.default
      BY <2>0, <2>1
    <2>3. first \in 1..Len(c.pools) /\ c.pools[first].name = c.default /\ Len(c.pools) \in Nat
      BY DEF ConfType
    <2>4. first - 1 \in Nat /\ (first - 1) + 1 = first
      BY <2>3
    <2>5. d \in ConfType /\ d.default_idx = first - 1 /\ d.pools = c.pools
      BY <2>4 DEF ConfType
    <2>6. /\ d.motr_conf = c.motr_conf /\ d.inst = c.inst /\ d.telem = c.telem
          /\ d.drv_id = c.drv_id /\ d.wild = c.wild
      BY DEF ConfType
    <2> QED BY <2>3, <2>4, <2>5, <2>6
  <1> QED BY <1>1, <1>2, <1>3

(***************************************************************************)
(* The static variables between the calls: nothing in them is accessed     *)
(* that was not set, whatever mio_conf_fini or a failing mio_conf_init     *)
(* frees next, and while mio_init is past mio_conf_init they are as the    *)
(* file says.                                                              *)
(***************************************************************************)
Kept(c) == c \in ConfType /\ ~c.wild /\ Freeable(c)

DefaultDeclared(doc, c) ==
    Says(doc, "MOTR_POOL_DEFAULT") =>
        c.pools[c.default_idx + 1].name = PoolName(Said(doc, "MOTR_POOL_DEFAULT"))

ConfInv ==
    /\ file \in DOMAIN Files
    /\ Kept(conf)
    /\ instance = "set" /\ stage # "out" => Declared(Doc, conf) /\ DefaultDeclared(Doc, conf)

(* The library starts with nothing to free.                                *)
LEMMA StaticKept == Kept(StaticConf)
  <1> DEFINE f == [k \in InstSettings |-> ""]
  <1>1. f \in [InstSettings -> Text]
    BY DEF Text
  <1>2. StaticConf =
          [blk_seq |-> FALSE, drv_id |-> "MOTR", telem |-> "NONE", motr_conf |-> NoConf,
           default |-> "", table |-> FALSE, pools |-> <<>>, default_idx |-> 0,
           is_key |-> TRUE, key |-> "INVALID", rc |-> "ok", inst |-> f, open |-> {}, wild |-> FALSE]
    BY DEF StaticConf
  <1> HIDE DEF f
  <1>3. "MOTR" \in Text /\ "NONE" \in Text /\ "" \in Text /\ "INVALID" \in Text
    BY DEF Text
  <1>4. <<>> \in Seq(PoolType)
    OBVIOUS
  <1>5. StaticConf \in ConfType
    BY <1>1, <1>2, <1>3, <1>4 DEF ConfType
  <1>6. StaticConf.motr_conf = NoConf /\ StaticConf.wild = FALSE
    BY <1>2
  <1> QED BY <1>5, <1>6 DEF Kept, Freeable

(* The strings that are freed have been set.                               *)
LEMMA FreeKeeps ==
    ASSUME NEW c, Kept(c)
    PROVE  Kept(conf_free_drivers(c))
  <1> DEFINE d == conf_free_drivers(c)
             w == c.motr_conf # NoConf /\ \E k \in MotrStrings : c.motr_conf[k] = Garbage
  <1>1. c \in ConfType /\ c.wild = FALSE /\ ~w
    BY DEF Kept, ConfType, Freeable
  <1> DEFINE o == c.open \ MotrSettings
  <1>2. d = [c EXCEPT !.wild = @ \/ w, !.motr_conf = NoConf, !.open = o]
    BY DEF conf_free_drivers
  <1>2a. o \in SUBSET (InstSettings \cup MotrSettings)
    <2>1. c.open \in SUBSET (InstSettings \cup MotrSettings)
      BY <1>1 DEF ConfType
    <2> QED BY <2>1
  <1> HIDE DEF o
  <1>3. d = [[[c EXCEPT !.wild = FALSE] EXCEPT !.motr_conf = NoConf] EXCEPT !.open = o]
    <2> HIDE DEF w
    <2> QED BY <1>1, <1>2 DEF ConfType
  <1> HIDE DEF d, w
  <1>4. d \in ConfType /\ d.wild = FALSE /\ d.motr_conf = NoConf
    BY <1>1, <1>2a, <1>3 DEF ConfType
  <1>5. Kept(d)
    BY <1>4 DEF Kept, Freeable
  <1> QED BY <1>5 DEF d

(* mio_conf_fini frees what has been set.                                  *)
LEMMA FiniKeeps ==
    ASSUME NEW c, Kept(c)
    PROVE  Kept(mio_conf_fini(c))
  <1> DEFINE d == conf_free_mio_pools(c)
  <1>1. c \in ConfType /\ c.wild = FALSE
    BY DEF Kept, ConfType
  <1>2. d = [c EXCEPT !.table = FALSE, !.pools = <<>>, !.default_idx = 0]
    BY DEF conf_free_mio_pools
  <1>3. <<>> \in Seq(PoolType)
    OBVIOUS
  <1>4. mio_conf_fini(c) = conf_free_drivers(d)
    BY DEF mio_conf_fini
  <1> HIDE DEF d
  <1>5. d \in ConfType /\ d.wild = FALSE /\ d.motr_conf = c.motr_conf
    BY <1>1, <1>2, <1>3 DEF ConfType
  <1>6. Kept(d)
    BY <1>5 DEF Kept, Freeable
  <1> QED BY <1>4, <1>6, FreeKeeps

(* mio_conf_init, by how it ends.                                          *)
LEMMA ScanKeeps ==
    ASSUME NEW doc, Made(doc), NEW c, Kept(c), NEW y, y = ConfScan(c, Scan(doc))
    PROVE  /\ Kept(y)
           /\ y.rc = "ok" => /\ Declared(doc, y) /\ y.drv_id = "MOTR"
                             /\ Says(doc, "MOTR_POOL_DEFAULT") =>
                                    /\ y.default = PoolName(Said(doc, "MOTR_POOL_DEFAULT"))
                                    /\ y.default # NoPoolName
  <1>1. PICK s \in ConfType : DocRead(s, doc, Len(doc), y)
    BY ScanIs DEF Kept
  <1>2. y \in ConfType /\ ~y.wild
    BY <1>1 DEF DocRead
  <1>3. CASE y.rc = "ok"
    BY <1>1, <1>2, <1>3, DeclaredIs DEF Kept
  <1>4. CASE y.rc # "ok"
    BY <1>1, <1>2, <1>4 DEF Kept, DocRead
  <1> QED BY <1>3, <1>4

(* With the default pool found, mio_conf_init has done what the file says. *)
LEMMA DefaultKeeps ==
    ASSUME NEW doc, Made(doc), NEW c, Kept(c), NEW y, y = ConfScan(c, Scan(doc)), y.rc = "ok",
           NEW d \in ConfDefaultPool(y)
    PROVE  /\ Kept(d)
           /\ d.rc = "ok" => d.drv_id = "MOTR" /\ Declared(doc, d) /\ DefaultDeclared(doc, d)
  <1>1. /\ y \in ConfType /\ ~y.wild /\ Freeable(y) /\ Declared(doc, y) /\ y.drv_id = "MOTR"
        /\ Says(doc, "MOTR_POOL_DEFAULT") => /\ y.default = PoolName(Said(doc, "MOTR_POOL_DEFAULT"))
                                             /\ y.default # NoPoolName
    BY ScanKeeps DEF Kept
  <1>2. /\ d \in ConfType /\ d.motr_conf = y.motr_conf /\ d.inst = y.inst /\ d.telem = y.telem
        /\ d.pools = y.pools /\ d.drv_id = y.drv_id /\ d.wild = y.wild
        /\ d.rc = "ok" /\ y.default # NoPoolName => d.pools[d.default_idx + 1].name = y.default
    BY <1>1, DefaultIs
  <1>3. ~d.wild
    <2>1. y.wild = FALSE
      BY <1>1
    <2> QED BY <1>2, <2>1
  <1>4. Freeable(d) /\ Declared(doc, d) /\ d.drv_id = "MOTR"
    BY <1>1, <1>2 DEF Freeable, Declared
  <1>5. d.rc = "ok" => DefaultDeclared(doc, d)
    BY <1>1, <1>2 DEF DefaultDeclared
  <1> QED BY <1>2, <1>3, <1>4, <1>5 DEF Kept

(* mio_conf_init keeps the invariant, however it ends.                     *)
LEMMA ConfInitKeeps ==
    ASSUME ConfInv, mio_conf_init
    PROVE  ConfInv'
  <1> DEFINE doc == Files[file].doc
             y == ConfScan(conf, Files[file].toks)
  <1>1. file \in DOMAIN Files /\ Kept(conf) /\ file' = file /\ Made(doc)
    BY InitAssumption DEF ConfInv, mio_conf_init
  <1>2. y = ConfScan(conf, Scan(doc))
    BY <1>1, InitAssumption
  <1>3. \/ y.rc # "ok" /\ instance' = "NULL" /\ conf' = conf_free_drivers(y)
        \/ \E d \in ConfDefaultPool(y) :
              \/ y.rc = "ok" /\ instance' = "NULL" /\ conf' = d
              \/ /\ y.rc = "ok" /\ d.rc = "ok"
                 /\ conf' = [d EXCEPT !.wild = @ \/ ~mio_driver_get(d.drv_id)]
    BY DEF mio_conf_init, ConfFails
  <1>4. (Doc = doc)' /\ doc' = doc
    BY <1>1 DEF Doc
  <1> HIDE DEF doc, y
  <1>5. CASE y.rc # "ok" /\ instance' = "NULL" /\ conf' = conf_free_drivers(y)
    <2>1. Kept(y)
      BY <1>1, <1>2, ScanKeeps
    <2>2. Kept(conf_free_drivers(y))
      BY <2>1, FreeKeeps
    <2> QED BY <1>1, <1>5, <2>2 DEF ConfInv
  <1>6. ASSUME NEW d \in ConfDefaultPool(y), y.rc = "ok", instance' = "NULL", conf' = d
        PROVE  ConfInv'
    <2>1. Kept(d)
      BY <1>1, <1>2, <1>6, DefaultKeeps
    <2> QED BY <1>1, <1>6, <2>1 DEF ConfInv
  <1>7. ASSUME NEW d \in ConfDefaultPool(y), y.rc = "ok", d.rc = "ok",
               conf' = [d EXCEPT !.wild = @ \/ ~mio_driver_get(d.drv_id)]
        PROVE  ConfInv'
    <2>1. Kept(d) /\ d.drv_id = "MOTR" /\ Declared(doc, d) /\ DefaultDeclared(doc, d)
      BY <1>1, <1>2, <1>7, DefaultKeeps
    <2>2. conf' = [d EXCEPT !.wild = FALSE]
      <3>1. d.wild = FALSE
        BY <2>1 DEF Kept, ConfType
      <3>2. mio_driver_get(d.drv_id)
        BY <2>1 DEF mio_driver_get
      <3> QED BY <1>7, <3>1, <3>2
    <2>3. [d EXCEPT !.wild = FALSE] = d
      BY <2>1 DEF Kept, ConfType
    <2>4. conf' = d
      BY <2>2, <2>3
    <2> QED BY <1>1, <1>4, <2>1, <2>4 DEF ConfInv
  <1> QED BY <1>3, <1>5, <1>6, <1>7

(* A file that cannot be opened; the default pool is forgotten all the     *)
(* same.                                                                   *)
LEMMA OpenFailsKeeps ==
    ASSUME ConfInv, OpenFails
    PROVE  ConfInv'
  <1> DEFINE d == [conf EXCEPT !.default = NoPoolName]
  <1>1. file \in DOMAIN Files /\ Kept(conf) /\ file' = file /\ instance' = "NULL" /\ conf' = d
    BY DEF ConfInv, OpenFails, ConfFails
  <1>2. conf \in ConfType /\ conf.wild = FALSE /\ NoPoolName \in Text
    BY <1>1 DEF Kept, ConfType, Text
  <1>3. d \in ConfType /\ d.wild = FALSE /\ d.motr_conf = conf.motr_conf
    BY <1>2 DEF ConfType
  <1>4. Kept(d)
    BY <1>1, <1>3 DEF Kept, Freeable
  <1> HIDE DEF d
  <1> QED BY <1>1, <1>4 DEF ConfInv

(* The later stages, and mio_fini, leave the configuration alone or free   *)
(* it with the instance.                                                   *)
LEMMA LaterKeeps ==
    ASSUME ConfInv, file' \in DOMAIN Files, conf' = conf \/ conf' = mio_conf_fini(conf),
           \/ instance' # "set"
           \/ UNCHANGED <<file, conf, instance>> /\ (stage # "out" \/ stage' = "out")
    PROVE  ConfInv'
  <1>1. Kept(conf')
    BY FiniKeeps DEF ConfInv
  <1>2. CASE instance' # "set"
    BY <1>1, <1>2 DEF ConfInv
  <1>3. CASE UNCHANGED <<file, conf, instance>> /\ (stage # "out" \/ stage' = "out")
    <2>1. Doc' = Doc
      BY <1>3 DEF Doc
    <2> QED BY <1>1, <1>3, <2>1 DEF ConfInv
  <1> QED BY <1>2, <1>3

(* The calls of mio_init and mio_fini and the steps of mio_init.           *)
LEMMA InitStepConf ==
    ASSUME ConfInv, InitStep \/ (\E f \in DOMAIN Files : mio_init(f))
    PROVE  ConfInv'
  <1>1. CASE \E f \in DOMAIN Files : mio_init(f)
    BY <1>1, LaterKeeps DEF mio_init
  <1>2. CASE OpenFails
    BY <1>2, OpenFailsKeeps
  <1>3. CASE mio_conf_init
    BY <1>3, ConfInitKeeps
  <1>4. file \in DOMAIN Files
    BY DEF ConfInv
  <1>5. CASE ScanForever
    BY <1>4, <1>5, LaterKeeps DEF ScanForever, initVars
  <1>6. CASE mio_motr_user_perm \/ mio_log_init \/ mio_motr_init
    BY <1>4, <1>6, LaterKeeps DEF mio_motr_user_perm, mio_log_init, mio_motr_init, Pass, InitFails
  <1>7. CASE AttrsLookup \/ AttrsCreate
    BY <1>4, <1>7, LaterKeeps DEF AttrsLookup, AttrsCreate, AttrsFail, Pass, InitFails
  <1>8. CASE mio_telemetry_init
    BY <1>4, <1>8, LaterKeeps DEF mio_telemetry_init, Pass, InitFails
  <1> QED BY <1>1, <1>2, <1>3, <1>5, <1>6, <1>7, <1>8 DEF InitStep

(* mio_fini frees the configuration.                                       *)
LEMMA FiniConf ==
    ASSUME ConfInv, mio_fini
    PROVE  ConfInv'
  BY LaterKeeps DEF mio_fini, ConfInv

(* What leaves the configuration alone.                                    *)
LEMMA SameConf ==
    ASSUME ConfInv, UNCHANGED <<stage, file, conf, instance>>
    PROVE  ConfInv'
  BY LaterKeeps DEF ConfInv

(* The process begins with the static variables as they are.               *)
LEMMA StartConf == InstanceInit => ConfInv
  BY StaticKept DEF InstanceInit, ConfInv

(* The invariant has all that ConfAsDeclared says.                         *)
LEMMA ConfInvSays == ConfInv => ConfAsDeclared
  BY DEF ConfInv, Kept, Declared, DefaultDeclared, ConfAsDeclared, NoWild
==============================================================================
