-------------------------- MODULE MioIndicesProofs --------------------------
(***************************************************************************)
(* Proofs about the key-value set and the composite object of MioIndices,  *)
(* for any number of processes, keys, layers, pairs and calls.             *)
(***************************************************************************)
EXTENDS MioIndices, SequenceTheorems, TLAPS

(***************************************************************************)
(* Composite objects.                                                      *)
(***************************************************************************)
CallType == [at : {"none", "create", "add", "del", "list", "del_pp", "listed"},
             layers : SUBSET Layers, got : SUBSET Layers, since : Nat]

CompTypeOK == /\ layout \in SUBSET Layers /\ sets \in Nat
              /\ call \in [Openers -> CallType]

(* A call that got the layers when the last SET had been made has those    *)
(* that are in Motr; sets numbers the SETs, so that a later SET shows.     *)
CompInv ==
    /\ CompTypeOK
    /\ \A c \in Openers : call[c].since <= sets
    /\ \A c \in Openers : (call[c].at \in {"del_pp", "listed"} /\ call[c].since = sets)
                            => call[c].got = layout

(* No call is a call, and says nothing of the layers.                      *)
LEMMA NoCallType == NoCall \in CallType /\ NoCall.at = "none" /\ NoCall.since = 0
  BY DEF NoCall, CallType

(* At first no call has been made.                                         *)
LEMMA InitComp == IndicesInit => CompInv
  <1> SUFFICES ASSUME IndicesInit PROVE CompInv
    OBVIOUS
  <1>1. CompTypeOK
    BY NoCallType DEF IndicesInit, CompInit, CompTypeOK
  <1>2. \A c \in Openers : call[c] = NoCall
    BY DEF IndicesInit, CompInit
  <1>3. sets = 0
    BY DEF IndicesInit, CompInit
  <1> QED BY <1>1, <1>2, <1>3, NoCallType DEF CompInv

(* A step of the call of c that makes it r: either the layers stay as they *)
(* are, or there is one SET more.                                          *)
Becomes(c, r) ==
    /\ call' = [call EXCEPT ![c] = r]
    /\ layout' \in SUBSET Layers
    /\ (sets' = sets /\ layout' = layout) \/ sets' = sets + 1
    /\ r.since <= sets'
    /\ (r.at \in {"del_pp", "listed"} /\ r.since = sets') => r.got = layout'

(* Such a step keeps the invariant.                                        *)
LEMMA CallStep ==
    ASSUME CompInv, NEW c \in Openers, NEW r \in CallType, Becomes(c, r)
    PROVE  CompInv'
  <1> USE DEF Becomes
  <1>1. CompTypeOK'
    BY DEF CompInv, CompTypeOK
  <1>2. ASSUME NEW d \in Openers PROVE call'[d] = IF d = c THEN r ELSE call[d]
    BY DEF CompInv, CompTypeOK
  <1>3. sets \in Nat /\ \A d \in Openers : call[d].since \in Nat /\ call[d].since <= sets
    BY DEF CompInv, CompTypeOK, CallType
  <1>4. ASSUME NEW d \in Openers PROVE call'[d].since <= sets'
    BY <1>2, <1>3
  <1>5. ASSUME NEW d \in Openers,
               call'[d].at \in {"del_pp", "listed"}, call'[d].since = sets'
        PROVE  call'[d].got = layout'
    <2>1. CASE d = c
      BY <1>2, <1>5, <2>1
    <2>2. CASE d # c
      <3>1. sets' = sets /\ layout' = layout
        BY <1>2, <1>3, <1>5, <2>2
      <3> QED BY <1>2, <1>5, <2>2, <3>1 DEF CompInv
    <2> QED BY <2>1, <2>2
  <1> QED BY <1>1, <1>4, <1>5 DEF CompInv

(* The steps of one process on the composite object.                       *)
LEMMA NextComp == CompInv /\ [IndicesNext]_vars => CompInv'
  <1> SUFFICES ASSUME CompInv, [IndicesNext]_vars PROVE CompInv'
    OBVIOUS
  <1>0. layout \in SUBSET Layers /\ sets \in Nat
    BY DEF CompInv, CompTypeOK
  <1>1. ASSUME NEW c \in Clients, CompCall(c) PROVE CompInv'
    <2>1. c \in Openers
      BY IndicesAssumption
    <2>2. PICK at \in {"create", "add", "del", "list"}, ls \in SUBSET Layers : Call(c, at, ls)
      BY <1>1 DEF CompCall
    <2> DEFINE r == [NoCall EXCEPT !.at = at, !.layers = ls]
    <2>3. r \in CallType /\ r.at = at /\ r.since = 0
      BY DEF NoCall, CallType
    <2>4. call' = [call EXCEPT ![c] = r] /\ UNCHANGED <<layout, sets>>
      BY <2>2 DEF Call
    <2> HIDE DEF r
    <2>5. Becomes(c, r)
      BY <1>0, <2>3, <2>4 DEF Becomes
    <2> QED BY <2>1, <2>3, <2>5, CallStep
  <1>2. ASSUME NEW c \in Clients, CompStep(c) PROVE CompInv'
    <2>1. c \in Openers /\ call[c] \in CallType
      BY IndicesAssumption DEF CompInv, CompTypeOK
    <2>2. call[c].layers \in SUBSET Layers /\ call[c].got \in SUBSET Layers
      BY <2>1 DEF CallType
    <2>3. CASE \/ mio_motr_comp_obj_create(c) \/ mio_motr_comp_obj_add_layers(c)
               \/ motr_comp_obj_del_layers_pp(c)
      <3>1. /\ call' = [call EXCEPT ![c] = NoCall] /\ sets' = sets + 1
            /\ layout' \in SUBSET Layers
        BY <2>2, <2>3 DEF mio_motr_comp_obj_create, mio_motr_comp_obj_add_layers,
                          motr_comp_obj_del_layers_pp, LayoutSet, Return
      <3>2. Becomes(c, NoCall)
        BY <1>0, <3>1, NoCallType DEF Becomes
      <3> QED BY <2>1, <3>2, NoCallType, CallStep
    <2>4. CASE motr_comp_obj_get_layers(c)
      <3> DEFINE r == [call[c] EXCEPT !.at = IF call[c].at = "del" THEN "del_pp" ELSE "listed",
                                      !.got = layout, !.since = sets]
      <3>1. r \in CallType /\ r.since = sets /\ r.got = layout
        BY <1>0, <2>1 DEF CallType
      <3>2. call' = [call EXCEPT ![c] = r] /\ UNCHANGED <<layout, sets>>
        BY <2>4 DEF motr_comp_obj_get_layers
      <3> HIDE DEF r
      <3>3. Becomes(c, r)
        BY <1>0, <3>1, <3>2 DEF Becomes
      <3> QED BY <2>1, <3>1, <3>3, CallStep
    <2>5. CASE motr_comp_obj_list_layers_pp(c) \/ CompFails(c)
      <3>1. call' = [call EXCEPT ![c] = NoCall] /\ UNCHANGED <<layout, sets>>
        BY <2>5 DEF motr_comp_obj_list_layers_pp, CompFails, Return
      <3>2. Becomes(c, NoCall)
        BY <1>0, <3>1, NoCallType DEF Becomes
      <3> QED BY <2>1, <3>2, NoCallType, CallStep
    <2> QED BY <1>2, <2>3, <2>4, <2>5 DEF CompStep
  <1>3. CASE UNCHANGED compvars
    BY <1>3 DEF compvars, CompInv, CompTypeOK
  <1> QED BY <1>1, <1>2, <1>3 DEF IndicesNext, KvsCall, KvsStep, vars

(* What LayersChanged says of a step of the call of c.                     *)
ChangedBy(c) == (call'[c].at = "none" /\ sets' # sets) =>
    /\ call[c].at = "add" => layout' = call[c].layers
    /\ call[c].at = "del_pp" =>
         /\ layout' \cap call[c].layers = {}
         /\ call[c].since = sets => layout' = layout \ call[c].layers

(* An addition that takes effect replaces the layers by the ones it names; *)
(* a deletion that does takes out the ones it names, and nothing else if   *)
(* no SET came between its GET and its SET.  So it is for any number of    *)
(* processes whose calls may fail at any step.                             *)
THEOREM ChangesAreMade == IndicesSpec => LayersChanged
  <1>1. ASSUME CompInv, [IndicesNext]_vars, NEW c \in Openers PROVE ChangedBy(c)
    <2> SUFFICES ASSUME call[c].at \in {"add", "del_pp"}, call'[c].at = "none", sets' # sets
                 PROVE  ChangedBy(c)
      BY DEF ChangedBy
    <2>1. PICK d \in Clients : CompStep(d)
      BY <1>1 DEF IndicesNext, KvsCall, KvsStep, CompCall, Call, compvars, vars
    <2>2. \E r : call' = [call EXCEPT ![d] = r]
      BY <2>1 DEF CompStep, mio_motr_comp_obj_create, mio_motr_comp_obj_add_layers,
             motr_comp_obj_get_layers, motr_comp_obj_del_layers_pp,
             motr_comp_obj_list_layers_pp, CompFails, Return
    <2>3. d = c
      BY <1>1, <2>2 DEF CompInv, CompTypeOK
    <2>4. CASE call[c].at = "add"
      <3>1. mio_motr_comp_obj_add_layers(c)
        BY <2>1, <2>3, <2>4 DEF CompStep, mio_motr_comp_obj_create, CompFails,
               motr_comp_obj_get_layers, motr_comp_obj_del_layers_pp,
               motr_comp_obj_list_layers_pp
      <3>2. layout' = call[c].layers
        BY <3>1 DEF mio_motr_comp_obj_add_layers, LayoutSet
      <3> QED BY <2>4, <3>2 DEF ChangedBy
    <2>5. CASE call[c].at = "del_pp"
      <3>1. motr_comp_obj_del_layers_pp(c)
        BY <2>1, <2>3, <2>5 DEF CompStep, mio_motr_comp_obj_create, CompFails,
               mio_motr_comp_obj_add_layers, motr_comp_obj_get_layers,
               motr_comp_obj_list_layers_pp
      <3>2. layout' = call[c].got \ call[c].layers
        BY <3>1 DEF motr_comp_obj_del_layers_pp, LayoutSet
      <3>3. call[c].since = sets => call[c].got = layout
        BY <1>1, <2>5 DEF CompInv
      <3> QED BY <2>5, <3>2, <3>3 DEF ChangedBy
    <2> QED BY <2>4, <2>5
  <1>2. CompInv /\ [IndicesNext]_vars => [\A c \in Openers : ChangedBy(c)]_compvars
    BY <1>1
  <1> QED BY <1>2, InitComp, NextComp, PTL DEF IndicesSpec, LayersChanged, ChangedBy

(***************************************************************************)
(* Listings of the key-value set.                                          *)
(***************************************************************************)
ToolType == [at : {"idle", "gone", "put", "get", "del", "next", "end"},
             start : Nat, kno : Nat, nr : Nat, done : SUBSET Nat,
             first : BOOLEAN, listed : Seq(Nat), garbled : BOOLEAN]

KvsTypeOK == /\ set \in [there : BOOLEAN, keys : SUBSET Knos]
             /\ tool \in [Clients -> ToolType]
             /\ stay \in [Clients -> SUBSET Knos]

Increasing(l) == \A i, j \in DOMAIN l : i < j => Rank(l[i]) < Rank(l[j])
Above(l, k)   == \A i \in DOMAIN l : Rank(l[i]) < Rank(k)
Lists(l, k)   == \E i \in DOMAIN l : l[i] = k

(* A listing t none of whose queries failed, with the keys ks that were    *)
(* there all the time: what ListComplete says of it, and where the next    *)
(* query starts, which is after the last key of what is listed.            *)
Listing(t, ks) ==
    (t.at \in {"next", "end"} /\ ~t.garbled) =>
      /\ t.start \in Knos /\ t.kno \in Knos /\ t.listed \in Seq(Knos)
      /\ Increasing(t.listed)
      /\ \A i \in DOMAIN t.listed : Rank(t.listed[i]) >= Rank(t.start)
      /\ ks \subseteq From(t.start)
      /\ \A k \in ks : Lists(t.listed, k) \/ (t.at = "next" /\ Above(t.listed, k))
      /\ t.at = "next" =>
           IF t.first THEN t.listed = <<>> /\ t.kno = t.start
           ELSE t.listed # <<>> /\ t.kno = t.listed[Len(t.listed)]

KvsInv == /\ KvsTypeOK
          /\ set.there \/ set.keys = {}
          /\ \A c \in Clients : stay[c] \subseteq set.keys /\ Listing(tool[c], stay[c])

(* A serial number is found at its place in the order of the strings, so   *)
(* that two of them have two places.                                       *)
LEMMA RankOf == ASSUME NEW k \in Knos PROVE Rank(k) \in Nat /\ KeyOrder[Rank(k)] = k
  <1>1. PICK i \in DOMAIN KeyOrder : KeyOrder[i] = k
    BY DEF Knos
  <1>2. Rank(k) \in DOMAIN KeyOrder /\ KeyOrder[Rank(k)] = k
    BY <1>1 DEF Rank
  <1>3. DOMAIN KeyOrder = 1..Len(KeyOrder)
    BY KvsAssumption
  <1> QED BY <1>2, <1>3

(* Serial numbers are numbers.                                             *)
LEMMA KnosNat == Knos \subseteq Nat
  BY KvsAssumption DEF Knos

(* A query returns keys of the set, not more than asked for.               *)
LEMMA NextSeq ==
    ASSUME NEW start, NEW exclude, NEW n \in Nat, set.keys \subseteq Knos,
           NEW ks \in mio_motr_kvs_next(start, exclude, n)
    PROVE  ks \in Seq(Knos) /\ ks \in Seq(Nat) /\ Len(ks) <= n
  <1>1. PICK m \in 0..n : ks \in [1..m -> KeysFrom(start, exclude)]
    BY DEF mio_motr_kvs_next
  <1>2. KeysFrom(start, exclude) \subseteq Knos
    BY DEF KeysFrom
  <1>3. ks \in [1..m -> Knos] /\ ks \in [1..m -> Nat]
    BY <1>1, <1>2, KnosNat
  <1> QED BY <1>1, <1>3

(* What a query returns.                                                   *)
LEMMA NextKeys ==
    ASSUME NEW start \in Knos, NEW exclude \in BOOLEAN, NEW n \in Nat, set.keys \subseteq Knos,
           NEW ks \in mio_motr_kvs_next(start, exclude, n)
    PROVE  /\ ks \in Seq(Knos) /\ Len(ks) <= n /\ Increasing(ks)
           /\ \A i \in DOMAIN ks : /\ Rank(ks[i]) >= Rank(start)
                                   /\ exclude => Rank(ks[i]) > Rank(start)
           /\ \A k \in KeysFrom(start, exclude) : Lists(ks, k) \/ (Len(ks) = n /\ Above(ks, k))
  <1> DEFINE all == KeysFrom(start, exclude)
  <1>1. PICK m \in 0..n : ks \in [1..m -> all]
    BY DEF mio_motr_kvs_next
  <1>2. all \subseteq Knos
    BY DEF KeysFrom
  <1>3. ks \in Seq(Knos) /\ Len(ks) = m /\ DOMAIN ks = 1..m
    BY <1>1, <1>2
  <1>4. ASSUME NEW i \in DOMAIN ks
        PROVE  Rank(ks[i]) >= Rank(start) /\ (exclude => Rank(ks[i]) > Rank(start))
    <2>1. ks[i] \in all
      BY <1>1, <1>3, <1>4
    <2>2. ks[i] \in Knos /\ Rank(ks[i]) >= Rank(start) /\ (exclude => ks[i] # start)
      BY <2>1 DEF KeysFrom, From
    <2>3. exclude => Rank(ks[i]) # Rank(start)
      BY <2>2, RankOf
    <2>4. Rank(ks[i]) \in Nat /\ Rank(start) \in Nat
      BY <2>2, RankOf
    <2> QED BY <2>2, <2>3, <2>4
  <1>5. /\ Increasing(ks)
        /\ \A k \in all : Lists(ks, k) \/ (Len(ks) = n /\ Above(ks, k))
    BY DEF mio_motr_kvs_next, Increasing, Lists, Above
  <1> QED BY <1>1, <1>3, <1>4, <1>5

(* A listing l from start, whose next query starts at kno.                 *)
SoFar(l, start, kno, first) ==
    /\ Increasing(l)
    /\ \A i \in DOMAIN l : Rank(l[i]) >= Rank(start)
    /\ first => l = <<>> /\ kno = start
    /\ ~first => l # <<>> /\ kno = l[Len(l)]

(* The answer ks to a query of n of the keys in from.                      *)
Answer(ks, kno, first, from, n) ==
    /\ Increasing(ks)
    /\ \A i \in DOMAIN ks : /\ Rank(ks[i]) >= Rank(kno)
                            /\ ~first => Rank(ks[i]) > Rank(kno)
    /\ \A k \in from : Lists(ks, k) \/ (Len(ks) = n /\ Above(ks, k))

(* The keys st that were there all the time, which the query can find      *)
(* unless the listing has passed them.                                     *)
Pending(st, l, start, kno, first, from) ==
    \A k \in st : /\ k \in Knos /\ Rank(k) >= Rank(start)
                  /\ Lists(l, k) \/ Above(l, k)
                  /\ (Rank(k) >= Rank(kno) /\ (~first => k # kno)) => k \in from

(* The listing L with the answer ks to a query of n at its end.            *)
Extended(L, ks, start, st, n) ==
    /\ L \in Seq(Knos) /\ Increasing(L)
    /\ \A i \in DOMAIN L : Rank(L[i]) >= Rank(start)
    /\ \A k \in st : Lists(L, k) \/ (Len(ks) = n /\ Above(L, k))
    /\ Len(ks) > 0 => L # <<>> /\ L[Len(L)] = ks[Len(ks)]

(* The listing of a query, ks, is added to the listing so far, l.          *)
LEMMA ListOn ==
    ASSUME NEW start \in Knos, NEW kno \in Knos, NEW first \in BOOLEAN,
           NEW l \in Seq(Knos), NEW ks \in Seq(Knos), NEW n \in Nat, NEW st,
           NEW from \in SUBSET Knos,
           SoFar(l, start, kno, first), Answer(ks, kno, first, from, n),
           Pending(st, l, start, kno, first, from)
    PROVE  Extended(l \o ks, ks, start, st, n)
  <1> DEFINE L == l \o ks
  <1>1. /\ Increasing(l)
        /\ \A i \in DOMAIN l : Rank(l[i]) >= Rank(start)
        /\ first => l = <<>> /\ kno = start
        /\ ~first => l # <<>> /\ kno = l[Len(l)]
    BY DEF SoFar
  <1>2. /\ Increasing(ks)
        /\ \A i \in DOMAIN ks : /\ Rank(ks[i]) >= Rank(kno)
                                /\ ~first => Rank(ks[i]) > Rank(kno)
    BY DEF Answer
  <1>4. /\ L \in Seq(Knos) /\ Len(L) = Len(l) + Len(ks)
        /\ \A i \in DOMAIN l : L[i] = l[i]
        /\ \A i \in DOMAIN ks : L[Len(l) + i] = ks[i]
    OBVIOUS
  <1> HIDE DEF L
  <1>5. /\ Len(l) \in Nat /\ \A i : i \in DOMAIN l <=> i \in Nat /\ 1 <= i /\ i <= Len(l)
        /\ Len(ks) \in Nat /\ \A i : i \in DOMAIN ks <=> i \in Nat /\ 1 <= i /\ i <= Len(ks)
        /\ Len(L) \in Nat /\ \A i : i \in DOMAIN L <=> i \in Nat /\ 1 <= i /\ i <= Len(L)
    BY <1>4
  <1>6. /\ \A i \in DOMAIN l : l[i] \in Knos /\ Rank(l[i]) \in Nat
        /\ \A i \in DOMAIN ks : ks[i] \in Knos /\ Rank(ks[i]) \in Nat
        /\ Rank(start) \in Nat /\ Rank(kno) \in Nat
    BY RankOf
  <1>7. \A i \in DOMAIN l : ~first /\ Rank(l[i]) <= Rank(kno)
    <2> SUFFICES ASSUME NEW i \in DOMAIN l PROVE ~first /\ Rank(l[i]) <= Rank(kno)
      OBVIOUS
    <2>1. l # <<>> /\ ~first /\ kno = l[Len(l)] /\ Len(l) \in DOMAIN l
      BY <1>1, <1>5
    <2>2. i < Len(l) \/ i = Len(l)
      BY <1>5
    <2> QED BY <1>1, <1>6, <2>1, <2>2 DEF Increasing
  <1>8. Rank(kno) >= Rank(start)
    <2>1. CASE first
      BY <1>1, <1>6, <2>1
    <2>2. CASE ~first
      BY <1>1, <1>5, <2>2
    <2> QED BY <2>1, <2>2
  <1>9. ASSUME NEW i \in DOMAIN L
        PROVE  \/ i \in DOMAIN l /\ L[i] = l[i]
               \/ /\ i - Len(l) \in DOMAIN ks /\ L[i] = ks[i - Len(l)]
                  /\ i > Len(l)
    <2>1. CASE i <= Len(l)
      BY <1>4, <1>5, <2>1
    <2>2. CASE i > Len(l)
      <3>1. i - Len(l) \in DOMAIN ks /\ Len(l) + (i - Len(l)) = i
        BY <1>4, <1>5, <2>2
      <3> QED BY <1>4, <1>5, <2>2, <3>1
    <2> QED BY <1>5, <2>1, <2>2
  <1>10. Increasing(L)
    <2> SUFFICES ASSUME NEW i \in DOMAIN L, NEW j \in DOMAIN L, i < j
                 PROVE  Rank(L[i]) < Rank(L[j])
      BY DEF Increasing
    <2>1. CASE j \in DOMAIN l /\ L[j] = l[j]
      <3>1. i \in DOMAIN l /\ L[i] = l[i]
        BY <1>4, <1>5, <2>1
      <3> QED BY <1>1, <2>1, <3>1 DEF Increasing
    <2>2. CASE j - Len(l) \in DOMAIN ks /\ L[j] = ks[j - Len(l)] /\ j > Len(l)
      <3>1. CASE i \in DOMAIN l /\ L[i] = l[i]
        BY <1>2, <1>6, <1>7, <2>2, <3>1
      <3>2. CASE i - Len(l) \in DOMAIN ks /\ L[i] = ks[i - Len(l)]
        <4>1. i - Len(l) < j - Len(l)
          BY <1>5
        <4> QED BY <1>2, <2>2, <3>2, <4>1 DEF Increasing
      <3> QED BY <1>9, <3>1, <3>2
    <2> QED BY <1>9, <2>1, <2>2
  <1>11. ASSUME NEW i \in DOMAIN L PROVE Rank(L[i]) >= Rank(start)
    BY <1>1, <1>2, <1>6, <1>8, <1>9
  <1>12. ASSUME NEW k, Lists(l, k) \/ Lists(ks, k) PROVE Lists(L, k)
    <2>1. CASE Lists(l, k)
      <3>1. PICK i \in DOMAIN l : l[i] = k
        BY <2>1 DEF Lists
      <3>2. i \in DOMAIN L /\ L[i] = k
        BY <1>4, <1>5, <3>1
      <3> QED BY <3>2 DEF Lists
    <2>2. CASE Lists(ks, k)
      <3>1. PICK i \in DOMAIN ks : ks[i] = k
        BY <2>2 DEF Lists
      <3>2. Len(l) + i \in DOMAIN L /\ L[Len(l) + i] = k
        BY <1>4, <1>5, <3>1
      <3> QED BY <3>2 DEF Lists
    <2> QED BY <1>12, <2>1, <2>2
  <1>13. ASSUME NEW k \in st PROVE Lists(L, k) \/ (Len(ks) = n /\ Above(L, k))
    <2>1. CASE Lists(l, k)
      BY <1>12, <2>1
    <2>2. CASE Above(l, k)
      <3>1. k \in Knos /\ Rank(k) \in Nat /\ Rank(k) >= Rank(start)
        BY RankOf DEF Pending
      <3>2. ~first => Rank(k) > Rank(kno)
        BY <1>1, <1>5, <1>6, <2>2, <3>1 DEF Above
      <3>3. Rank(k) >= Rank(kno) /\ (~first => k # kno)
        BY <1>1, <1>6, <3>1, <3>2
      <3>4. k \in from
        BY <3>3 DEF Pending
      <3>5. CASE Lists(ks, k)
        BY <1>12, <3>5
      <3>6. CASE Len(ks) = n /\ Above(ks, k)
        BY <1>9, <2>2, <3>6 DEF Above
      <3> QED BY <3>4, <3>5, <3>6 DEF Answer
    <2> QED BY <2>1, <2>2 DEF Pending
  <1>14. ASSUME Len(ks) > 0 PROVE L # <<>> /\ L[Len(L)] = ks[Len(ks)]
    <2>1. Len(ks) \in DOMAIN ks
      BY <1>5, <1>14
    <2>2. L[Len(l) + Len(ks)] = ks[Len(ks)]
      BY <1>4, <2>1
    <2>3. Len(L) > 0
      BY <1>4, <1>5, <1>14
    <2> QED BY <1>4, <2>2, <2>3
  <1> QED BY <1>4, <1>10, <1>11, <1>13, <1>14 DEF L, Extended

(* A tool r that has listed ks after t.                                    *)
HasListed(r, t, ks, n) ==
    /\ r.at = IF Len(ks) = n THEN "next" ELSE "end"
    /\ r.start = t.start /\ r.first = FALSE /\ r.garbled = t.garbled
    /\ r.listed = t.listed \o ks
    /\ r.kno = IF ks = <<>> THEN t.kno ELSE ks[Len(ks)]

(* A listing that has got ks from a query of n goes on as it should.       *)
LEMMA QueryStep ==
    ASSUME KvsTypeOK, NEW t \in ToolType, NEW r \in ToolType,
           NEW st \in SUBSET set.keys, Listing(t, st), t.at = "next",
           NEW n \in Nat \ {0}, NEW ks \in mio_motr_kvs_next(t.kno, ~t.first, n),
           HasListed(r, t, ks, n)
    PROVE  Listing(r, st)
  <1> SUFFICES ASSUME ~t.garbled
               PROVE  /\ r.start \in Knos /\ r.kno \in Knos /\ r.listed \in Seq(Knos)
                      /\ Increasing(r.listed)
                      /\ \A i \in DOMAIN r.listed : Rank(r.listed[i]) >= Rank(r.start)
                      /\ st \subseteq From(r.start)
                      /\ \A k \in st : Lists(r.listed, k) \/ (r.at = "next" /\ Above(r.listed, k))
                      /\ r.at = "next" => r.listed # <<>> /\ r.kno = r.listed[Len(r.listed)]
    BY DEF Listing, HasListed
  <1>1. /\ t.start \in Knos /\ t.kno \in Knos /\ t.listed \in Seq(Knos)
        /\ st \subseteq From(t.start)
        /\ \A k \in st : Lists(t.listed, k) \/ Above(t.listed, k)
        /\ SoFar(t.listed, t.start, t.kno, t.first)
    BY DEF Listing, SoFar, ToolType
  <1>2. t.first \in BOOLEAN /\ set.keys \subseteq Knos /\ n \in Nat
    BY DEF ToolType, KvsTypeOK
  <1>3. ks \in Seq(Knos) /\ Len(ks) <= n
    BY <1>1, <1>2, NextKeys
  <1>4. Answer(ks, t.kno, t.first, KeysFrom(t.kno, ~t.first), n)
    BY <1>1, <1>2, NextKeys DEF Answer
  <1>5. /\ KeysFrom(t.kno, ~t.first) \in SUBSET Knos
        /\ Pending(st, t.listed, t.start, t.kno, t.first, KeysFrom(t.kno, ~t.first))
    BY <1>1, <1>2 DEF From, KeysFrom, Pending
  <1>6. Extended(t.listed \o ks, ks, t.start, st, n)
    BY <1>1, <1>2, <1>3, <1>4, <1>5, ListOn
  <1>7. r.kno \in Knos
    BY <1>1, <1>3 DEF HasListed
  <1>8. r.at = "next" => r.listed # <<>> /\ r.kno = r.listed[Len(r.listed)]
    BY <1>3, <1>6 DEF Extended, HasListed
  <1> QED BY <1>1, <1>6, <1>7, <1>8 DEF Extended, HasListed

(* A process that runs no tool lists nothing.                              *)
LEMMA IdleType == /\ Idle \in ToolType /\ Idle.at = "idle" /\ Gone \in ToolType /\ Gone.at = "gone"
                  /\ \A st : Listing(Idle, st) /\ Listing(Gone, st)
  <1>1. Idle \in ToolType /\ Idle.at = "idle"
    BY DEF Idle, ToolType
  <1>2. Gone \in ToolType /\ Gone.at = "gone"
    BY <1>1 DEF Gone, ToolType
  <1> QED BY <1>1, <1>2 DEF Listing

(* At first no tool runs.                                                  *)
LEMMA InitKvs == IndicesInit => KvsInv
  <1> SUFFICES ASSUME IndicesInit PROVE KvsInv
    OBVIOUS
  <1>1. /\ set \in [there : BOOLEAN, keys : SUBSET Knos]
        /\ set.there \/ set.keys = {}
    <2>1. CASE set = NoSet
      BY <2>1 DEF NoSet
    <2>2. CASE set \in [there : {TRUE}, keys : SUBSET Knos]
      BY <2>2
    <2> QED BY <2>1, <2>2 DEF IndicesInit, KvsInit
  <1>2. /\ tool = [c \in Clients |-> Idle]
        /\ stay = [c \in Clients |-> {}]
    BY DEF IndicesInit, KvsInit
  <1>3. tool \in [Clients -> ToolType] /\ stay \in [Clients -> SUBSET Knos]
    BY <1>2, IdleType
  <1>4. ASSUME NEW c \in Clients PROVE stay[c] = {} /\ tool[c] = Idle
    BY <1>2
  <1> QED BY <1>1, <1>3, <1>4, IdleType DEF KvsInv, KvsTypeOK

(* A step of one process, which leaves the keys alone, makes its tool r    *)
(* and the keys that it should find st.                                    *)
LEMMA ToolStep ==
    ASSUME KvsInv, NEW c \in Clients, NEW r \in ToolType, NEW st \in SUBSET set.keys,
           tool' = [tool EXCEPT ![c] = r], stay' = [stay EXCEPT ![c] = st],
           set' = set, Listing(r, st)
    PROVE  KvsInv'
  <1>1. KvsTypeOK'
    BY DEF KvsInv, KvsTypeOK
  <1>2. ASSUME NEW d \in Clients
        PROVE  /\ tool'[d] = IF d = c THEN r ELSE tool[d]
               /\ stay'[d] = IF d = c THEN st ELSE stay[d]
    BY DEF KvsInv, KvsTypeOK
  <1>3. ASSUME NEW d \in Clients
        PROVE  stay'[d] \subseteq set'.keys /\ Listing(tool'[d], stay'[d])
    BY <1>2 DEF KvsInv
  <1> QED BY <1>1, <1>3 DEF KvsInv, Listing

(* A listing may be without fewer keys.                                    *)
LEMMA FewerKeys ==
    ASSUME NEW t \in ToolType, NEW st, NEW fewer \in SUBSET st, Listing(t, st)
    PROVE  Listing(t, fewer)
  BY DEF Listing

(* A call on the set or the start of a tool.                               *)
LEMMA KvsCallStep == ASSUME KvsInv, NEW c \in Clients, KvsCall(c) PROVE KvsInv'
  <1>0. /\ KvsTypeOK /\ set \in [there : BOOLEAN, keys : SUBSET Knos]
        /\ tool \in [Clients -> ToolType] /\ stay \in [Clients -> SUBSET Knos]
        /\ set.there \/ set.keys = {}
        /\ \A d \in Clients : stay[d] \subseteq set.keys /\ Listing(tool[d], stay[d])
    BY DEF KvsInv, KvsTypeOK
  <1>1. CASE mio_kvs_create_set(c)
    <2>1. set' = [there |-> TRUE, keys |-> {}] /\ tool' = tool /\ stay' = stay /\ set.keys = {}
      BY <1>0, <1>1 DEF mio_kvs_create_set
    <2> QED BY <1>0, <2>1 DEF KvsInv, KvsTypeOK
  <1>2. CASE mio_kvs_del_set(c)
    <2>1. set' = NoSet /\ tool' = tool /\ stay' = [d \in Clients |-> {}]
      BY <1>2 DEF mio_kvs_del_set
    <2>2. \A d \in Clients : Listing(tool'[d], stay'[d]) /\ stay'[d] = {}
      BY <1>0, <2>1, FewerKeys
    <2>3. set'.keys = {} /\ set' \in [there : BOOLEAN, keys : SUBSET Knos]
      BY <2>1 DEF NoSet
    <2>4. stay' \in [Clients -> SUBSET Knos]
      BY <2>1
    <2> QED BY <1>0, <2>1, <2>2, <2>3, <2>4 DEF KvsInv, KvsTypeOK
  <1>3. ASSUME NEW at \in {"put", "get", "del", "next"}, NEW kno \in Knos, NEW nr \in 1..MaxPairs,
               RunTool(c, at, kno, nr)
        PROVE  KvsInv'
    <2> DEFINE r  == [Idle EXCEPT !.at = at, !.start = kno, !.kno = kno, !.nr = nr]
               st == IF at = "next" THEN set.keys \cap From(kno) ELSE {}
    <2>1. nr \in Nat /\ kno \in Nat
      BY IndicesAssumption, KnosNat
    <2>2. /\ r \in ToolType /\ r.at = at /\ r.start = kno /\ r.kno = kno
          /\ r.first = TRUE /\ r.listed = <<>>
      <3>1. Idle.first = TRUE /\ Idle.listed = <<>>
        BY DEF Idle
      <3> QED BY <2>1, <3>1, IdleType DEF ToolType
    <2>3. /\ tool' = [tool EXCEPT ![c] = r] /\ stay' = [stay EXCEPT ![c] = st]
          /\ set' = set
      BY <1>3 DEF RunTool
    <2> HIDE DEF r
    <2>4. Listing(r, st)
      <3>1. CASE at = "next"
        <4>1. Increasing(r.listed) /\ \A k : Above(r.listed, k)
          BY <2>2 DEF Increasing, Above
        <4>2. /\ r.listed \in Seq(Knos) /\ r.listed = <<>>
              /\ \A i \in DOMAIN r.listed : Rank(r.listed[i]) >= Rank(r.start)
          BY <2>2
        <4> QED BY <2>2, <3>1, <4>1, <4>2 DEF Listing
      <3>2. CASE at # "next"
        BY <2>2, <3>2 DEF Listing
      <3> QED BY <3>1, <3>2
    <2> QED BY <1>0, <2>2, <2>3, <2>4, ToolStep
  <1> QED BY <1>1, <1>2, <1>3 DEF KvsCall

(* What the steps of a tool make of it is a tool.                          *)
LEMMA RestType ==
    ASSUME NEW t \in ToolType, NEW n \in Nat, n <= t.nr
    PROVE  BatchRest(t, n) \in ToolType /\ BatchRest(t, n).at = t.at
  <1>1. t.nr - n \in Nat /\ t.kno + n \in Nat
    BY DEF ToolType
  <1> QED BY <1>1 DEF ToolType, BatchRest

(* kvs_query_next's next state is a tool as well, with the keys it was     *)
(* given appended to what it has listed.                                   *)
LEMMA QueriedType ==
    ASSUME NEW t \in ToolType, NEW n \in Nat, n <= t.nr, NEW ks \in Seq(Nat),
           NEW r, r = Queried(t, ks, n)
    PROVE  r \in ToolType /\ HasListed(r, t, ks, n)
  <1>1. t.nr - n \in Nat /\ t.listed \o ks \in Seq(Nat)
    BY DEF ToolType
  <1>2. (IF ks = <<>> THEN t.kno ELSE ks[Len(ks)]) \in Nat
    BY DEF ToolType
  <1>3. (IF Len(ks) = n THEN "next" ELSE "end") \in {"next", "end"}
    OBVIOUS
  <1> QED BY <1>1, <1>2, <1>3 DEF ToolType, Queried, HasListed

(* A query that has been answered leaves a listing.                        *)
LEMMA QueriedListing ==
    ASSUME KvsTypeOK, NEW t \in ToolType, NEW st \in SUBSET set.keys, Listing(t, st),
           t.at = "next", NEW n \in Nat \ {0}, n <= t.nr,
           NEW ks \in mio_motr_kvs_next(t.kno, ~t.first, n)
    PROVE  Queried(t, ks, n) \in ToolType /\ Listing(Queried(t, ks, n), st)
  <1>0. PICK r : r = Queried(t, ks, n)
    OBVIOUS
  <1>1. set.keys \subseteq Knos /\ n \in Nat
    BY DEF KvsTypeOK
  <1>2. ks \in Seq(Nat)
    BY <1>1, NextSeq
  <1>3. r \in ToolType /\ HasListed(r, t, ks, n)
    BY <1>0, <1>1, <1>2, QueriedType
  <1>4. Listing(r, st)
    BY <1>3, QueryStep
  <1> QED BY <1>0, <1>3, <1>4

(* A key of a batch is served: the keys change, and a deleted key is one   *)
(* that no listing has to find any more.                                   *)
LEMMA ServeStep ==
    ASSUME KvsInv, NEW c \in Clients, NEW k \in Knos, NEW keys \in SUBSET Knos,
           tool[c].at \in {"put", "get", "del"}, Serve(c, k),
           set' = [set EXCEPT !.keys = keys],
           stay' \in [Clients -> SUBSET Knos],
           \A d \in Clients : stay'[d] \subseteq stay[d] /\ stay'[d] \subseteq keys
    PROVE  KvsInv'
  <1> DEFINE r == [tool[c] EXCEPT !.done = @ \cup {k}]
  <1>0. /\ set \in [there : BOOLEAN, keys : SUBSET Knos] /\ set.there
        /\ tool \in [Clients -> ToolType]
        /\ \A d \in Clients : Listing(tool[d], stay[d])
    BY DEF KvsInv, KvsTypeOK, Serve
  <1>1. tool[c] \in ToolType /\ k \in Nat
    BY <1>0, KnosNat
  <1>2. r \in ToolType /\ r.at = tool[c].at
    BY <1>1 DEF ToolType
  <1>3. tool' = [tool EXCEPT ![c] = r]
    BY DEF Serve
  <1> HIDE DEF r
  <1>4. set' \in [there : BOOLEAN, keys : SUBSET Knos] /\ set'.there /\ set'.keys = keys
    BY <1>0
  <1>5. tool' \in [Clients -> ToolType]
    BY <1>0, <1>2, <1>3
  <1>6. ASSUME NEW d \in Clients PROVE Listing(tool'[d], stay'[d])
    <2>1. CASE d = c
      <3>1. tool'[d] = r
        BY <1>0, <1>3, <2>1
      <3> QED BY <1>2, <3>1 DEF Listing
    <2>2. CASE d # c
      <3>1. tool'[d] = tool[d] /\ tool[d] \in ToolType
        BY <1>0, <1>3, <2>2
      <3> QED BY <1>0, <3>1, FewerKeys
    <2> QED BY <2>1, <2>2
  <1> QED BY <1>4, <1>5, <1>6 DEF KvsInv, KvsTypeOK

(* The steps of the tools.                                                 *)
LEMMA KvsStepStep == ASSUME KvsInv, NEW c \in Clients, KvsStep(c) PROVE KvsInv'
  <1>0. /\ KvsTypeOK /\ set \in [there : BOOLEAN, keys : SUBSET Knos]
        /\ tool \in [Clients -> ToolType] /\ stay \in [Clients -> SUBSET Knos]
        /\ \A d \in Clients : stay[d] \subseteq set.keys /\ Listing(tool[d], stay[d])
        /\ tool[c] \in ToolType /\ stay[c] \in SUBSET set.keys
    BY DEF KvsInv, KvsTypeOK
  <1>1. ASSUME NEW k \in Knos, mio_motr_kvs_put(c, k) PROVE KvsInv'
    <2>1. /\ tool[c].at = "put" /\ Serve(c, k) /\ stay' = stay
          /\ set' = [set EXCEPT !.keys = set.keys \cup {k}]
      BY <1>1 DEF mio_motr_kvs_put
    <2>2. \A d \in Clients : stay'[d] \subseteq set.keys \cup {k} /\ stay'[d] \subseteq stay[d]
      BY <1>0, <2>1
    <2> QED BY <1>0, <2>1, <2>2, ServeStep
  <1>2. ASSUME NEW k \in Knos, mio_motr_kvs_get(c, k) PROVE KvsInv'
    <2>1. /\ tool[c].at = "get" /\ Serve(c, k) /\ stay' = stay
          /\ set' = [set EXCEPT !.keys = set.keys]
      BY <1>0, <1>2 DEF mio_motr_kvs_get
    <2>2. \A d \in Clients : stay'[d] \subseteq set.keys /\ stay'[d] \subseteq stay[d]
      BY <1>0, <2>1
    <2> QED BY <1>0, <2>1, <2>2, ServeStep
  <1>3. ASSUME NEW k \in Knos, mio_motr_kvs_del(c, k) PROVE KvsInv'
    <2>1. /\ tool[c].at = "del" /\ Serve(c, k)
          /\ set' = [set EXCEPT !.keys = set.keys \ {k}]
          /\ stay' = [d \in Clients |-> stay[d] \ {k}]
      BY <1>3 DEF mio_motr_kvs_del
    <2>2. \A d \in Clients : stay'[d] \subseteq set.keys \ {k} /\ stay'[d] \subseteq stay[d]
      BY <1>0, <2>1
    <2> QED BY <1>0, <2>1, <2>2, ServeStep
  <1>4. ASSUME NEW r \in ToolType, tool' = [tool EXCEPT ![c] = r], UNCHANGED <<set, stay>>,
               Listing(r, stay[c])
        PROVE  KvsInv'
    <2>1. stay' = [stay EXCEPT ![c] = stay[c]] /\ set' = set
      BY <1>0, <1>4
    <2> QED BY <1>0, <1>4, <2>1, ToolStep
  <1>5. NrPairsOp(c) \in Nat /\ NrPairsOp(c) <= tool[c].nr /\ tool[c].nr \in Nat
    BY <1>0, KvsAssumption DEF ToolType, NrPairsOp
  <1>6. CASE BatchDone(c)
    <2> DEFINE r == BatchRest(tool[c], NrPairsOp(c))
    <2>1. r \in ToolType /\ r.at = tool[c].at
      BY <1>0, <1>5, RestType
    <2>2. /\ tool' = [tool EXCEPT ![c] = IF tool[c].nr = NrPairsOp(c) THEN Idle ELSE r]
          /\ UNCHANGED <<set, stay>> /\ tool[c].at \in {"put", "get", "del"}
      BY <1>6 DEF BatchDone
    <2> HIDE DEF r
    <2>3. Listing(r, stay[c])
      BY <2>1, <2>2 DEF Listing
    <2> QED BY <1>4, <2>1, <2>2, <2>3, IdleType
  <1>7. CASE BatchFails(c) \/ ListDone(c)
    <2>1. /\ tool' = [tool EXCEPT ![c] = Idle] \/ tool' = [tool EXCEPT ![c] = Gone]
          /\ UNCHANGED <<set, stay>>
      BY <1>7 DEF BatchFails, ListDone
    <2> QED BY <1>4, <2>1, IdleType
  <1>8. CASE mio_cmd_kvs_list_pairs(c)
    <2>1. CASE tool' = [tool EXCEPT ![c] = Gone]
      BY <1>4, <1>8, <2>1, IdleType DEF mio_cmd_kvs_list_pairs
    <2>2. CASE kvs_query_next(c, NrPairsOp(c))
      <3> DEFINE n == NrPairsOp(c)
                 t == tool[c]
      <3>1. t.at = "next" /\ t.nr > 0 /\ UNCHANGED <<set, stay>>
        BY <1>8 DEF mio_cmd_kvs_list_pairs
      <3>2. n \in Nat \ {0} /\ n <= t.nr
        BY <1>0, <3>1, KvsAssumption DEF ToolType, NrPairsOp
      <3>3. PICK ks \in mio_motr_kvs_next(t.kno, ~t.first, n) :
              tool' = [tool EXCEPT ![c] = Queried(t, ks, n)]
        BY <2>2 DEF kvs_query_next
      <3> HIDE DEF t, n
      <3>4. t \in ToolType /\ Listing(t, stay[c])
        BY <1>0 DEF t
      <3>5. Queried(t, ks, n) \in ToolType /\ Listing(Queried(t, ks, n), stay[c])
        BY <1>0, <3>1, <3>2, <3>4, QueriedListing
      <3> QED BY <1>4, <3>1, <3>3, <3>5
    <2> QED BY <1>8, <2>1, <2>2 DEF mio_cmd_kvs_list_pairs
  <1>9. CASE QueryNextFails(c)
    <2>1. CASE tool' = [tool EXCEPT ![c] = Gone]
      BY <1>4, <1>9, <2>1, IdleType DEF QueryNextFails
    <2>2. CASE tool' = [tool EXCEPT ![c] = [tool[c] EXCEPT !.at = "end", !.garbled = TRUE]]
      <3> DEFINE r == [tool[c] EXCEPT !.at = "end", !.garbled = TRUE]
      <3>1. r \in ToolType /\ r.garbled
        BY <1>0 DEF ToolType
      <3>2. UNCHANGED <<set, stay>>
        BY <1>9 DEF QueryNextFails
      <3> HIDE DEF r
      <3>3. Listing(r, stay[c])
        BY <3>1 DEF Listing
      <3> QED BY <1>4, <2>2, <3>1, <3>2, <3>3 DEF r
    <2>3. ASSUME NEW k \in IF Overrun(c) THEN Knos ELSE {tool[c].kno},
                 tool' = [tool EXCEPT ![c] = [tool[c] EXCEPT !.kno = k,
                            !.nr = tool[c].nr - NrPairsOp(c), !.first = FALSE, !.garbled = TRUE]]
          PROVE  KvsInv'
      <3> DEFINE r == [tool[c] EXCEPT !.kno = k, !.nr = tool[c].nr - NrPairsOp(c),
                                      !.first = FALSE, !.garbled = TRUE]
      <3>1. k \in Nat /\ tool[c].nr - NrPairsOp(c) \in Nat
        BY <1>0, <1>5, KnosNat DEF ToolType
      <3>2. r \in ToolType /\ r.garbled
        BY <1>0, <3>1 DEF ToolType
      <3>3. UNCHANGED <<set, stay>>
        BY <1>9 DEF QueryNextFails
      <3> HIDE DEF r
      <3>4. Listing(r, stay[c])
        BY <3>2 DEF Listing
      <3> QED BY <1>4, <2>3, <3>2, <3>3, <3>4 DEF r
    <2> QED BY <1>9, <2>1, <2>2, <2>3 DEF QueryNextFails
  <1> QED BY <1>1, <1>2, <1>3, <1>6, <1>7, <1>8, <1>9 DEF KvsStep

(* Every listing none of whose queries failed, whoever inserts and deletes *)
(* meanwhile, lists its keys in the order of the set, none twice and none  *)
(* below its start, and passes over no key that was there all the time:    *)
(* for any number of processes, keys and pairs per query.                  *)
THEOREM ListingsComplete == IndicesSpec => []ListComplete
  <1>1. KvsInv => ListComplete
    <2> SUFFICES ASSUME KvsInv, NEW c \in Clients,
                        tool[c].at \in {"next", "end"}, ~tool[c].garbled
                 PROVE  /\ Increasing(tool[c].listed)
                        /\ \A i \in DOMAIN tool[c].listed :
                             Rank(tool[c].listed[i]) >= Rank(tool[c].start)
                        /\ \A k \in stay[c] : \/ Lists(tool[c].listed, k)
                                              \/ tool[c].at = "next" /\ Above(tool[c].listed, k)
      BY DEF ListComplete, Increasing, Lists, Above
    <2>1. Listing(tool[c], stay[c])
      BY DEF KvsInv
    <2> QED BY <2>1 DEF Listing
  <1>2. KvsInv /\ [IndicesNext]_vars => KvsInv'
    <2> SUFFICES ASSUME KvsInv, [IndicesNext]_vars PROVE KvsInv'
      OBVIOUS
    <2>1. CASE UNCHANGED kvsvars
      BY <2>1 DEF kvsvars, KvsInv, KvsTypeOK, Listing
    <2> QED BY <2>1, KvsCallStep, KvsStepStep DEF IndicesNext, CompCall, CompStep, vars
  <1> QED BY <1>1, <1>2, InitKvs, PTL DEF IndicesSpec
=============================================================================
