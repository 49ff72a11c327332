------------------------ MODULE PropertyStoreProofs ------------------------
(***************************************************************************)
(* Proofs about PropertyStore for any objects, names and values, any       *)
(* bounds, and every kind of program.                                      *)
(***************************************************************************)
EXTENDS PropertyStore, NumberInduction, FiniteSetTheorems, SequenceTheorems, TLAPS

USE StoreAssumption

-----------------------------------------------------------------------------
(* Sequences, without a set their elements are from.                       *)

IsVector(s) == Len(s) \in Nat /\ s = [i \in 1 .. Len(s) |-> s[i]]

\* A function on 1 .. n is a sequence of length n.
LEMMA FunctionIsVector ==
    ASSUME NEW n \in Nat, NEW s, s = [i \in 1 .. n |-> s[i]]
    PROVE  IsVector(s) /\ Len(s) = n
<1> DEFINE T == {s[i] : i \in 1 .. n}
<1>1. s \in [1 .. n -> T]
  OBVIOUS
<1>2. s \in Seq(T)
  <2> HIDE DEF T
  <2> QED
    BY <1>1, SeqDef
<1>3. Len(s) \in Nat /\ DOMAIN s = 1 .. Len(s)
  BY <1>2
<1>4. DOMAIN s = 1 .. n
  BY <1>1
<1>5. Len(s) = n
  <2> \A a, b \in Nat : 1 .. a = 1 .. b => a = b
    OBVIOUS
  <2> QED
    BY <1>3, <1>4
<1> QED
  BY <1>3, <1>5 DEF IsVector

\* What Append does, the vectors of objects and the shape space grow by it.
LEMMA Appended ==
    ASSUME NEW s, IsVector(s), NEW e
    PROVE  /\ IsVector(Append(s, e))
           /\ Len(Append(s, e)) = Len(s) + 1
           /\ \A i \in 1 .. Len(s) : Append(s, e)[i] = s[i]
           /\ Append(s, e)[Len(s) + 1] = e
<1> DEFINE T == {s[i] : i \in 1 .. Len(s)} \cup {e}
<1>1. s \in [1 .. Len(s) -> T] /\ Len(s) \in Nat
  BY DEF IsVector
<1>2. s \in Seq(T)
  BY <1>1
<1>3. e \in T
  OBVIOUS
<1> HIDE DEF T
<1>4. /\ Append(s, e) \in Seq(T) /\ Len(Append(s, e)) = Len(s) + 1
      /\ \A i \in 1 .. Len(s) : Append(s, e)[i] = s[i]
      /\ Append(s, e)[Len(s) + 1] = e
  BY <1>2, <1>3
<1>5. IsVector(Append(s, e))
  BY <1>4, LenProperties DEF IsVector
<1> QED
  BY <1>4, <1>5

\* A function with the domain of a sequence is a sequence of its length: what
\* overwriting an element leaves.
LEMMA SameDomain ==
    ASSUME NEW s, IsVector(s), NEW t, DOMAIN t = DOMAIN s, t = [i \in DOMAIN t |-> t[i]]
    PROVE  IsVector(t) /\ Len(t) = Len(s) /\ DOMAIN s = 1 .. Len(s)
<1>1. Len(s) \in Nat /\ DOMAIN s = 1 .. Len(s)
  BY DEF IsVector
<1>2. t = [i \in 1 .. Len(s) |-> t[i]]
  BY <1>1
<1> QED
  BY <1>1, <1>2, FunctionIsVector

-----------------------------------------------------------------------------
(* The transition tree.  A shape never changes its names, slots and        *)
(* attributes, the children on its edges differ from it in the one         *)
(* property the edge stands for.                                           *)

IsShape(sh) ==
    /\ sh \in [desc : {sh.desc}, numOwn : Nat, edges : {sh.edges}]
    /\ DOMAIN sh.desc \subseteq Keys
    /\ sh.desc \in [DOMAIN sh.desc -> [slot : 1 .. sh.numOwn, attrs : Attrs]]
    /\ \A j, k \in DOMAIN sh.desc : sh.desc[j].slot = sh.desc[k].slot => j = k
    /\ sh.edges = [e \in DOMAIN sh.edges |-> sh.edges[e]]
    /\ DOMAIN sh.edges \subseteq Keys \X Attrs

\* The edge (k, a) changes the attributes of a name the shape has, and adds a
\* name it has not, in the next slot.
ChildDesc(sh, k, a) ==
    IF k \in DOMAIN sh.desc THEN [sh.desc EXCEPT ![k].attrs = a]
    ELSE Extended(sh.desc, k, [slot |-> sh.numOwn + 1, attrs |-> a])

ChildOwn(sh, k) == IF k \in DOMAIN sh.desc THEN sh.numOwn ELSE sh.numOwn + 1

Follows(c, sh, k, a) == c.desc = ChildDesc(sh, k, a) /\ c.numOwn = ChildOwn(sh, k)

TreeOK(tab) ==
    /\ IsVector(tab)
    /\ \A s \in 1 .. Len(tab) : IsShape(tab[s])
    /\ \A s \in 1 .. Len(tab) : \A k \in Keys, a \in Attrs :
          <<k, a>> \in DOMAIN tab[s].edges =>
              /\ tab[s].edges[<<k, a>>] \in 1 .. Len(tab)
              /\ Follows(tab[tab[s].edges[<<k, a>>]], tab[s], k, a)

\* Nothing an object can see of a shape is different in the new shape space.
Keeps(tab, new) ==
    /\ Len(tab) \in Nat /\ Len(new) \in Nat /\ Len(tab) <= Len(new)
    /\ \A s \in 1 .. Len(tab) :
          new[s].desc = tab[s].desc /\ new[s].numOwn = tab[s].numOwn

\* A child made for an edge is a shape: its names have slots of their own.
LEMMA ChildIsShape ==
    ASSUME NEW sh, IsShape(sh), NEW k \in Keys, NEW a \in Attrs,
           NEW c, c = [desc |-> ChildDesc(sh, k, a), numOwn |-> ChildOwn(sh, k), edges |-> << >>]
    PROVE  IsShape(c)
<1> DEFINE d == sh.desc
           x == [slot |-> sh.numOwn + 1, attrs |-> a]
<1>1. /\ sh.numOwn \in Nat
      /\ d \in [DOMAIN d -> [slot : 1 .. sh.numOwn, attrs : Attrs]]
      /\ DOMAIN d \subseteq Keys
      /\ \A i, j \in DOMAIN d : d[i].slot = d[j].slot => i = j
  BY DEF IsShape
<1>2. /\ c.desc = ChildDesc(sh, k, a) /\ c.numOwn = ChildOwn(sh, k) /\ c.edges = << >>
      /\ c.numOwn \in Nat => c \in [desc : {c.desc}, numOwn : Nat, edges : {c.edges}]
  OBVIOUS
<1>3. c.edges = [e \in DOMAIN c.edges |-> c.edges[e]] /\ DOMAIN c.edges = {}
  BY <1>2
<1>4. CASE k \in DOMAIN d
  <2>1. c.desc = [d EXCEPT ![k].attrs = a] /\ c.numOwn = sh.numOwn
    BY <1>2, <1>4 DEF ChildDesc, ChildOwn
  <2>2. c.desc \in [DOMAIN d -> [slot : 1 .. sh.numOwn, attrs : Attrs]]
    <3> HIDE DEF d
    <3> QED
      BY <1>1, <1>4, <2>1, SMTT(30)
  <2>3. \A j \in DOMAIN d : c.desc[j].slot = d[j].slot
    <3> HIDE DEF d
    <3> QED
      BY <1>1, <1>4, <2>1
  <2>4. DOMAIN c.desc = DOMAIN d
    BY <2>2
  <2> HIDE DEF d
  <2> QED
    BY <1>1, <1>2, <1>3, <2>1, <2>2, <2>3, <2>4 DEF IsShape
<1>5. CASE k \notin DOMAIN d
  <2>1. c.desc = Extended(d, k, x) /\ c.numOwn = sh.numOwn + 1
    BY <1>2, <1>5 DEF ChildDesc, ChildOwn
  <2>2. x \in [slot : {sh.numOwn + 1}, attrs : Attrs] /\ x.slot = sh.numOwn + 1
    OBVIOUS
  <2> HIDE DEF d, x
  <2>3. /\ DOMAIN c.desc = DOMAIN d \cup {k}
        /\ c.desc[k] = x
        /\ \A j \in DOMAIN d : c.desc[j] = d[j]
        /\ c.desc = [j \in DOMAIN c.desc |-> c.desc[j]]
    BY <1>5, <2>1 DEF Extended
  <2>4. \A j \in DOMAIN d : d[j].slot \in 1 .. sh.numOwn /\ d[j].slot # sh.numOwn + 1
    BY <1>1
  <2>5. \A j \in DOMAIN d : d[j] \in [slot : 1 .. sh.numOwn + 1, attrs : Attrs]
    BY <1>1
  <2>6. x \in [slot : 1 .. sh.numOwn + 1, attrs : Attrs]
    BY <1>1, <2>2
  <2>7. c.desc \in [DOMAIN c.desc -> [slot : 1 .. c.numOwn, attrs : Attrs]]
    BY <2>1, <2>3, <2>5, <2>6
  <2>8. \A i, j \in DOMAIN c.desc : c.desc[i].slot = c.desc[j].slot => i = j
    BY <1>1, <2>2, <2>3, <2>4
  <2> QED
    BY <1>1, <1>2, <1>3, <2>1, <2>3, <2>7, <2>8 DEF IsShape
<1> QED
  BY <1>4, <1>5

\* Following or making the edge (k, a) keeps the tree, changes no shape an
\* object is bound to, and ends at the child the edge stands for (the end that
\* add_property and update_data_attrs share).
LEMMA TransitionFits ==
    ASSUME NEW tab, TreeOK(tab), NEW s \in 1 .. Len(tab), NEW k \in Keys, NEW a \in Attrs,
           NEW c, c = [desc |-> ChildDesc(tab[s], k, a), numOwn |-> ChildOwn(tab[s], k),
                       edges |-> << >>],
           NEW t, t = Transition(tab, s, k, a, c)
    PROVE  /\ TreeOK(t.tab) /\ Keeps(tab, t.tab)
           /\ t.shape \in 1 .. Len(t.tab)
           /\ Follows(t.tab[t.shape], tab[s], k, a)
<1> DEFINE n == Len(tab)
<1>1. /\ n \in Nat /\ IsVector(tab) /\ s \in Int
      /\ \A r \in 1 .. n : IsShape(tab[r])
  BY DEF TreeOK, IsVector
<1>2. CASE <<k, a>> \in DOMAIN tab[s].edges
  <2>1. t = [tab |-> tab, shape |-> tab[s].edges[<<k, a>>]]
    BY <1>2 DEF Transition
  <2>2. t.tab = tab /\ t.shape = tab[s].edges[<<k, a>>]
    BY <2>1
  <2>3. Keeps(tab, t.tab)
    BY <1>1, <2>2 DEF Keeps
  <2>4. t.shape \in 1 .. n /\ Follows(tab[t.shape], tab[s], k, a)
    BY <1>2, <2>2 DEF TreeOK
  <2> QED
    BY <2>2, <2>3, <2>4
<1>3. CASE <<k, a>> \notin DOMAIN tab[s].edges
  <2> DEFINE new == Extended(tab[s].edges, <<k, a>>, n + 1)
             sh == [tab[s] EXCEPT !.edges = new]
             mid == [tab EXCEPT ![s] = sh]
  <2>1. t = [tab |-> Append(mid, c), shape |-> n + 1]
    BY <1>3 DEF Transition
  <2>2. t.tab = Append(mid, c) /\ t.shape = n + 1
    BY <2>1
  <2>3. /\ IsVector(mid) /\ Len(mid) = n
        /\ \A r \in 1 .. n : mid[r] = IF r = s THEN sh ELSE tab[r]
    <3> HIDE DEF sh
    <3>1. DOMAIN tab = 1 .. n
      BY <1>1 DEF IsVector
    <3>2. /\ DOMAIN mid = DOMAIN tab /\ mid = [r \in DOMAIN mid |-> mid[r]]
          /\ \A r \in 1 .. n : mid[r] = IF r = s THEN sh ELSE tab[r]
      BY <3>1
    <3> HIDE DEF mid
    <3> QED
      BY <1>1, <3>2, SameDomain
  <2>4. /\ IsVector(t.tab) /\ Len(t.tab) = n + 1
        /\ \A r \in 1 .. n : t.tab[r] = IF r = s THEN sh ELSE tab[r]
        /\ t.tab[n + 1] = c
    <3>1. /\ IsVector(Append(mid, c)) /\ Len(Append(mid, c)) = Len(mid) + 1
          /\ \A i \in 1 .. Len(mid) : Append(mid, c)[i] = mid[i]
          /\ Append(mid, c)[Len(mid) + 1] = c
      <4> HIDE DEF mid
      <4> QED
        BY <2>3, Appended
    <3> HIDE DEF mid, sh
    <3> QED
      BY <2>2, <2>3, <3>1
  <2>5. /\ sh.desc = tab[s].desc /\ sh.numOwn = tab[s].numOwn /\ sh.edges = new
        /\ sh \in [desc : {tab[s].desc}, numOwn : Nat, edges : {new}]
    <3>1. tab[s] \in [desc : {tab[s].desc}, numOwn : Nat, edges : {tab[s].edges}]
      BY <1>1 DEF IsShape
    <3> HIDE DEF new
    <3> QED
      BY <3>1
  <2>6. /\ DOMAIN new = DOMAIN tab[s].edges \cup {<<k, a>>}
        /\ new[<<k, a>>] = n + 1
        /\ \A e \in DOMAIN tab[s].edges : new[e] = tab[s].edges[e]
        /\ new = [e \in DOMAIN new |-> new[e]]
    BY <1>3 DEF Extended
  <2>7. IsShape(sh)
    <3>1. DOMAIN tab[s].edges \subseteq Keys \X Attrs
      BY <1>1 DEF IsShape
    <3>2. DOMAIN new \subseteq Keys \X Attrs
      BY <2>6, <3>1
    <3>3. /\ DOMAIN sh.desc \subseteq Keys
          /\ sh.desc \in [DOMAIN sh.desc -> [slot : 1 .. sh.numOwn, attrs : Attrs]]
          /\ \A i, j \in DOMAIN sh.desc : sh.desc[i].slot = sh.desc[j].slot => i = j
      <4> HIDE DEF sh
      <4> QED
        BY <1>1, <2>5 DEF IsShape
    <3> HIDE DEF sh, new
    <3> QED
      BY <2>5, <2>6, <3>2, <3>3 DEF IsShape
  <2>8. IsShape(c)
    BY <1>1, ChildIsShape
  <2>9. Follows(c, tab[s], k, a) /\ DOMAIN c.edges = {}
    BY DEF Follows
  <2>10. \A r \in 1 .. n : /\ t.tab[r].desc = tab[r].desc
                           /\ t.tab[r].numOwn = tab[r].numOwn
    <3> HIDE DEF sh
    <3> QED
      BY <2>4, <2>5
  <2>11. Keeps(tab, t.tab)
    BY <1>1, <2>4, <2>10 DEF Keeps
  <2>12. \A r \in 1 .. n + 1 : IsShape(t.tab[r])
    <3> SUFFICES ASSUME NEW r \in 1 .. n + 1 PROVE IsShape(t.tab[r])
      OBVIOUS
    <3>1. r \in 1 .. n \/ r = n + 1
      BY <1>1
    <3> HIDE DEF sh
    <3> QED
      BY <1>1, <2>4, <2>7, <2>8, <3>1
  <2>13. ASSUME NEW r \in 1 .. n + 1, NEW j \in Keys, NEW b \in Attrs,
                <<j, b>> \in DOMAIN t.tab[r].edges
         PROVE  /\ t.tab[r].edges[<<j, b>>] \in 1 .. n + 1
                /\ Follows(t.tab[t.tab[r].edges[<<j, b>>]], t.tab[r], j, b)
    <3>1. r \in 1 .. n
      <4>1. r \in 1 .. n \/ r = n + 1
        BY <1>1
      <4>2. r # n + 1
        BY <2>4, <2>9, <2>13
      <4> QED
        BY <4>1, <4>2
    <3>2. CASE r = s /\ <<j, b>> = <<k, a>>
      <4>1. t.tab[r].edges[<<j, b>>] = n + 1 /\ j = k /\ b = a
        BY <2>4, <2>5, <2>6, <3>1, <3>2
      <4>2. Follows(c, t.tab[r], j, b)
        BY <2>9, <2>10, <3>1, <3>2, <4>1 DEF Follows, ChildDesc, ChildOwn
      <4> QED
        BY <1>1, <2>4, <4>1, <4>2, SMTT(30)
    <3>3. CASE ~(r = s /\ <<j, b>> = <<k, a>>)
      <4>1. /\ <<j, b>> \in DOMAIN tab[r].edges
            /\ t.tab[r].edges[<<j, b>>] = tab[r].edges[<<j, b>>]
        <5> HIDE DEF sh, new
        <5>1. CASE r = s
          BY <2>4, <2>5, <2>6, <2>13, <3>1, <3>3, <5>1
        <5>2. CASE r # s
          BY <2>4, <2>13, <3>1, <5>2
        <5> QED
          BY <5>1, <5>2
      <4>2. /\ tab[r].edges[<<j, b>>] \in 1 .. n
            /\ Follows(tab[tab[r].edges[<<j, b>>]], tab[r], j, b)
        BY <3>1, <4>1 DEF TreeOK
      <4>3. Follows(t.tab[tab[r].edges[<<j, b>>]], t.tab[r], j, b)
        BY <2>10, <3>1, <4>2 DEF Follows, ChildDesc, ChildOwn
      <4> QED
        BY <1>1, <4>1, <4>2, <4>3
    <3> QED
      BY <3>2, <3>3
  <2>14. TreeOK(t.tab)
    BY <2>4, <2>12, <2>13 DEF TreeOK
  <2> QED
    BY <1>1, <2>2, <2>4, <2>9, <2>11, <2>14
<1> QED
  BY <1>2, <1>3

\* Nothing a shape holds is lost on the way through two steps.
LEMMA KeepsTwice ==
    ASSUME NEW a, NEW b, NEW c, Keeps(a, b), Keeps(b, c)
    PROVE  Keeps(a, c)
<1>1. /\ Len(a) \in Nat /\ Len(b) \in Nat /\ Len(c) \in Nat
      /\ Len(a) <= Len(b) /\ Len(b) <= Len(c)
  BY DEF Keeps
<1>2. \A s \in 1 .. Len(a) : s \in 1 .. Len(b)
  BY <1>1
<1> QED
  BY <1>1, <1>2 DEF Keeps

-----------------------------------------------------------------------------
(* Freezing and sealing: the chain of redefinitions of set_integrity.      *)

\* The same names in the same slots, attributes only taken away.
Weakened(sh, old) ==
    /\ sh.numOwn = old.numOwn
    /\ DOMAIN sh.desc = DOMAIN old.desc
    /\ \A k \in DOMAIN old.desc :
          sh.desc[k].slot = old.desc[k].slot /\ sh.desc[k].attrs \subseteq old.desc[k].attrs

\* What holds after each redefinition for an object that had shape s of tab.
NarrowedFrom(t, tab, s) ==
    /\ TreeOK(t.tab) /\ Keeps(tab, t.tab)
    /\ t.shape \in 1 .. Len(t.tab)
    /\ Weakened(t.tab[t.shape], tab[s])

\* One redefinition of a name the object has.
LEMMA NarrowFits ==
    ASSUME NEW tab, NEW s, IsShape(tab[s]), NEW t, NarrowedFrom(t, tab, s),
           NEW k \in DOMAIN tab[s].desc, NEW lost
    PROVE  NarrowedFrom(Narrow(t, k, lost), tab, s)
<1> DEFINE sh == t.tab[t.shape]
           a == sh.desc[k].attrs
           c == [desc |-> ChildDesc(sh, k, a \ lost), numOwn |-> ChildOwn(sh, k),
                 edges |-> << >>]
           u == Transition(t.tab, t.shape, k, a \ lost, c)
<1>1. /\ TreeOK(t.tab) /\ t.shape \in 1 .. Len(t.tab) /\ IsShape(sh)
      /\ Weakened(sh, tab[s]) /\ Keeps(tab, t.tab)
  BY DEF NarrowedFrom, TreeOK
<1>2. k \in DOMAIN sh.desc /\ k \in Keys
  BY <1>1 DEF Weakened, IsShape
<1>3. /\ sh.desc \in [DOMAIN sh.desc -> [slot : 1 .. sh.numOwn, attrs : Attrs]]
      /\ a \in Attrs /\ a \ lost \in Attrs
  <2>1. sh.desc \in [DOMAIN sh.desc -> [slot : 1 .. sh.numOwn, attrs : Attrs]]
    BY <1>1 DEF IsShape
  <2>2. a \in Attrs
    <3> HIDE DEF sh
    <3> QED
      BY <1>2, <2>1
  <2> QED
    BY <2>1, <2>2 DEF Attrs
<1>4. CASE a \cap lost = {}
  BY <1>4 DEF Narrow
<1>5. CASE a \cap lost # {}
  <2>1. Narrow(t, k, lost) = u
    BY <1>2, <1>5 DEF Narrow, UpdateDataAttrs, ChildDesc, ChildOwn
  <2>2. /\ TreeOK(u.tab) /\ Keeps(t.tab, u.tab)
        /\ u.shape \in 1 .. Len(u.tab)
        /\ Follows(u.tab[u.shape], sh, k, a \ lost)
    <3> HIDE DEF a
    <3> QED
      BY <1>1, <1>2, <1>3, TransitionFits
  <2>3. Keeps(tab, u.tab)
    <3> HIDE DEF u
    <3> QED
      BY <1>1, <2>2, KeepsTwice
  <2>4. Weakened(u.tab[u.shape], sh)
    <3>1. /\ u.tab[u.shape].desc = [sh.desc EXCEPT ![k].attrs = a \ lost]
          /\ u.tab[u.shape].numOwn = sh.numOwn
      BY <1>2, <2>2 DEF Follows, ChildDesc, ChildOwn
    <3>2. a \ lost \subseteq a
      OBVIOUS
    <3> HIDE DEF u, sh
    <3>3. /\ DOMAIN u.tab[u.shape].desc = DOMAIN sh.desc
          /\ \A j \in DOMAIN sh.desc :
                /\ u.tab[u.shape].desc[j].slot = sh.desc[j].slot
                /\ u.tab[u.shape].desc[j].attrs = IF j = k THEN a \ lost ELSE sh.desc[j].attrs
      BY <1>2, <1>3, <3>1
    <3> QED
      BY <3>1, <3>2, <3>3 DEF Weakened
  <2>5. Weakened(u.tab[u.shape], tab[s])
    <3> HIDE DEF u, sh
    <3> QED
      BY <1>1, <2>4 DEF Weakened
  <2> HIDE DEF u
  <2> QED
    BY <2>1, <2>2, <2>3, <2>5 DEF NarrowedFrom
<1> QED
  BY <1>4, <1>5

\* The name a freeze redefines at slot i, if any.
Due(o, i) == {k \in Keys : Live(o, k) /\ Desc(o)[k].slot = i}

\* The recursive function that freezes key by key is defined, whatever the
\* number of slots.
LEMMA NarrowingsRecur ==
    ASSUME NEW o, NEW lost, shapes[shape[o]].numOwn \in Nat
    PROVE  \A i \in 0 .. shapes[shape[o]].numOwn :
              Narrowings(o, lost)[i] =
                  IF i = 0 THEN [tab |-> shapes, shape |-> shape[o]]
                  ELSE IF Due(o, i) = {} THEN Narrowings(o, lost)[i - 1]
                  ELSE Narrow(Narrowings(o, lost)[i - 1], CHOOSE k \in Due(o, i) : TRUE, lost)
<1> DEFINE n == shapes[shape[o]].numOwn
           base == [tab |-> shapes, shape |-> shape[o]]
           due(i) == {k \in Keys : Live(o, k) /\ Desc(o)[k].slot = i}
           next(t, i) == IF due(i) = {} THEN t ELSE Narrow(t, CHOOSE k \in due(i) : TRUE, lost)
           upTo(m) == \E f : f = [i \in 0 .. m |-> IF i = 0 THEN base ELSE next(f[i - 1], i)]
           S == {m \in Nat : upTo(m)}
<1>1. 0 \in S
  <2> DEFINE f == [i \in 0 .. 0 |-> base]
  <2>1. f = [i \in 0 .. 0 |-> IF i = 0 THEN base ELSE next(f[i - 1], i)]
    <3> HIDE DEF base, next
    <3> QED
      OBVIOUS
  <2> QED
    BY <2>1
<1>2. ASSUME NEW m \in Nat, m \in S
      PROVE  m + 1 \in S
  <2>1. PICK f : f = [i \in 0 .. m |-> IF i = 0 THEN base ELSE next(f[i - 1], i)]
    BY <1>2
  <2> DEFINE g == [i \in 0 .. m + 1 |-> IF i <= m THEN f[i] ELSE next(f[m], m + 1)]
  <2> HIDE DEF base, next
  <2>2. ASSUME NEW i \in 0 .. m + 1
        PROVE  g[i] = IF i = 0 THEN base ELSE next(g[i - 1], i)
    <3>1. CASE i = 0
      BY <2>1, <3>1
    <3>2. CASE i # 0 /\ i <= m
      <4>1. f[i] = next(f[i - 1], i)
        BY <2>1, <3>2
      <4>2. g[i] = f[i] /\ g[i - 1] = f[i - 1]
        BY <3>2
      <4> QED
        BY <3>2, <4>1, <4>2
    <3>3. CASE i = m + 1
      <4>1. g[i] = next(f[m], m + 1) /\ g[i - 1] = f[m] /\ i # 0
        BY <3>3
      <4> QED
        BY <3>3, <4>1
    <3> QED
      BY <3>1, <3>2, <3>3
  <2>3. g = [i \in 0 .. m + 1 |-> IF i = 0 THEN base ELSE next(g[i - 1], i)]
    BY <2>2
  <2>4. upTo(m + 1)
    <3> HIDE DEF g
    <3> QED
      BY <2>3, Zenon
  <2> QED
    BY <2>4
<1>3. Nat \subseteq S
  <2> HIDE DEF S
  <2> QED
    BY <1>1, <1>2, AllNumbers
<1>4. upTo(n)
  BY <1>3
<1>5. Narrowings(o, lost) =
          [i \in 0 .. n |-> IF i = 0 THEN base ELSE next(Narrowings(o, lost)[i - 1], i)]
  BY <1>4, Zenon DEF Narrowings
<1> HIDE DEF base, next
<1>6. \A i \in 0 .. n : Narrowings(o, lost)[i] =
                          IF i = 0 THEN base ELSE next(Narrowings(o, lost)[i - 1], i)
  BY <1>5
<1> QED
  BY <1>6 DEF base, next, Due

\* A freeze leaves the names and slots of the object and every other shape as
\* they were (set_integrity).
LEMMA NarrowedFits ==
    ASSUME NEW o \in Objects, TreeOK(shapes), shape[o] \in 1 .. Len(shapes), NEW lost
    PROVE  NarrowedFrom(Narrowed(o, lost), shapes, shape[o])
<1> DEFINE n == shapes[shape[o]].numOwn
           S == {m \in Nat : m <= n => NarrowedFrom(Narrowings(o, lost)[m], shapes, shape[o])}
<1>1. IsShape(shapes[shape[o]]) /\ n \in Nat /\ Len(shapes) \in Nat
  BY DEF TreeOK, IsShape, IsVector
<1>2. \A i \in 0 .. n : Narrowings(o, lost)[i] =
          IF i = 0 THEN [tab |-> shapes, shape |-> shape[o]]
          ELSE IF Due(o, i) = {} THEN Narrowings(o, lost)[i - 1]
               ELSE Narrow(Narrowings(o, lost)[i - 1], CHOOSE k \in Due(o, i) : TRUE, lost)
  BY <1>1, NarrowingsRecur
<1>3. 0 \in S
  <2> DEFINE t == [tab |-> shapes, shape |-> shape[o]]
  <2>1. Narrowings(o, lost)[0] = t
    BY <1>1, <1>2
  <2>2. t.tab = shapes /\ t.shape = shape[o]
    OBVIOUS
  <2>3. Keeps(shapes, t.tab) /\ Weakened(t.tab[t.shape], shapes[shape[o]])
    BY <1>1, <2>2 DEF Keeps, Weakened
  <2> HIDE DEF t
  <2> QED
    BY <2>1, <2>2, <2>3 DEF NarrowedFrom
<1>4. ASSUME NEW m \in Nat, m \in S
      PROVE  m + 1 \in S
  <2> SUFFICES ASSUME m + 1 <= n
               PROVE  NarrowedFrom(Narrowings(o, lost)[m + 1], shapes, shape[o])
    OBVIOUS
  <2> DEFINE t == Narrowings(o, lost)[m]
             k == CHOOSE j \in Due(o, m + 1) : TRUE
  <2>1. NarrowedFrom(t, shapes, shape[o])
    BY <1>1, <1>4
  <2>2. Narrowings(o, lost)[m + 1] = IF Due(o, m + 1) = {} THEN t ELSE Narrow(t, k, lost)
    <3>1. m + 1 \in 0 .. n /\ m + 1 # 0 /\ (m + 1) - 1 = m
      BY <1>1
    <3> QED
      BY <1>2, <3>1
  <2>3. CASE Due(o, m + 1) = {}
    BY <2>1, <2>2, <2>3
  <2>4. CASE Due(o, m + 1) # {}
    <3>1. k \in Due(o, m + 1)
      BY <2>4
    <3>2. k \in DOMAIN shapes[shape[o]].desc
      BY <3>1 DEF Due, Live, Desc
    <3> HIDE DEF k, t
    <3>3. NarrowedFrom(Narrow(t, k, lost), shapes, shape[o])
      BY <1>1, <2>1, <3>2, NarrowFits
    <3> QED
      BY <2>2, <2>4, <3>3
  <2> QED
    BY <2>3, <2>4
<1>5. Nat \subseteq S
  <2> HIDE DEF S
  <2> QED
    BY <1>3, <1>4, AllNumbers
<1> QED
  BY <1>1, <1>5 DEF Narrowed

-----------------------------------------------------------------------------
(* The inductive invariant.                                                *)

Stored == Values \cup {Undefined, Hole}

\* Objects are bound to shapes of the tree, and the vector of each is as long
\* as its shape says.
StoreInv ==
    /\ TreeOK(shapes) /\ Len(shapes) \in 1 .. MaxShapes
    /\ shape \in [Objects -> 1 .. Len(shapes)]
    /\ props = [o \in Objects |-> props[o]]
    /\ \A o \in Objects :
          /\ IsVector(props[o]) /\ Len(props[o]) = shapes[shape[o]].numOwn
          /\ \A i \in 1 .. Len(props[o]) : props[o][i] \in Stored
    /\ proto \in [Objects -> Objects \cup {None}]
    /\ ext \in [Objects -> BOOLEAN]
    /\ program \in Programs

\* The caches stay within their sizes and name shapes that exist.
CacheInv ==
    /\ DOMAIN stub \subseteq (1 .. Len(shapes)) \X Keys
    /\ IsFiniteSet(DOMAIN stub) /\ Cardinality(DOMAIN stub) <= StubEntries
    /\ IsVector(ic) /\ Len(ic) <= IcEntries
    /\ holed \subseteq (1 .. Len(shapes)) \X Keys

\* What the shape of an object is, as the lemmas use it.
LEMMA ShapeOf ==
    ASSUME StoreInv, NEW o \in Objects
    PROVE  /\ shape[o] \in 1 .. Len(shapes) /\ Len(shapes) \in Nat
           /\ IsShape(shapes[shape[o]]) /\ Desc(o) = shapes[shape[o]].desc
           /\ IsVector(props[o]) /\ Len(props[o]) = shapes[shape[o]].numOwn
           /\ Len(props[o]) \in Nat
           /\ Desc(o) \in [DOMAIN Desc(o) -> [slot : 1 .. Len(props[o]), attrs : Attrs]]
           /\ DOMAIN Desc(o) \subseteq Keys
           /\ \A j, k \in DOMAIN Desc(o) : Desc(o)[j].slot = Desc(o)[k].slot => j = k
           /\ \A i \in 1 .. Len(props[o]) : props[o][i] \in Stored
<1>1. shape[o] \in 1 .. Len(shapes) /\ Len(shapes) \in Nat
  BY DEF StoreInv, TreeOK, IsVector
<1>2. IsShape(shapes[shape[o]])
  BY <1>1 DEF StoreInv, TreeOK
<1>3. /\ IsVector(props[o]) /\ Len(props[o]) = shapes[shape[o]].numOwn
      /\ \A i \in 1 .. Len(props[o]) : props[o][i] \in Stored
  BY DEF StoreInv
<1> QED
  BY <1>1, <1>2, <1>3 DEF Desc, IsShape, IsVector

\* A property is live when its slot holds something, and its slot is what a
\* program sees of it: the vector is long enough.
LEMMA Seen ==
    ASSUME StoreInv, NEW o \in Objects, NEW k
    PROVE  /\ Live(o, k) <=> (k \in DOMAIN Desc(o) /\ props[o][Desc(o)[k].slot] # Hole)
           /\ k \in DOMAIN Desc(o) => At(o, Desc(o)[k].slot) = props[o][Desc(o)[k].slot]
           /\ Own(o, k) = IF Live(o, k) THEN [value |-> props[o][Desc(o)[k].slot],
                                              attrs |-> Desc(o)[k].attrs]
                          ELSE None
<1>1. k \in DOMAIN Desc(o) => At(o, Desc(o)[k].slot) = props[o][Desc(o)[k].slot]
  <2> SUFFICES ASSUME k \in DOMAIN Desc(o)
               PROVE  At(o, Desc(o)[k].slot) = props[o][Desc(o)[k].slot]
    OBVIOUS
  <2>1. Desc(o)[k].slot \in 1 .. Len(props[o]) /\ Len(props[o]) \in Nat
    BY ShapeOf
  <2> QED
    BY <2>1 DEF At
<1> QED
  BY <1>1 DEF Live, Own

\* The same after a step.
LEMMA SeenNext ==
    ASSUME StoreInv', NEW o \in Objects, NEW k
    PROVE  LET d == shapes'[shape'[o]].desc
           IN /\ Live(o, k)' <=> (k \in DOMAIN d /\ props'[o][d[k].slot] # Hole)
              /\ Own(o, k)' = IF Live(o, k)' THEN [value |-> props'[o][d[k].slot],
                                                   attrs |-> d[k].attrs]
                              ELSE None
<1> DEFINE d == shapes'[shape'[o]].desc
<1>1. /\ shape'[o] \in 1 .. Len(shapes') /\ IsVector(props'[o])
      /\ Len(props'[o]) = shapes'[shape'[o]].numOwn
  BY DEF StoreInv
<1>2. IsShape(shapes'[shape'[o]])
  BY <1>1 DEF StoreInv, TreeOK
<1>3. k \in DOMAIN d => d[k].slot \in 1 .. Len(props'[o])
  BY <1>1, <1>2 DEF IsShape
<1>4. Len(props'[o]) \in Nat
  BY <1>1 DEF IsVector
<1>5. k \in DOMAIN d =>
          (IF d[k].slot <= Len(props'[o]) THEN props'[o][d[k].slot] ELSE Hole)
              = props'[o][d[k].slot]
  BY <1>3, <1>4
<1>6. Live(o, k)' <=> (k \in DOMAIN d /\ props'[o][d[k].slot] # Hole)
  BY <1>5 DEF Live, Desc, At
<1>7. Own(o, k)' = IF Live(o, k)' THEN [value |-> props'[o][d[k].slot], attrs |-> d[k].attrs]
                   ELSE None
  BY <1>5, <1>6 DEF Own, Desc, At
<1> QED
  BY <1>6, <1>7

-----------------------------------------------------------------------------
(* What an operation may do to one object, and that it does nothing to the *)
(* others, whose shapes it may share.                                      *)

Rebinds(o) ==
    /\ TreeOK(shapes') /\ Keeps(shapes, shapes') /\ Len(shapes') <= MaxShapes
    /\ shape' \in [Objects -> 1 .. Len(shapes')]
    /\ props' = [p \in Objects |-> props'[p]]
    /\ \A p \in Objects \ {o} : shape'[p] = shape[p] /\ props'[p] = props[p]
    /\ IsVector(props'[o]) /\ Len(props'[o]) = shapes'[shape'[o]].numOwn
    /\ \A i \in 1 .. Len(props'[o]) : props'[o][i] \in Stored

\* The own property k of o is the same after the step.
Same(o, k) == (Live(o, k)' <=> Live(o, k)) /\ Own(o, k)' = Own(o, k)

SameNames(o) == DOMAIN shapes'[shape'[o]].desc = DOMAIN Desc(o)

\* An object whose binding and vector stay keeps its properties, whatever
\* happened to the shape space.
LEMMA Untouched ==
    ASSUME StoreInv, StoreInv', Keeps(shapes, shapes'), NEW p \in Objects,
           shape'[p] = shape[p], props'[p] = props[p]
    PROVE  SameNames(p) /\ \A k : Same(p, k)
<1>1. shapes'[shape'[p]].desc = Desc(p)
  BY ShapeOf DEF Keeps
<1>2. SameNames(p)
  BY <1>1 DEF SameNames
<1>3. ASSUME NEW k
      PROVE  Same(p, k)
  <2>1. /\ Live(p, k) <=> (k \in DOMAIN Desc(p) /\ props[p][Desc(p)[k].slot] # Hole)
        /\ Own(p, k) = IF Live(p, k) THEN [value |-> props[p][Desc(p)[k].slot],
                                           attrs |-> Desc(p)[k].attrs]
                       ELSE None
    BY Seen
  <2>2. /\ Live(p, k)' <=> (k \in DOMAIN Desc(p) /\ props[p][Desc(p)[k].slot] # Hole)
        /\ Own(p, k)' = IF Live(p, k)' THEN [value |-> props[p][Desc(p)[k].slot],
                                             attrs |-> Desc(p)[k].attrs]
                        ELSE None
    BY <1>1, SeenNext
  <2> QED
    BY <2>1, <2>2 DEF Same
<1> QED
  BY <1>2, <1>3

\* An object may be bound to another shape of a space that keeps the old ones:
\* everything stays in step, and the other objects see nothing of it.
LEMMA RebindsFits ==
    ASSUME StoreInv, NEW o \in Objects, Rebinds(o),
           proto' \in [Objects -> Objects \cup {None}], ext' \in [Objects -> BOOLEAN],
           program' = program
    PROVE  /\ StoreInv'
           /\ \A p \in Objects \ {o} : SameNames(p) /\ \A k : Same(p, k)
<1>1. ASSUME NEW p \in Objects, p # o
      PROVE  /\ IsVector(props'[p]) /\ Len(props'[p]) = shapes'[shape'[p]].numOwn
             /\ \A i \in 1 .. Len(props'[p]) : props'[p][i] \in Stored
  <2>1. shape'[p] = shape[p] /\ props'[p] = props[p]
    BY <1>1 DEF Rebinds
  <2>2. shapes'[shape[p]].numOwn = shapes[shape[p]].numOwn
    BY ShapeOf DEF Rebinds, Keeps
  <2> QED
    BY <2>1, <2>2, ShapeOf
<1>2. StoreInv'
  <2>1. Len(shapes') \in 1 .. MaxShapes
    BY DEF StoreInv, Rebinds, Keeps
  <2> QED
    BY <1>1, <2>1 DEF StoreInv, Rebinds
<1>3. ASSUME NEW p \in Objects \ {o}
      PROVE  SameNames(p) /\ \A k : Same(p, k)
  BY <1>2, <1>3, Untouched DEF Rebinds
<1> QED
  BY <1>2, <1>3

\* What a step that is about the property k of o leaves of the others.
OnlyAt(o, k) ==
    LET d == shapes'[shape'[o]].desc
    IN /\ DOMAIN Desc(o) \subseteq DOMAIN d /\ DOMAIN d \subseteq DOMAIN Desc(o) \cup {k}
       /\ \A j \in DOMAIN Desc(o) \ {k} :
             d[j] = Desc(o)[j] /\ props'[o][d[j].slot] = props[o][d[j].slot]

\* A step that leaves the slot, the attributes and the value of every name but
\* one changes no property of another name.
LEMMA OnlyAtFits ==
    ASSUME StoreInv, StoreInv', NEW o \in Objects, NEW k, OnlyAt(o, k)
    PROVE  \A j : j # k => Same(o, j)
<1> SUFFICES ASSUME NEW j, j # k PROVE Same(o, j)
  OBVIOUS
<1>1. /\ Live(o, j) <=> (j \in DOMAIN Desc(o) /\ props[o][Desc(o)[j].slot] # Hole)
      /\ Own(o, j) = IF Live(o, j) THEN [value |-> props[o][Desc(o)[j].slot],
                                         attrs |-> Desc(o)[j].attrs]
                     ELSE None
  BY Seen
<1> DEFINE d == shapes'[shape'[o]].desc
<1>2. /\ Live(o, j)' <=> (j \in DOMAIN d /\ props'[o][d[j].slot] # Hole)
      /\ Own(o, j)' = IF Live(o, j)' THEN [value |-> props'[o][d[j].slot], attrs |-> d[j].attrs]
                      ELSE None
  BY SeenNext
<1>3. /\ j \in DOMAIN d <=> j \in DOMAIN Desc(o)
      /\ j \in DOMAIN d => d[j] = Desc(o)[j] /\ props'[o][d[j].slot] = props[o][d[j].slot]
  BY DEF OnlyAt
<1> HIDE DEF d
<1> QED
  BY <1>1, <1>2, <1>3 DEF Same

-----------------------------------------------------------------------------
(* The operations on one property.                                         *)

\* What the language asks of a property that is not configurable.
Kept(o, k) ==
    (Live(o, k) /\ "configurable" \notin Own(o, k).attrs) =>
        /\ Live(o, k)'
        /\ Own(o, k)'.attrs \subseteq Own(o, k).attrs
        /\ "writable" \notin Own(o, k).attrs => Own(o, k)'.value = Own(o, k).value

\* A store into a slot the object has: set_property on an own property and the
\* hole of a deletion.
LEMMA SlotWritten ==
    ASSUME StoreInv, NEW o \in Objects, NEW k \in DOMAIN Desc(o), NEW x \in Stored,
           props' = [props EXCEPT ![o][Desc(o)[k].slot] = x],
           shapes' = shapes, shape' = shape
    PROVE  /\ Rebinds(o) /\ OnlyAt(o, k) /\ SameNames(o)
           /\ shapes'[shape'[o]].desc = Desc(o)
           /\ props'[o][Desc(o)[k].slot] = x
<1> DEFINE i == Desc(o)[k].slot
           v == props[o]
<1>1. /\ i \in 1 .. Len(v) /\ IsVector(v) /\ Len(v) \in Nat
      /\ \A j \in DOMAIN Desc(o) : Desc(o)[j].slot \in 1 .. Len(v) /\ (Desc(o)[j].slot = i => j = k)
      /\ \A j \in 1 .. Len(v) : v[j] \in Stored
      /\ Len(v) = shapes[shape[o]].numOwn
  BY ShapeOf
<1>2. /\ props' = [p \in Objects |-> props'[p]]
      /\ \A p \in Objects \ {o} : props'[p] = props[p]
      /\ props'[o] = [v EXCEPT ![i] = x]
  <2>1. props = [p \in Objects |-> props[p]] /\ props' = [props EXCEPT ![o][i] = x]
    BY DEF StoreInv
  <2> HIDE DEF i
  <2> QED
    BY <2>1
<1>3. DOMAIN v = 1 .. Len(v)
  BY <1>1 DEF IsVector
<1>4. /\ DOMAIN props'[o] = DOMAIN v /\ props'[o] = [j \in DOMAIN props'[o] |-> props'[o][j]]
      /\ \A j \in 1 .. Len(v) : props'[o][j] = IF j = i THEN x ELSE v[j]
  <2> HIDE DEF i, v
  <2> QED
    BY <1>2, <1>3
<1>5. IsVector(props'[o]) /\ Len(props'[o]) = Len(v)
  <2> HIDE DEF v
  <2> QED
    BY <1>1, <1>4, SameDomain
<1>6. shapes'[shape'[o]].desc = Desc(o) /\ SameNames(o)
  BY DEF Desc, SameNames
<1>7. Keeps(shapes, shapes')
  BY ShapeOf DEF Keeps
<1>8. Rebinds(o)
  <2>1. \A j \in 1 .. Len(props'[o]) : props'[o][j] \in Stored
    BY <1>1, <1>4, <1>5
  <2>2. shape' \in [Objects -> 1 .. Len(shapes')] /\ TreeOK(shapes') /\ Len(shapes') <= MaxShapes
    BY DEF StoreInv
  <2> QED
    BY <1>1, <1>2, <1>5, <1>7, <2>1, <2>2 DEF Rebinds
<1>9. OnlyAt(o, k)
  BY <1>1, <1>4, <1>6 DEF OnlyAt
<1> QED
  BY <1>1, <1>4, <1>6, <1>8, <1>9

\* Set of an own property (set_property): allowed because it is writable.
LEMMA SetOwnFits ==
    ASSUME StoreInv, NEW o \in Objects, NEW k \in Keys, NEW v \in Values, SetOwn(o, k, v),
           proto' = proto, ext' = ext, program' = program
    PROVE  Rebinds(o) /\ StoreInv' /\ OnlyAt(o, k) /\ SameNames(o) /\ Kept(o, k)
<1>1. k \in DOMAIN Desc(o) /\ "writable" \in Desc(o)[k].attrs /\ v \in Stored /\ v # Hole
  BY DEF SetOwn, Stored
<1>2. /\ Rebinds(o) /\ OnlyAt(o, k) /\ SameNames(o)
      /\ shapes'[shape'[o]].desc = Desc(o)
      /\ props'[o][Desc(o)[k].slot] = v
  BY <1>1, SlotWritten DEF SetOwn
<1>3. StoreInv'
  BY <1>2, RebindsFits DEF StoreInv
<1>4. Kept(o, k)
  <2>1. Own(o, k) = IF Live(o, k) THEN [value |-> props[o][Desc(o)[k].slot],
                                        attrs |-> Desc(o)[k].attrs] ELSE None
    BY Seen
  <2>2. /\ Live(o, k)'
        /\ Own(o, k)' = IF Live(o, k)' THEN [value |-> props'[o][Desc(o)[k].slot],
                                             attrs |-> Desc(o)[k].attrs] ELSE None
    BY <1>1, <1>2, <1>3, SeenNext
  <2> QED
    BY <1>1, <2>1, <2>2 DEF Kept
<1> QED
  BY <1>2, <1>3, <1>4

\* Delete: only what is configurable is deleted.
LEMMA DeleteFits ==
    ASSUME StoreInv, NEW o \in Objects, NEW k \in Keys, Delete(o, k), program' = program
    PROVE  Rebinds(o) /\ StoreInv' /\ OnlyAt(o, k) /\ SameNames(o) /\ Kept(o, k)
<1>1. k \in DOMAIN Desc(o) /\ "configurable" \in Desc(o)[k].attrs /\ Hole \in Stored
  BY DEF Delete, Live, Stored
<1>2. Rebinds(o) /\ OnlyAt(o, k) /\ SameNames(o)
  BY <1>1, SlotWritten DEF Delete
<1>3. StoreInv'
  BY <1>2, RebindsFits DEF StoreInv, Delete
<1>4. Kept(o, k)
  <2>1. Own(o, k) = IF Live(o, k) THEN [value |-> props[o][Desc(o)[k].slot],
                                        attrs |-> Desc(o)[k].attrs] ELSE None
    BY Seen
  <2> QED
    BY <1>1, <2>1 DEF Kept
<1> QED
  BY <1>2, <1>3, <1>4

\* Binding an object to a shape of a space that keeps the old one.
LEMMA BindFits ==
    ASSUME StoreInv, NEW o \in Objects, NEW t, Bind(o, t), TreeOK(t.tab), Keeps(shapes, t.tab),
           t.shape \in 1 .. Len(t.tab)
    PROVE  /\ TreeOK(shapes') /\ Keeps(shapes, shapes') /\ Len(shapes') <= MaxShapes
           /\ shape' \in [Objects -> 1 .. Len(shapes')]
           /\ \A p \in Objects \ {o} : shape'[p] = shape[p]
           /\ shape'[o] = t.shape /\ shapes' = t.tab
<1>1. shapes' = t.tab /\ shape' = [shape EXCEPT ![o] = t.shape] /\ Len(t.tab) <= MaxShapes
  BY DEF Bind
<1>2. shape \in [Objects -> 1 .. Len(t.tab)]
  <2>1. \A s \in 1 .. Len(shapes) : s \in 1 .. Len(t.tab)
    BY DEF Keeps
  <2> QED
    BY <2>1 DEF StoreInv
<1> QED
  BY <1>1, <1>2

\* A new own property: the shape grows by one name and the vector by one slot.
LEMMA ExtendFits ==
    ASSUME StoreInv, NEW o \in Objects, NEW k \in Keys, k \notin DOMAIN Desc(o),
           NEW x \in Stored, NEW a \in Attrs, Extend(o, k, x, a),
           proto' = proto, ext' = ext, program' = program
    PROVE  Rebinds(o) /\ StoreInv' /\ OnlyAt(o, k) /\ Kept(o, k)
<1> DEFINE sh == shapes[shape[o]]
           v == props[o]
           c == [desc |-> ChildDesc(sh, k, a), numOwn |-> ChildOwn(sh, k), edges |-> << >>]
           t == Transition(shapes, shape[o], k, a, c)
<1>1. /\ shape[o] \in 1 .. Len(shapes) /\ IsShape(sh) /\ Desc(o) = sh.desc
      /\ IsVector(v) /\ Len(v) = sh.numOwn /\ Len(v) \in Nat
      /\ \A j \in DOMAIN Desc(o) : Desc(o)[j].slot \in 1 .. Len(v)
      /\ \A i \in 1 .. Len(v) : v[i] \in Stored
      /\ TreeOK(shapes)
  BY ShapeOf DEF StoreInv
<1>2. AddProperty(shapes, shape[o], k, a) = t
  BY <1>1 DEF AddProperty, ChildDesc, ChildOwn
<1>3. /\ TreeOK(t.tab) /\ Keeps(shapes, t.tab) /\ t.shape \in 1 .. Len(t.tab)
      /\ Follows(t.tab[t.shape], sh, k, a)
  BY <1>1, TransitionFits
<1>4. Bind(o, t) /\ props' = [props EXCEPT ![o] = Append(@, x)]
  BY <1>2 DEF Extend
<1> HIDE DEF t
<1>5. /\ TreeOK(shapes') /\ Keeps(shapes, shapes') /\ Len(shapes') <= MaxShapes
      /\ shape' \in [Objects -> 1 .. Len(shapes')]
      /\ \A p \in Objects \ {o} : shape'[p] = shape[p]
      /\ shape'[o] = t.shape /\ shapes' = t.tab
  BY <1>3, <1>4, BindFits
<1>6. /\ shapes'[shape'[o]].numOwn = Len(v) + 1
      /\ shapes'[shape'[o]].desc = Extended(Desc(o), k, [slot |-> Len(v) + 1, attrs |-> a])
  BY <1>1, <1>3, <1>5 DEF Follows, ChildDesc, ChildOwn
<1>7. /\ props' = [p \in Objects |-> props'[p]]
      /\ \A p \in Objects \ {o} : props'[p] = props[p]
      /\ props'[o] = Append(v, x)
  BY <1>4 DEF StoreInv
<1>8. /\ IsVector(props'[o]) /\ Len(props'[o]) = Len(v) + 1
      /\ \A i \in 1 .. Len(v) : props'[o][i] = v[i]
      /\ props'[o][Len(v) + 1] = x
  <2> HIDE DEF v
  <2> QED
    BY <1>1, <1>7, Appended, SMTT(30)
<1>9. \A i \in 1 .. Len(props'[o]) : props'[o][i] \in Stored
  <2> SUFFICES ASSUME NEW i \in 1 .. Len(props'[o]) PROVE props'[o][i] \in Stored
    OBVIOUS
  <2>1. i \in 1 .. Len(v) \/ i = Len(v) + 1
    BY <1>1, <1>8
  <2> QED
    BY <1>1, <1>8, <2>1
<1>10. Rebinds(o)
  BY <1>5, <1>6, <1>7, <1>8, <1>9 DEF Rebinds
<1>11. StoreInv'
  BY <1>10, RebindsFits DEF StoreInv
<1>12. OnlyAt(o, k)
  <2> HIDE DEF v
  <2>1. /\ DOMAIN shapes'[shape'[o]].desc = DOMAIN Desc(o) \cup {k}
        /\ \A j \in DOMAIN Desc(o) \ {k} : shapes'[shape'[o]].desc[j] = Desc(o)[j]
    BY <1>6 DEF Extended
  <2> QED
    BY <1>1, <1>8, <2>1 DEF OnlyAt, v
<1>13. Kept(o, k)
  BY Seen DEF Kept
<1> QED
  BY <1>10, <1>11, <1>12, <1>13

\* Put writes into a slot the vector has: it pads nothing.
LEMMA PutInside ==
    ASSUME NEW s, IsVector(s), NEW i \in 1 .. Len(s), NEW x, NEW t, t = Put(s, i, x)
    PROVE  /\ IsVector(t) /\ Len(t) = Len(s)
           /\ \A j \in 1 .. Len(s) : t[j] = IF j = i THEN x ELSE s[j]
<1> DEFINE n == Len(s)
<1>1. n \in Nat /\ i \in Int /\ i <= n
  BY DEF IsVector
<1>2. Max({i, n}) = n
  <2>1. n \in {i, n} /\ \A y \in {i, n} : n >= y
    BY <1>1
  <2>2. \A m \in {i, n} : (\A y \in {i, n} : m >= y) => m = n
    BY <1>1
  <2> HIDE DEF n
  <2> QED
    BY <2>1, <2>2 DEF Max
<1>3. t = [j \in 1 .. n |-> IF j = i THEN x ELSE IF j <= n THEN s[j] ELSE Hole]
  BY <1>2 DEF Put
<1>4. \A j \in 1 .. n : t[j] = IF j = i THEN x ELSE s[j]
  BY <1>1, <1>3
<1>5. t = [j \in 1 .. n |-> t[j]]
  BY <1>3
<1>6. IsVector(t) /\ Len(t) = n
  <2> HIDE DEF n
  <2> QED
    BY <1>1, <1>5, FunctionIsVector
<1> QED
  BY <1>4, <1>6

\* The merged attributes of a redefinition are attributes (validate_redefine
\* and the merge of update_data_attrs).
LEMMA MergedType ==
    ASSUME NEW attrs, NEW d
    PROVE  MergedAttrs(attrs, d) \in Attrs
  BY DEF MergedAttrs, DEFAULT, Attrs

\* The shape half of a redefinition: its own names in their slots, one of them
\* with the merged attributes.
LEMMA RedefinedShape ==
    ASSUME StoreInv, NEW o \in Objects, NEW k \in DOMAIN Desc(o), NEW a \in Attrs,
           IF a = Desc(o)[k].attrs THEN UNCHANGED <<shapes, shape>>
           ELSE Bind(o, UpdateDataAttrs(shapes, shape[o], k, a))
    PROVE  /\ TreeOK(shapes') /\ Keeps(shapes, shapes') /\ Len(shapes') <= MaxShapes
           /\ shape' \in [Objects -> 1 .. Len(shapes')]
           /\ \A p \in Objects \ {o} : shape'[p] = shape[p]
           /\ shapes'[shape'[o]].numOwn = shapes[shape[o]].numOwn
           /\ SameNames(o)
           /\ \A j \in DOMAIN Desc(o) :
                 /\ shapes'[shape'[o]].desc[j].slot = Desc(o)[j].slot
                 /\ j # k => shapes'[shape'[o]].desc[j] = Desc(o)[j]
           /\ shapes'[shape'[o]].desc[k].attrs = a
<1> DEFINE sh == shapes[shape[o]]
           c == [desc |-> ChildDesc(sh, k, a), numOwn |-> ChildOwn(sh, k), edges |-> << >>]
           t == Transition(shapes, shape[o], k, a, c)
<1>1. /\ shape[o] \in 1 .. Len(shapes) /\ Len(shapes) \in Nat
      /\ Desc(o) = sh.desc /\ k \in Keys /\ TreeOK(shapes)
      /\ Desc(o) \in [DOMAIN Desc(o) -> [slot : 1 .. Len(props[o]), attrs : Attrs]]
  BY ShapeOf DEF StoreInv
<1>2. CASE a = Desc(o)[k].attrs
  <2>1. shapes' = shapes /\ shape' = shape
    BY <1>2
  <2>2. Keeps(shapes, shapes')
    BY <1>1, <2>1 DEF Keeps
  <2>3. shapes'[shape'[o]].desc = Desc(o) /\ SameNames(o)
    BY <1>1, <2>1 DEF SameNames
  <2> QED
    BY <1>2, <2>1, <2>2, <2>3 DEF StoreInv
<1>3. CASE a # Desc(o)[k].attrs
  <2>1. UpdateDataAttrs(shapes, shape[o], k, a) = t
    BY <1>1 DEF UpdateDataAttrs, ChildDesc, ChildOwn
  <2>2. /\ TreeOK(t.tab) /\ Keeps(shapes, t.tab) /\ t.shape \in 1 .. Len(t.tab)
        /\ Follows(t.tab[t.shape], sh, k, a)
    BY <1>1, TransitionFits
  <2>3. Bind(o, t)
    BY <1>3, <2>1
  <2> HIDE DEF t
  <2>4. /\ TreeOK(shapes') /\ Keeps(shapes, shapes') /\ Len(shapes') <= MaxShapes
        /\ shape' \in [Objects -> 1 .. Len(shapes')]
        /\ \A p \in Objects \ {o} : shape'[p] = shape[p]
        /\ shape'[o] = t.shape /\ shapes' = t.tab
    BY <2>2, <2>3, BindFits
  <2>5. /\ shapes'[shape'[o]].desc = [Desc(o) EXCEPT ![k].attrs = a]
        /\ shapes'[shape'[o]].numOwn = sh.numOwn
    BY <1>1, <2>2, <2>4 DEF Follows, ChildDesc, ChildOwn
  <2>6. /\ DOMAIN shapes'[shape'[o]].desc = DOMAIN Desc(o)
        /\ \A j \in DOMAIN Desc(o) :
              /\ shapes'[shape'[o]].desc[j].slot = Desc(o)[j].slot
              /\ j # k => shapes'[shape'[o]].desc[j] = Desc(o)[j]
        /\ shapes'[shape'[o]].desc[k].attrs = a
    BY <1>1, <2>5
  <2> QED
    BY <2>4, <2>5, <2>6 DEF SameNames
<1> QED
  BY <1>2, <1>3

\* Object.defineProperty of a property the object has: validate_redefine lets
\* through only what a property that is not configurable allows.
LEMMA RedefineFits ==
    ASSUME StoreInv, NEW o \in Objects, NEW k \in Keys, NEW d \in Redefines, Redefine(o, k, d),
           proto' = proto, ext' = ext, program' = program
    PROVE  Rebinds(o) /\ StoreInv' /\ OnlyAt(o, k) /\ SameNames(o) /\ Kept(o, k)
<1> DEFINE i == Desc(o)[k].slot
           v == props[o]
           a == MergedAttrs(Desc(o)[k].attrs, d)
           d2 == shapes'[shape'[o]].desc
<1>1. /\ k \in DOMAIN Desc(o) /\ a \in Attrs
      /\ ValidateRedefine(At(o, i), Desc(o)[k].attrs, d)
      /\ props' = IF d.value = None THEN props
                  ELSE [props EXCEPT ![o] = Put(@, i, d.value)]
      /\ IF a = Desc(o)[k].attrs THEN UNCHANGED <<shapes, shape>>
         ELSE Bind(o, UpdateDataAttrs(shapes, shape[o], k, a))
  BY MergedType DEF Redefine
<1>2. /\ TreeOK(shapes') /\ Keeps(shapes, shapes') /\ Len(shapes') <= MaxShapes
      /\ shape' \in [Objects -> 1 .. Len(shapes')]
      /\ \A p \in Objects \ {o} : shape'[p] = shape[p]
      /\ shapes'[shape'[o]].numOwn = shapes[shape[o]].numOwn
      /\ SameNames(o)
      /\ \A j \in DOMAIN Desc(o) :
            d2[j].slot = Desc(o)[j].slot /\ (j # k => d2[j] = Desc(o)[j])
      /\ d2[k].attrs = a
  <2> HIDE DEF a
  <2> QED
    BY <1>1, RedefinedShape
<1>3. /\ i \in 1 .. Len(v) /\ IsVector(v) /\ Len(v) \in Nat
      /\ Len(v) = shapes[shape[o]].numOwn
      /\ \A j \in DOMAIN Desc(o) : Desc(o)[j].slot \in 1 .. Len(v) /\ (Desc(o)[j].slot = i => j = k)
      /\ \A j \in 1 .. Len(v) : v[j] \in Stored
  BY <1>1, ShapeOf
<1>4. d.value \in Values \cup {None}
  BY DEF Descriptors
<1>5. /\ props' = [p \in Objects |-> props'[p]]
      /\ \A p \in Objects \ {o} : props'[p] = props[p]
      /\ props'[o] = IF d.value = None THEN v ELSE Put(v, i, d.value)
  <2>1. props = [p \in Objects |-> props[p]]
    BY DEF StoreInv
  <2> HIDE DEF i
  <2> QED
    BY <1>1, <2>1
<1>6. /\ IsVector(props'[o]) /\ Len(props'[o]) = Len(v)
      /\ \A j \in 1 .. Len(v) :
            props'[o][j] = IF j = i /\ d.value # None THEN d.value ELSE v[j]
  <2>1. CASE d.value = None
    BY <1>3, <1>5, <2>1
  <2>2. CASE d.value # None
    <3>1. props'[o] = Put(v, i, d.value)
      BY <1>5, <2>2
    <3> HIDE DEF v, i
    <3> QED
      BY <1>3, <2>2, <3>1, PutInside
  <2> QED
    BY <2>1, <2>2
<1>7. \A j \in 1 .. Len(props'[o]) : props'[o][j] \in Stored
  BY <1>3, <1>4, <1>6 DEF Stored
<1>8. Rebinds(o)
  BY <1>2, <1>3, <1>5, <1>6, <1>7 DEF Rebinds
<1>9. StoreInv'
  BY <1>8, RebindsFits DEF StoreInv
<1>10. OnlyAt(o, k)
  BY <1>2, <1>3, <1>6, SMTT(30) DEF OnlyAt, SameNames
<1>11. Kept(o, k)
  <2> SUFFICES ASSUME Live(o, k), "configurable" \notin Own(o, k).attrs
               PROVE  /\ Live(o, k)'
                      /\ Own(o, k)'.attrs \subseteq Own(o, k).attrs
                      /\ "writable" \notin Own(o, k).attrs => Own(o, k)'.value = Own(o, k).value
    BY DEF Kept
  <2>1. /\ v[i] # Hole /\ At(o, i) = v[i]
        /\ Own(o, k).value = v[i] /\ Own(o, k).attrs = Desc(o)[k].attrs
    BY <1>1, Seen
  <2>2. /\ props'[o][i] = IF d.value # None THEN d.value ELSE v[i]
        /\ d2[k].slot = i /\ k \in DOMAIN d2
    BY <1>1, <1>2, <1>3, <1>6 DEF SameNames
  <2>3. props'[o][i] # Hole
    BY <1>4, <2>1, <2>2
  <2>4. /\ Live(o, k)'
        /\ Own(o, k)'.value = props'[o][i] /\ Own(o, k)'.attrs = a
    <3>1. /\ Live(o, k)' <=> (k \in DOMAIN d2 /\ props'[o][d2[k].slot] # Hole)
          /\ Own(o, k)' = IF Live(o, k)' THEN [value |-> props'[o][d2[k].slot],
                                               attrs |-> d2[k].attrs] ELSE None
      BY <1>9, SeenNext
    <3> HIDE DEF d2, a, i
    <3> QED
      BY <1>2, <2>2, <2>3, <3>1
  <2>5. /\ d.configurable # TRUE
        /\ "writable" \notin Desc(o)[k].attrs =>
              d.writable # TRUE /\ d.value \in {None, At(o, i)}
    BY <1>1, <2>1 DEF ValidateRedefine
  <2>6. a \subseteq Desc(o)[k].attrs
    <3>1. d.configurable \in BOOLEAN \cup {None} /\ d.writable \in BOOLEAN \cup {None}
      BY DEF Descriptors
    <3>2. /\ "configurable" \notin Desc(o)[k].attrs
          /\ \A b \in a : b \in DEFAULT /\ IF d[b] = None THEN b \in Desc(o)[k].attrs ELSE d[b]
      BY <2>1 DEF MergedAttrs
    <3>3. "configurable" \notin a
      BY <2>5, <3>1, <3>2
    <3>4. "writable" \in a => "writable" \in Desc(o)[k].attrs
      BY <2>5, <3>1, <3>2
    <3> QED
      BY <3>2, <3>3, <3>4 DEF DEFAULT
  <2>7. "writable" \notin Desc(o)[k].attrs => props'[o][i] = v[i]
    BY <2>1, <2>2, <2>5
  <2> QED
    BY <2>1, <2>4, <2>6, <2>7
<1> QED
  BY <1>2, <1>8, <1>9, <1>10, <1>11

-----------------------------------------------------------------------------
(* The operations on a whole object, and every step.                       *)

\* Freeze and seal take attributes away and nothing else, of one object.
OnlyWeakens(o) ==
    \A k : /\ Live(o, k)' <=> Live(o, k)
           /\ ~Live(o, k) => Own(o, k)' = Own(o, k)
           /\ Live(o, k) => /\ Own(o, k)'.value = Own(o, k).value
                            /\ Own(o, k)'.attrs \subseteq Own(o, k).attrs

\* Object.freeze and Object.seal (set_integrity): the object keeps its names,
\* slots and values and only loses attributes.
LEMMA SetIntegrityFits ==
    ASSUME StoreInv, NEW o \in Objects, NEW lost, SetIntegrity(o, lost), program' = program
    PROVE  Rebinds(o) /\ StoreInv' /\ SameNames(o) /\ OnlyWeakens(o)
<1> DEFINE t == Narrowed(o, lost)
           d == shapes'[shape'[o]].desc
<1>1. /\ shape[o] \in 1 .. Len(shapes) /\ Desc(o) = shapes[shape[o]].desc
      /\ IsVector(props[o]) /\ Len(props[o]) = shapes[shape[o]].numOwn
      /\ \A i \in 1 .. Len(props[o]) : props[o][i] \in Stored
  BY ShapeOf
<1>2. NarrowedFrom(t, shapes, shape[o])
  BY <1>1, NarrowedFits DEF StoreInv
<1>3. Bind(o, t) /\ props' = props /\ proto' = proto /\ ext' = [ext EXCEPT ![o] = FALSE]
  BY DEF SetIntegrity
<1> HIDE DEF t
<1>4. /\ TreeOK(shapes') /\ Keeps(shapes, shapes') /\ Len(shapes') <= MaxShapes
      /\ shape' \in [Objects -> 1 .. Len(shapes')]
      /\ \A p \in Objects \ {o} : shape'[p] = shape[p]
      /\ shape'[o] = t.shape /\ shapes' = t.tab
  BY <1>2, <1>3, BindFits DEF NarrowedFrom
<1>5. /\ shapes'[shape'[o]].numOwn = shapes[shape[o]].numOwn
      /\ DOMAIN d = DOMAIN Desc(o)
      /\ \A k \in DOMAIN Desc(o) :
            d[k].slot = Desc(o)[k].slot /\ d[k].attrs \subseteq Desc(o)[k].attrs
  BY <1>1, <1>2, <1>4 DEF NarrowedFrom, Weakened
<1>6. Rebinds(o)
  BY <1>1, <1>3, <1>4, <1>5 DEF Rebinds, StoreInv
<1>7. StoreInv'
  BY <1>3, <1>6, RebindsFits DEF StoreInv
<1>8. SameNames(o)
  BY <1>5 DEF SameNames
<1>9. OnlyWeakens(o)
  <2> SUFFICES ASSUME NEW k
               PROVE  /\ Live(o, k)' <=> Live(o, k)
                      /\ ~Live(o, k) => Own(o, k)' = Own(o, k)
                      /\ Live(o, k) => /\ Own(o, k)'.value = Own(o, k).value
                                       /\ Own(o, k)'.attrs \subseteq Own(o, k).attrs
    BY DEF OnlyWeakens
  <2>1. /\ Live(o, k) <=> (k \in DOMAIN Desc(o) /\ props[o][Desc(o)[k].slot] # Hole)
        /\ Own(o, k) = IF Live(o, k) THEN [value |-> props[o][Desc(o)[k].slot],
                                           attrs |-> Desc(o)[k].attrs] ELSE None
    BY Seen
  <2>2. /\ Live(o, k)' <=> (k \in DOMAIN d /\ props'[o][d[k].slot] # Hole)
        /\ Own(o, k)' = IF Live(o, k)' THEN [value |-> props'[o][d[k].slot],
                                             attrs |-> d[k].attrs] ELSE None
    BY <1>7, SeenNext
  <2> HIDE DEF d
  <2> QED
    BY <1>3, <1>5, <2>1, <2>2
<1> QED
  BY <1>6, <1>7, <1>8, <1>9

\* The three kinds of steps: about one property of one object, about the
\* attributes of one object, about no property.
OneProperty(o, k) ==
    /\ \A p \in Objects \ {o} : SameNames(p) /\ \A j : Same(p, j)
    /\ \A j : j # k => Same(o, j)
    /\ Kept(o, k)
    /\ SameNames(o) \/ ext[o]
    /\ ext' = ext

Hardens(o) ==
    /\ \A p \in Objects \ {o} : SameNames(p) /\ \A j : Same(p, j)
    /\ SameNames(o) /\ OnlyWeakens(o)
    /\ ext' = [ext EXCEPT ![o] = FALSE]

NoProperty ==
    /\ \A p \in Objects : SameNames(p) /\ \A j : Same(p, j)
    /\ \A p \in Objects : ext'[p] => ext[p]

Effect ==
    \/ \E o \in Objects, k \in Keys : OneProperty(o, k)
    \/ \E o \in Objects : Hardens(o)
    \/ NoProperty

\* Set: a store into an own slot, a new property, or a refusal.
LEMMA SetFits ==
    ASSUME StoreInv, NEW o \in Objects, NEW k \in Keys, NEW v \in Values, Set(o, k, v),
           program' = program
    PROVE  StoreInv' /\ Keeps(shapes, shapes') /\ OneProperty(o, k)
<1>1. proto' = proto /\ ext' = ext
  BY DEF Set
<1>2. CASE SetOwn(o, k, v)
  <2>1. Rebinds(o) /\ StoreInv' /\ OnlyAt(o, k) /\ SameNames(o) /\ Kept(o, k)
    BY <1>1, <1>2, SetOwnFits
  <2> QED
    BY <1>1, <2>1, RebindsFits, OnlyAtFits DEF OneProperty, Rebinds, StoreInv
<1>3. CASE SetNew(o, k, v)
  <2>1. /\ k \notin DOMAIN Desc(o) /\ ext[o] /\ Extend(o, k, v, DEFAULT)
        /\ v \in Stored /\ DEFAULT \in Attrs
    BY <1>3 DEF SetNew, Stored, DEFAULT, Attrs
  <2>2. Rebinds(o) /\ StoreInv' /\ OnlyAt(o, k) /\ Kept(o, k)
    BY <1>1, <2>1, ExtendFits
  <2> QED
    BY <1>1, <2>1, <2>2, RebindsFits, OnlyAtFits DEF OneProperty, Rebinds, StoreInv
<1> QED
  BY <1>2, <1>3 DEF Set

\* Delete: a hole in the slot of one configurable property.
LEMMA DeleteOneFits ==
    ASSUME StoreInv, NEW o \in Objects, NEW k \in Keys, Delete(o, k), program' = program
    PROVE  StoreInv' /\ Keeps(shapes, shapes') /\ OneProperty(o, k)
<1>1. proto' = proto /\ ext' = ext
  BY DEF Delete
<1>2. Rebinds(o) /\ StoreInv' /\ OnlyAt(o, k) /\ SameNames(o) /\ Kept(o, k)
  BY DeleteFits
<1> QED
  BY <1>1, <1>2, RebindsFits, OnlyAtFits DEF OneProperty, Rebinds, StoreInv

\* Object.defineProperty: a redefinition, a new property, or a refusal.
LEMMA DefineFits ==
    ASSUME StoreInv, NEW o \in Objects, NEW k \in Keys, NEW d \in Redefines, Define(o, k, d),
           program' = program
    PROVE  StoreInv' /\ Keeps(shapes, shapes') /\ OneProperty(o, k)
<1>1. proto' = proto /\ ext' = ext
  BY DEF Define
<1>2. CASE Redefine(o, k, d)
  <2>1. Rebinds(o) /\ StoreInv' /\ OnlyAt(o, k) /\ SameNames(o) /\ Kept(o, k)
    BY <1>1, <1>2, RedefineFits
  <2> QED
    BY <1>1, <2>1, RebindsFits, OnlyAtFits DEF OneProperty, Rebinds, StoreInv
<1>3. CASE DefineNew(o, k, d)
  <2> DEFINE x == IF d.value = None THEN Undefined ELSE d.value
             a == MergedAttrs({}, d)
  <2>1. k \notin DOMAIN Desc(o) /\ ext[o] /\ Extend(o, k, x, a)
    BY <1>3 DEF DefineNew
  <2>2. x \in Stored /\ a \in Attrs
    BY MergedType DEF Stored, Descriptors
  <2> HIDE DEF x, a
  <2>3. Rebinds(o) /\ StoreInv' /\ OnlyAt(o, k) /\ Kept(o, k)
    BY <1>1, <2>1, <2>2, ExtendFits
  <2> QED
    BY <1>1, <2>1, <2>3, RebindsFits, OnlyAtFits DEF OneProperty, Rebinds, StoreInv
<1> QED
  BY <1>2, <1>3 DEF Define

\* Object.preventExtensions, seal and freeze only take away.
LEMMA HardenFits ==
    ASSUME StoreInv, NEW o \in Objects, NEW lost, SetIntegrity(o, lost), program' = program
    PROVE  StoreInv' /\ Keeps(shapes, shapes') /\ Hardens(o)
<1>1. proto' = proto /\ ext' = [ext EXCEPT ![o] = FALSE]
  BY DEF SetIntegrity
<1>2. Rebinds(o) /\ StoreInv' /\ SameNames(o) /\ OnlyWeakens(o)
  BY SetIntegrityFits
<1>3. proto' \in [Objects -> Objects \cup {None}] /\ ext' \in [Objects -> BOOLEAN]
  BY <1>1 DEF StoreInv
<1> QED
  BY <1>1, <1>2, <1>3, RebindsFits DEF Hardens, Rebinds

\* What leaves shapes, bindings and vectors alone.
LEMMA QuietFits ==
    ASSUME StoreInv, UNCHANGED <<shapes, shape, props>>, program' = program,
           proto' \in [Objects -> Objects \cup {None}], ext' \in [Objects -> BOOLEAN],
           \A p \in Objects : ext'[p] => ext[p]
    PROVE  StoreInv' /\ Keeps(shapes, shapes') /\ NoProperty
<1>1. StoreInv'
  BY DEF StoreInv
<1>2. Keeps(shapes, shapes')
  <2>1. Len(shapes) \in Nat
    BY DEF StoreInv, TreeOK, IsVector
  <2> QED
    BY <2>1 DEF Keeps
<1>3. \A p \in Objects : SameNames(p) /\ \A j : Same(p, j)
  BY <1>1, <1>2, Untouched
<1> QED
  BY <1>1, <1>2, <1>3 DEF NoProperty

\* Every step keeps the invariant and is of one of the three kinds.
LEMMA StepFits ==
    ASSUME StoreInv, Step, program' = program
    PROVE  StoreInv' /\ Keeps(shapes, shapes') /\ Effect
<1>0. /\ program.objects \subseteq Objects /\ program.keys \subseteq Keys
      /\ proto \in [Objects -> Objects \cup {None}] /\ ext \in [Objects -> BOOLEAN]
  BY DEF StoreInv
<1>1. ASSUME NEW o \in Objects, NEW k \in Keys, Get(o, k)
      PROVE  StoreInv' /\ Keeps(shapes, shapes') /\ Effect
  BY <1>0, <1>1, QuietFits DEF Get, objVars, Effect
<1>2. ASSUME NEW o \in Objects, NEW k \in Keys, NEW v \in Values, Set(o, k, v)
      PROVE  StoreInv' /\ Keeps(shapes, shapes') /\ Effect
  BY <1>2, SetFits DEF Effect
<1>3. ASSUME NEW o \in Objects, NEW k \in Keys, Delete(o, k)
      PROVE  StoreInv' /\ Keeps(shapes, shapes') /\ Effect
  BY <1>3, DeleteOneFits DEF Effect
<1>4. ASSUME NEW o \in Objects, NEW k \in Keys, NEW d \in Redefines, Define(o, k, d)
      PROVE  StoreInv' /\ Keeps(shapes, shapes') /\ Effect
  BY <1>4, DefineFits DEF Effect
<1>5. ASSUME NEW o \in Objects, NEW lost, SetIntegrity(o, lost)
      PROVE  StoreInv' /\ Keeps(shapes, shapes') /\ Effect
  BY <1>5, HardenFits DEF Effect
<1>6. ASSUME NEW o \in Objects, PreventExtensions(o)
      PROVE  StoreInv' /\ Keeps(shapes, shapes') /\ Effect
  <2>1. /\ UNCHANGED <<shapes, shape, props>> /\ proto' = proto
        /\ ext' \in [Objects -> BOOLEAN] /\ \A p \in Objects : ext'[p] => ext[p]
    BY <1>0, <1>6 DEF PreventExtensions
  <2> QED
    BY <1>0, <2>1, QuietFits DEF Effect
<1>7. ASSUME NEW o \in Objects, NEW p \in Objects \cup {None},
             ReflectSetPrototypeOf(o, p) \/ ObjectSetPrototypeOf(o, p)
      PROVE  StoreInv' /\ Keeps(shapes, shapes') /\ Effect
  <2>1. /\ UNCHANGED <<shapes, shape, props>> /\ ext' = ext
        /\ proto' = [proto EXCEPT ![o] = p]
    BY <1>7 DEF ReflectSetPrototypeOf, ObjectSetPrototypeOf
  <2>2. proto' \in [Objects -> Objects \cup {None}]
    BY <1>0, <2>1
  <2> QED
    BY <1>0, <2>1, <2>2, QuietFits DEF Effect
<1>8. ASSUME Collect
      PROVE  StoreInv' /\ Keeps(shapes, shapes') /\ Effect
  BY <1>0, <1>8, QuietFits DEF Collect, objVars, Effect
<1> QED
  BY <1>0, <1>1, <1>2, <1>3, <1>4, <1>5, <1>6, <1>7, <1>8 DEF Step

-----------------------------------------------------------------------------
(* The caches.                                                             *)

\* A place in the stub cache is made by giving one up.
LEMMA PlaceFits ==
    ASSUME NEW X, DOMAIN stub \subseteq X, IsFiniteSet(DOMAIN stub),
           Cardinality(DOMAIN stub) <= StubEntries,
           NEW at \in X, NEW e, Place(at, e)
    PROVE  /\ DOMAIN stub' \subseteq X /\ IsFiniteSet(DOMAIN stub')
           /\ Cardinality(DOMAIN stub') <= StubEntries
<1> DEFINE D == DOMAIN stub \ {at}
<1>1. PICK lost \in SUBSET D :
          /\ Cardinality(lost) = IF Cardinality(D) < StubEntries THEN 0 ELSE 1
          /\ DOMAIN stub' = (DOMAIN stub \cup {at}) \ lost
  BY DEF Place
<1>2. /\ IsFiniteSet(D) /\ Cardinality(D) \in Nat /\ Cardinality(D) <= StubEntries
      /\ Cardinality(DOMAIN stub) \in Nat
  <2>1. Cardinality(DOMAIN stub) \in Nat
    BY FS_CardinalityType
  <2>2. D \in SUBSET DOMAIN stub
    OBVIOUS
  <2> HIDE DEF D
  <2>3. IsFiniteSet(D) /\ Cardinality(D) <= Cardinality(DOMAIN stub)
    BY <2>2, FS_Subset
  <2>4. Cardinality(D) \in Nat
    BY <2>3, FS_CardinalityType
  <2> QED
    BY <2>1, <2>3, <2>4
<1>3. DOMAIN stub' = (D \ lost) \cup {at} /\ at \notin D \ lost
  BY <1>1
<1> HIDE DEF D
<1>4. IsFiniteSet(D \ lost) /\ Cardinality(D \ lost) \in Nat /\ Cardinality(D \ lost) < StubEntries
  <2>1. IsFiniteSet(lost)
    BY <1>1, <1>2, FS_Subset
  <2>2. CASE Cardinality(D) < StubEntries
    <3>1. lost = {}
      BY <1>1, <2>1, <2>2, FS_EmptySet
    <3> QED
      BY <1>2, <2>2, <3>1
  <2>3. CASE ~(Cardinality(D) < StubEntries)
    <3>1. PICK x : lost = {x}
      BY <1>1, <2>1, <2>3, FS_Singleton
    <3>2. x \in D
      BY <1>1, <3>1
    <3>3. IsFiniteSet(D \ {x}) /\ Cardinality(D \ {x}) = Cardinality(D) - 1
      BY <1>2, <3>2, FS_RemoveElement
    <3>4. Cardinality(D \ {x}) \in Nat
      BY <3>3, FS_CardinalityType
    <3> QED
      BY <1>2, <3>1, <3>3, <3>4
  <2> QED
    BY <2>2, <2>3
<1>5. /\ IsFiniteSet((D \ lost) \cup {at})
      /\ Cardinality((D \ lost) \cup {at}) = Cardinality(D \ lost) + 1
  BY <1>3, <1>4, FS_AddElement
<1> QED
  BY <1>1, <1>3, <1>4, <1>5

\* The inline cache never has more entries than its capacity.
LEMMA RecordIcFits ==
    ASSUME IsVector(ic), Len(ic) <= IcEntries, NEW o, NEW k, RecordIc(o, k)
    PROVE  IsVector(ic') /\ Len(ic') <= IcEntries
<1> DEFINE e == [shape |-> shape[o], key |-> k, slot |-> Desc(o)[k].slot]
           i == Min(IcAt(o, k))
<1>0. Len(ic) \in Nat
  BY DEF IsVector
<1>1. \/ ic' = [ic EXCEPT ![i] = e]
      \/ Len(ic) < IcEntries /\ ic' = Append(ic, e)
      \/ ic' = <<e>>
  BY DEF RecordIc
<1> HIDE DEF e, i
<1>2. CASE ic' = [ic EXCEPT ![i] = e]
  <2>1. ic = [j \in DOMAIN ic |-> ic[j]]
    BY DEF IsVector
  <2>2. DOMAIN ic' = DOMAIN ic /\ ic' = [j \in DOMAIN ic' |-> ic'[j]]
    BY <1>2, <2>1
  <2> QED
    BY <2>2, SameDomain
<1>3. CASE Len(ic) < IcEntries /\ ic' = Append(ic, e)
  BY <1>0, <1>3, Appended
<1>4. CASE ic' = <<e>>
  <2>1. <<e>> \in Seq({e}) /\ Len(<<e>>) = 1
    OBVIOUS
  <2>2. IsVector(<<e>>)
    BY <2>1, LenProperties DEF IsVector
  <2> QED
    BY <1>4, <2>1, <2>2
<1> QED
  BY <1>1, <1>2, <1>3, <1>4

\* Who moves the caches: a read records, a freeze, a link written by
\* Reflect.setPrototypeOf and a collection empty the stub cache.
LEMMA CachesMove ==
    ASSUME StoreInv, Next
    PROVE  \/ UNCHANGED <<stub, ic>>
           \/ stub' = NoStubs /\ ic' = ic
           \/ \E o \in Objects, k \in Keys : Get(o, k)
<1>1. program.objects \subseteq Objects /\ program.keys \subseteq Keys
  BY DEF StoreInv
<1>2. ASSUME NEW o \in Objects, NEW k \in Keys, NEW v, Set(o, k, v)
      PROVE  UNCHANGED <<stub, ic>>
  BY <1>2 DEF Set
<1>3. ASSUME NEW o \in Objects, NEW k \in Keys, Delete(o, k)
      PROVE  UNCHANGED <<stub, ic>>
  BY <1>3 DEF Delete
<1>4. ASSUME NEW o \in Objects, NEW k \in Keys, NEW d, Define(o, k, d)
      PROVE  UNCHANGED <<stub, ic>>
  BY <1>4 DEF Define
<1>5. ASSUME NEW o \in Objects, NEW lost, SetIntegrity(o, lost)
      PROVE  stub' = NoStubs /\ ic' = ic
  BY <1>5 DEF SetIntegrity
<1>6. ASSUME NEW o \in Objects, PreventExtensions(o)
      PROVE  UNCHANGED <<stub, ic>>
  BY <1>6 DEF PreventExtensions
<1>7. ASSUME NEW o \in Objects, NEW p, ReflectSetPrototypeOf(o, p)
      PROVE  stub' = NoStubs /\ ic' = ic
  BY <1>7 DEF ReflectSetPrototypeOf
<1>8. ASSUME NEW o \in Objects, NEW p, ObjectSetPrototypeOf(o, p)
      PROVE  UNCHANGED <<stub, ic>>
  BY <1>8 DEF ObjectSetPrototypeOf
<1>9. ASSUME Collect
      PROVE  stub' = NoStubs /\ ic' = ic
  BY <1>9 DEF Collect
<1> QED
  BY <1>1, <1>2, <1>3, <1>4, <1>5, <1>6, <1>7, <1>8, <1>9 DEF Next, Step

\* Every step keeps the caches within their capacities: a read makes at most
\* one entry in each, and a new generation empties the stub cache.
LEMMA CacheFits ==
    ASSUME StoreInv, CacheInv, Next, Keeps(shapes, shapes')
    PROVE  CacheInv'
<1> DEFINE ids == 1 .. Len(shapes)
           X == (1 .. Len(shapes')) \X Keys
<1>1. ids \X Keys \subseteq X
  BY DEF Keeps
<1>2. holed' \subseteq X
  BY <1>1 DEF Next, HolesNow, CacheInv
<1>3. CASE UNCHANGED <<stub, ic>>
  BY <1>1, <1>2, <1>3 DEF CacheInv
<1>4. CASE stub' = NoStubs /\ ic' = ic
  <2>1. DOMAIN stub' = {}
    BY <1>4 DEF NoStubs
  <2> QED
    BY <1>2, <1>4, <2>1, FS_EmptySet DEF CacheInv
<1>5. ASSUME NEW o \in Objects, NEW k \in Keys, Get(o, k)
      PROVE  CacheInv'
  <2> DEFINE n == Min(FoundAt(o, k))
  <2>1. RecordStub(o, k, n) /\ (RecordIc(o, k) \/ UNCHANGED ic)
    BY <1>5 DEF Get
  <2>2. IsVector(ic') /\ Len(ic') <= IcEntries
    BY <2>1, RecordIcFits DEF CacheInv
  <2>3. /\ DOMAIN stub' \subseteq X /\ IsFiniteSet(DOMAIN stub')
        /\ Cardinality(DOMAIN stub') <= StubEntries
    <3>1. DOMAIN stub \subseteq X
      BY <1>1 DEF CacheInv
    <3>2. <<shape[o], k>> \in X
      BY <1>1, ShapeOf
    <3> HIDE DEF n
    <3>3. UNCHANGED stub \/ \E e : Place(<<shape[o], k>>, e)
      BY <2>1 DEF RecordStub
    <3> HIDE DEF X
    <3> QED
      BY <3>1, <3>2, <3>3, PlaceFits DEF CacheInv
  <2> QED
    BY <1>2, <2>2, <2>3 DEF CacheInv
<1> QED
  BY <1>3, <1>4, <1>5, CachesMove

-----------------------------------------------------------------------------
(* What the caches answer.  An entry says something about shapes only, and  *)
(* a shape never changes what it says; a hit compares the shapes and links  *)
(* of all objects the entry speaks of.                                      *)

\* The minimum that a lookup takes is one, and nothing is below it.
LEMMA LeastFound ==
    ASSUME NEW S \in SUBSET Nat, S # {}
    PROVE  Min(S) \in S /\ \A y \in S : Min(S) <= y
<1>1. \E x \in S : \A y \in S : x <= y
  <2> SUFFICES ASSUME \A x \in S : \E y \in S : ~(x <= y) PROVE FALSE
    OBVIOUS
  <2> DEFINE T == {n \in Nat : \A y \in S : n <= y}
  <2>1. 0 \in T
    OBVIOUS
  <2>2. ASSUME NEW n \in Nat, n \in T PROVE n + 1 \in T
    <3>1. n \notin S
      BY <2>2
    <3>2. \A y \in S : n <= y /\ n # y /\ y \in Nat
      BY <2>2, <3>1
    <3> QED
      BY <3>2
  <2>3. Nat \subseteq T
    <3> HIDE DEF T
    <3> QED
      BY <2>1, <2>2, AllNumbers
  <2>4. PICK y \in S : TRUE
    OBVIOUS
  <2>5. y + 1 \in T
    BY <2>3, <2>4
  <2> QED
    BY <2>4, <2>5
<1> QED
  BY <1>1 DEF Min

\* The recursive function that follows the prototype links is defined, whatever
\* the number of objects.
LEMMA LinksRecur ==
    \A n \in Depths : Up[n] = IF n = 0 THEN [o \in Objects |-> o]
                              ELSE [o \in Objects |->
                                       IF Up[n - 1][o] = None THEN None ELSE proto[Up[n - 1][o]]]
<1> DEFINE c == Cardinality(Objects)
           base == [o \in Objects |-> o]
           next(u) == [o \in Objects |-> IF u[o] = None THEN None ELSE proto[u[o]]]
           upTo(m) == \E f : f = [n \in 0 .. m |-> IF n = 0 THEN base ELSE next(f[n - 1])]
           S == {m \in Nat : upTo(m)}
<1>1. 0 \in S
  <2> DEFINE f == [n \in 0 .. 0 |-> base]
  <2>1. f = [n \in 0 .. 0 |-> IF n = 0 THEN base ELSE next(f[n - 1])]
    <3> HIDE DEF base, next
    <3> QED
      OBVIOUS
  <2> QED
    BY <2>1
<1>2. ASSUME NEW m \in Nat, m \in S
      PROVE  m + 1 \in S
  <2>1. PICK f : f = [n \in 0 .. m |-> IF n = 0 THEN base ELSE next(f[n - 1])]
    BY <1>2
  <2> DEFINE g == [n \in 0 .. m + 1 |-> IF n <= m THEN f[n] ELSE next(f[m])]
  <2> HIDE DEF base, next
  <2>2. ASSUME NEW n \in 0 .. m + 1
        PROVE  g[n] = IF n = 0 THEN base ELSE next(g[n - 1])
    <3>1. CASE n = 0
      BY <2>1, <3>1
    <3>2. CASE n # 0 /\ n <= m
      <4>1. f[n] = next(f[n - 1])
        BY <2>1, <3>2
      <4>2. g[n] = f[n] /\ g[n - 1] = f[n - 1]
        BY <3>2
      <4> QED
        BY <3>2, <4>1, <4>2
    <3>3. CASE n = m + 1
      <4>1. g[n] = next(f[m]) /\ g[n - 1] = f[m] /\ n # 0
        BY <3>3
      <4> QED
        BY <3>3, <4>1
    <3> QED
      BY <3>1, <3>2, <3>3
  <2>3. g = [n \in 0 .. m + 1 |-> IF n = 0 THEN base ELSE next(g[n - 1])]
    BY <2>2
  <2>4. upTo(m + 1)
    <3> HIDE DEF g
    <3> QED
      BY <2>3, Zenon
  <2> QED
    BY <2>4
<1>3. Nat \subseteq S
  <2> HIDE DEF S
  <2> QED
    BY <1>1, <1>2, AllNumbers
<1>4. c \in Nat
  BY FS_CardinalityType
<1>5. upTo(c)
  BY <1>3, <1>4
<1>6. Up = [n \in Depths |-> IF n = 0 THEN base ELSE next(Up[n - 1])]
  BY <1>5, Zenon DEF Up, Depths
<1> HIDE DEF base, next
<1>7. \A n \in Depths : Up[n] = IF n = 0 THEN base ELSE next(Up[n - 1])
  BY <1>6
<1> QED
  BY <1>7 DEF base, next

\* The object itself, its prototype and the prototype of that.
LEMMA Links ==
    ASSUME NEW o \in Objects
    PROVE  /\ Depths \subseteq Nat /\ 0 \in Depths
           /\ \A n \in Depths : \A m \in Nat : m <= n => m \in Depths
           /\ Up[0][o] = o
           /\ 1 \in Depths => Up[1][o] = proto[o]
           /\ 2 \in Depths => Up[2][o] = Link1(o)
<1>1. /\ Depths \subseteq Nat /\ 0 \in Depths
      /\ \A n \in Depths : \A m \in Nat : m <= n => m \in Depths
  <2>1. Cardinality(Objects) \in Nat
    BY FS_CardinalityType
  <2> QED
    BY <2>1 DEF Depths
<1>2. Up[0][o] = o
  BY <1>1, LinksRecur, ZenonT(40)
<1>3. ASSUME 1 \in Depths PROVE Up[1][o] = proto[o]
  <2>1. Up[1][o] = IF Up[0][o] = None THEN None ELSE proto[Up[0][o]]
    <3>1. ASSUME NEW n \in Depths, n # 0
          PROVE  Up[n][o] = IF Up[n - 1][o] = None THEN None ELSE proto[Up[n - 1][o]]
      <4>1. Up[n] = [p \in Objects |-> IF Up[n - 1][p] = None THEN None ELSE proto[Up[n - 1][p]]]
        BY <3>1, LinksRecur, Zenon
      <4> QED
        BY <4>1
    <3>2. 1 # 0 /\ 1 - 1 = 0
      OBVIOUS
    <3> QED
      BY <1>3, <3>1, <3>2
  <2> QED
    BY <1>2, <2>1
<1>4. ASSUME 2 \in Depths PROVE Up[2][o] = Link1(o)
  <2>1. Up[2][o] = IF Up[1][o] = None THEN None ELSE proto[Up[1][o]]
    <3>1. ASSUME NEW n \in Depths, n # 0
          PROVE  Up[n][o] = IF Up[n - 1][o] = None THEN None ELSE proto[Up[n - 1][o]]
      <4>1. Up[n] = [p \in Objects |-> IF Up[n - 1][p] = None THEN None ELSE proto[Up[n - 1][p]]]
        BY <3>1, LinksRecur, Zenon
      <4> QED
        BY <4>1
    <3>2. 2 # 0 /\ 2 - 1 = 1
      OBVIOUS
    <3> QED
      BY <1>4, <3>1, <3>2
  <2>2. 1 \in Depths
    BY <1>1, <1>4
  <2> QED
    BY <1>3, <2>1, <2>2 DEF Link1
<1> QED
  BY <1>1, <1>2, <1>3, <1>4

\* The walk stops at the first object up the chain that has the property.
LEMMA WalkStops ==
    ASSUME NEW o \in Objects, NEW k, NEW n \in Depths, Up[n][o] # None, Live(Up[n][o], k),
           \A m \in Nat : m < n => ~Live(Up[m][o], k)
    PROVE  Walk(o, k) = Own(Up[n][o], k).value
<1>1. FoundAt(o, k) \in SUBSET Nat /\ n \in FoundAt(o, k)
  BY Links DEF FoundAt
<1>2. Min(FoundAt(o, k)) \in FoundAt(o, k) /\ Min(FoundAt(o, k)) <= n
  BY <1>1, LeastFound
<1>3. Min(FoundAt(o, k)) = n
  <2> DEFINE i == Min(FoundAt(o, k))
  <2>1. i \in Nat /\ n \in Nat /\ i <= n /\ Live(Up[i][o], k)
    BY <1>1, <1>2 DEF FoundAt
  <2> HIDE DEF i
  <2>2. ~(i < n)
    BY <2>1
  <2>3. i = n
    BY <2>1, <2>2
  <2> QED
    BY <2>3 DEF i
<1> QED
  BY <1>1, <1>3 DEF Walk

\* Shape s has k in slot i.
Names(s, k, i) == k \in DOMAIN shapes[s].desc /\ shapes[s].desc[k].slot = i

\* Shape s has no k, unless an object of it had k deleted.
Lacks(s, k) == k \notin DOMAIN shapes[s].desc \/ <<s, k>> \in holed

\* What the entry e of the stub cache says about shape s and name k: the slot of
\* an own property, or that the first property is one or two links up.
Tells(s, k, e) ==
    IF e.link0 = None THEN Names(s, k, e.slot)
    ELSE /\ e.holder \in Objects /\ Lacks(s, k)
         /\ e.holderShape \in 1 .. Len(shapes) /\ Names(e.holderShape, k, e.slot)
         /\ \/ 1 \in Depths /\ e.holder = e.link0 /\ e.mid = e.holderShape
            \/ /\ 2 \in Depths /\ e.holder = e.link1
               /\ e.mid \in 1 .. Len(shapes) /\ Lacks(e.mid, k)

\* Both caches are right about shapes, and deletions are on record.
TruthInv ==
    /\ \A x \in DOMAIN stub : Tells(x[1], x[2], stub[x])
    /\ \A i \in DOMAIN ic : ic[i].shape \in 1 .. Len(shapes) /\ Names(ic[i].shape, ic[i].key, ic[i].slot)
    /\ \A o \in Objects, k \in Keys : Holed(o, k) => <<shape[o], k>> \in holed

\* An object whose shape names k has it where the shape says, and one whose
\* shape lacks it has it not, when k was never deleted from an object of it.
LEMMA ShapeTells ==
    ASSUME StoreInv, TruthInv, NEW p \in Objects, NEW k \in Keys, <<shape[p], k>> \notin holed
    PROVE  /\ \A i : Names(shape[p], k, i) => Live(p, k) /\ Own(p, k).value = At(p, i)
           /\ Lacks(shape[p], k) => ~Live(p, k)
<1>1. ~Holed(p, k)
  BY DEF TruthInv
<1>2. ASSUME NEW i, Names(shape[p], k, i)
      PROVE  Live(p, k) /\ Own(p, k).value = At(p, i)
  <2>1. k \in DOMAIN Desc(p) /\ Desc(p)[k].slot = i
    BY <1>2 DEF Names, Desc
  <2>2. Live(p, k)
    BY <1>1, <2>1 DEF Holed, Live
  <2> QED
    BY <2>1, <2>2 DEF Own
<1> QED
  BY <1>2 DEF Lacks, Live, Desc

\* A hit in the stub cache is what the walk finds.
LEMMA StubIsRight ==
    ASSUME StoreInv, TruthInv, NEW o \in Objects, NEW k \in Keys, NeverHoled(o, k),
           StubHits(o, k)
    PROVE  StubValue(o, k) = Walk(o, k)
<1> DEFINE e == stub[<<shape[o], k>>]
<1>1. Tells(shape[o], k, e)
  BY DEF TruthInv, StubHits
<1>2. /\ Depths \subseteq Nat /\ 0 \in Depths /\ Up[0][o] = o
      /\ \A n \in Depths : \A m \in Nat : m <= n => m \in Depths
      /\ 1 \in Depths => Up[1][o] = proto[o]
      /\ 2 \in Depths => Up[2][o] = Link1(o)
  BY Links
<1>3. /\ o # None /\ <<shape[o], k>> \notin holed
      /\ \A n \in Depths : Up[n][o] # None => <<shape[Up[n][o]], k>> \notin holed
  BY <1>2 DEF NeverHoled
<1>4. e.link0 # None => /\ e.link0 = proto[o] /\ e.link1 = Link1(o)
                        /\ e.mid = MidShape(o) /\ e.holderShape = shape[e.holder]
  BY DEF StubHits
<1>5. StubValue(o, k) = At(IF e.link0 = None THEN o ELSE e.holder, e.slot)
  BY DEF StubValue
<1> HIDE DEF e
<1>6. CASE e.link0 = None
  <2>1. Live(o, k) /\ Own(o, k).value = At(o, e.slot)
    BY <1>1, <1>3, <1>6, ShapeTells DEF Tells
  <2>2. Walk(o, k) = Own(o, k).value
    <3>1. \A m \in Nat : ~(m < 0)
      OBVIOUS
    <3> QED
      BY <1>2, <1>3, <2>1, <3>1, WalkStops
  <2> QED
    BY <1>5, <1>6, <2>1, <2>2
<1>7. CASE e.link0 # None
  <2> DEFINE h == e.holder
  <2>1. h \in Objects /\ h # None /\ Names(shape[h], k, e.slot) /\ ~Live(o, k)
    BY <1>1, <1>3, <1>4, <1>7, ShapeTells DEF Tells
  <2>2. StubValue(o, k) = At(h, e.slot)
    BY <1>5, <1>7
  <2>3. CASE 1 \in Depths /\ h = proto[o]
    <3>1. Up[1][o] = h /\ <<shape[h], k>> \notin holed
      BY <1>2, <1>3, <2>1, <2>3
    <3>2. Live(h, k) /\ Own(h, k).value = At(h, e.slot)
      BY <2>1, <3>1, ShapeTells
    <3>3. \A m \in Nat : m < 1 => ~Live(Up[m][o], k)
      BY <1>2, <2>1
    <3> QED
      BY <2>1, <2>2, <2>3, <3>1, <3>2, <3>3, WalkStops
  <2>4. CASE 2 \in Depths /\ h = Link1(o) /\ Lacks(MidShape(o), k)
    <3> DEFINE p == proto[o]
    <3>1. p \in Objects /\ p # None /\ MidShape(o) = shape[p]
      BY <1>4, <1>7 DEF MidShape, StoreInv
    <3>2. 1 \in Depths /\ Up[1][o] = p /\ Up[2][o] = h
      BY <1>2, <2>4
    <3>3. <<shape[h], k>> \notin holed /\ <<shape[p], k>> \notin holed
      BY <1>3, <2>1, <2>4, <3>1, <3>2
    <3>4. Live(h, k) /\ Own(h, k).value = At(h, e.slot)
      BY <2>1, <3>3, ShapeTells
    <3>5. ~Live(p, k)
      BY <2>4, <3>1, <3>3, ShapeTells
    <3>6. \A m \in Nat : m < 2 => m = 0 \/ m = 1
      OBVIOUS
    <3>7. \A m \in Nat : m < 2 => ~Live(Up[m][o], k)
      BY <1>2, <2>1, <3>2, <3>5, <3>6
    <3> QED
      BY <2>1, <2>2, <2>4, <3>2, <3>4, <3>7, WalkStops
  <2> QED
    BY <1>1, <1>4, <1>7, <2>3, <2>4 DEF Tells
<1> QED
  BY <1>6, <1>7

\* A hit in the inline cache is the own property of the receiver.
LEMMA IcIsRight ==
    ASSUME StoreInv, CacheInv, TruthInv, NEW o \in Objects, NEW k \in Keys, NeverHoled(o, k),
           IcServes(o, k)
    PROVE  At(o, ic[Min(IcAt(o, k))].slot) = Walk(o, k)
<1> DEFINE i == Min(IcAt(o, k))
<1>1. i \in IcAt(o, k)
  <2>1. IcAt(o, k) \in SUBSET Nat /\ IcAt(o, k) # {}
    BY DEF IcAt, IcServes, CacheInv, IsVector
  <2> QED
    BY <2>1, LeastFound
<1> HIDE DEF i
<1>2. Names(shape[o], k, ic[i].slot)
  BY <1>1 DEF IcAt, TruthInv
<1>3. 0 \in Depths /\ Up[0][o] = o /\ o # None /\ <<shape[o], k>> \notin holed
  BY Links DEF NeverHoled
<1>4. Live(o, k) /\ Own(o, k).value = At(o, ic[i].slot)
  BY <1>2, <1>3, ShapeTells
<1>5. Walk(o, k) = Own(o, k).value
  <2>1. \A m \in Nat : ~(m < 0)
    OBVIOUS
  <2> QED
    BY <1>3, <1>4, <2>1, WalkStops
<1> QED
  BY <1>4, <1>5 DEF i

\* What a read records is right: the walk has just found it (stub_record_proto
\* and PolyIc::record).
LEMMA RecordIsRight ==
    ASSUME StoreInv, CacheInv, TruthInv, NEW o \in Objects, NEW k \in Keys, Get(o, k)
    PROVE  /\ \A x \in DOMAIN stub' : x[1] \in 1 .. Len(shapes) /\ Tells(x[1], x[2], stub'[x])
           /\ \A i \in DOMAIN ic' : /\ ic'[i].shape \in 1 .. Len(shapes)
                                    /\ Names(ic'[i].shape, ic'[i].key, ic'[i].slot)
<1> DEFINE n == Min(FoundAt(o, k))
           h == Up[n][o]
           e == [slot |-> Desc(h)[k].slot, holder |-> h, holderShape |-> shape[h],
                 link0 |-> IF n = 0 THEN None ELSE proto[o],
                 link1 |-> IF n = 0 THEN None ELSE Link1(o),
                 mid |-> IF n = 0 THEN 0 ELSE MidShape(o)]
           f == [shape |-> shape[o], key |-> k, slot |-> Desc(o)[k].slot]
<1>1. /\ Depths \subseteq Nat /\ 0 \in Depths /\ Up[0][o] = o
      /\ \A d \in Depths : \A m \in Nat : m <= d => m \in Depths
      /\ 1 \in Depths => Up[1][o] = proto[o]
      /\ 2 \in Depths => Up[2][o] = Link1(o)
  BY Links
<1>2. n \in FoundAt(o, k) /\ \A m \in FoundAt(o, k) : n <= m
  <2>1. FoundAt(o, k) \in SUBSET Nat /\ FoundAt(o, k) # {}
    BY <1>1 DEF Get, FoundAt
  <2> QED
    BY <2>1, LeastFound
<1>3. /\ RecordStub(o, k, n)
      /\ n # 0 => UNCHANGED ic
      /\ n = 0 => RecordIc(o, k)
  BY DEF Get
<1>4. n > 2 \/ Place(<<shape[o], k>>, e)
  BY <1>3 DEF RecordStub
<1>5. n > 2 => UNCHANGED stub
  BY <1>3 DEF RecordStub
<1> HIDE DEF n
<1>6. n \in Depths /\ n \in Nat /\ h # None /\ Live(h, k)
  BY <1>1, <1>2 DEF FoundAt
<1>7. \A m \in Depths : m < n => Up[m][o] = None \/ ~Live(Up[m][o], k)
  BY <1>1, <1>2, <1>6 DEF FoundAt
<1>8. proto \in [Objects -> Objects \cup {None}] /\ shape \in [Objects -> 1 .. Len(shapes)]
  BY DEF StoreInv
<1>9. \A p \in Objects : ~Live(p, k) => Lacks(shape[p], k)
  BY DEF TruthInv, Lacks, Live, Holed, Desc
<1>10. ASSUME n <= 2 PROVE Tells(shape[o], k, e)
  <2>1. CASE n = 0
    <3>1. h = o /\ k \in DOMAIN shapes[shape[o]].desc
      BY <1>1, <1>6, <2>1 DEF Live, Desc
    <3>2. e.link0 = None /\ e.slot = shapes[shape[o]].desc[k].slot
      BY <2>1, <3>1 DEF Desc
    <3> HIDE DEF e
    <3> QED
      BY <3>1, <3>2 DEF Tells, Names
  <2>2. CASE n # 0
    <3>1. 1 \in Depths /\ Up[1][o] = proto[o] /\ (n = 1 \/ n = 2) /\ 0 < n
      BY <1>1, <1>6, <1>10, <2>2
    <3>2. n = 2 => 2 \in Depths /\ h = Link1(o)
      BY <1>1, <1>6
    <3>3. proto[o] # None
      BY <1>6, <3>1, <3>2 DEF Link1
    <3>4. proto[o] \in Objects /\ MidShape(o) = shape[proto[o]]
      BY <1>8, <3>3 DEF MidShape
    <3>5. h \in Objects
      BY <1>6, <1>8, <3>1, <3>2, <3>4 DEF Link1
    <3>6. Lacks(shape[o], k)
      BY <1>1, <1>7, <1>9, <3>1
    <3>7. n = 2 => Lacks(MidShape(o), k)
      BY <1>7, <1>9, <3>1, <3>3, <3>4
    <3>8. shape[h] \in 1 .. Len(shapes) /\ Names(shape[h], k, Desc(h)[k].slot)
      BY <1>6, <1>8, <3>5 DEF Live, Desc, Names
    <3>9. /\ e.link0 = proto[o] /\ e.link1 = Link1(o) /\ e.mid = MidShape(o)
          /\ e.holder = h /\ e.holderShape = shape[h] /\ e.slot = Desc(h)[k].slot
      BY <2>2
    <3>10. MidShape(o) \in 1 .. Len(shapes)
      BY <1>8, <3>4
    <3>11. n = 1 => h = proto[o]
      BY <3>1
    <3> HIDE DEF e, h
    <3> QED
      BY <3>1, <3>2, <3>3, <3>4, <3>5, <3>6, <3>7, <3>8, <3>9, <3>10, <3>11 DEF Tells
  <2> QED
    BY <2>1, <2>2
<1>11. \A x \in DOMAIN stub' : x[1] \in 1 .. Len(shapes) /\ Tells(x[1], x[2], stub'[x])
  <2> HIDE DEF e
  <2>1. CASE n > 2
    BY <1>5, <2>1 DEF TruthInv, CacheInv
  <2>2. CASE ~(n > 2)
    <3>1. n <= 2
      BY <1>6, <2>2
    <3>2. \A x \in DOMAIN stub' : \/ x = <<shape[o], k>> /\ stub'[x] = e
                                  \/ x \in DOMAIN stub /\ stub'[x] = stub[x]
      BY <1>4, <2>2 DEF Place
    <3> QED
      BY <1>8, <1>10, <3>1, <3>2 DEF TruthInv, CacheInv
  <2> QED
    BY <2>1, <2>2
<1>12. \A i \in DOMAIN ic' : /\ ic'[i].shape \in 1 .. Len(shapes)
                             /\ Names(ic'[i].shape, ic'[i].key, ic'[i].slot)
  <2>1. CASE n # 0
    BY <1>3, <2>1 DEF TruthInv
  <2>2. CASE n = 0
    <3>1. /\ f.shape = shape[o] /\ f.key = k /\ f.slot = Desc(o)[k].slot
          /\ shape[o] \in 1 .. Len(shapes) /\ Names(shape[o], k, Desc(o)[k].slot)
      BY <1>1, <1>6, <1>8, <2>2 DEF Live, Desc, Names
    <3>2. \/ ic' = [ic EXCEPT ![Min(IcAt(o, k))] = f]
          \/ ic' = Append(ic, f)
          \/ ic' = <<f>>
      BY <1>3, <2>2 DEF RecordIc
    <3>3. IsVector(ic)
      BY DEF CacheInv
    <3> HIDE DEF f
    <3>4. \A i \in DOMAIN ic' : ic'[i] = f \/ (i \in DOMAIN ic /\ ic'[i] = ic[i])
      <4>1. CASE ic' = [ic EXCEPT ![Min(IcAt(o, k))] = f]
        BY <4>1
      <4>2. CASE ic' = Append(ic, f)
        BY <3>3, <4>2, Appended DEF IsVector
      <4>3. CASE ic' = <<f>>
        BY <4>3
      <4> QED
        BY <3>2, <4>1, <4>2, <4>3
    <3> QED
      BY <3>1, <3>4 DEF TruthInv
  <2> QED
    BY <2>1, <2>2
<1> QED
  BY <1>11, <1>12

\* Every step keeps the caches right: shapes keep what they say, so what is not
\* recorded or forgotten stays true, over rewired prototypes, too.
LEMMA TruthFits ==
    ASSUME StoreInv, CacheInv, TruthInv, Next, StoreInv', CacheInv', Keeps(shapes, shapes')
    PROVE  TruthInv'
<1>1. holed \subseteq holed' /\ HolesNow' \subseteq holed'
  BY DEF Next
<1>2. /\ 1 .. Len(shapes) \subseteq 1 .. Len(shapes')
      /\ \A s \in 1 .. Len(shapes) : shapes'[s].desc = shapes[s].desc
  BY DEF Keeps
<1>3. \A o \in Objects, k \in Keys : Holed(o, k)' => <<shape[o], k>>' \in holed'
  BY <1>1 DEF HolesNow, StoreInv
<1>4. \A x \in DOMAIN stub' : Tells(x[1], x[2], stub[x])'
  <2>1. \A x \in DOMAIN stub' : x[1] \in 1 .. Len(shapes) /\ Tells(x[1], x[2], stub'[x])
    BY RecordIsRight, CachesMove DEF TruthInv, NoStubs, CacheInv
  <2> QED
    BY <1>1, <1>2, <2>1 DEF Tells, Names, Lacks
<1>5. \A i \in DOMAIN ic' : ic'[i].shape \in 1 .. Len(shapes) /\ Names(ic'[i].shape, ic'[i].key, ic'[i].slot)
  BY RecordIsRight, CachesMove DEF TruthInv
<1>6. \A i \in DOMAIN ic' : /\ ic'[i].shape \in 1 .. Len(shapes')
                            /\ Names(ic[i].shape, ic[i].key, ic[i].slot)'
  BY <1>2, <1>5 DEF Names
<1> QED
  BY <1>3, <1>4, <1>6 DEF TruthInv

-----------------------------------------------------------------------------
(* The theorems.                                                           *)

\* The store starts with the root shape, empty vectors and empty caches.
LEMMA InitFits == Init => StoreInv /\ CacheInv
<1> SUFFICES ASSUME Init PROVE StoreInv /\ CacheInv
  OBVIOUS
<1>1. IsVector(<< >>) /\ Len(<< >>) = 0 /\ DOMAIN << >> = {}
  <2>1. << >> \in Seq({}) /\ Len(<< >>) = 0
    BY EmptySeq
  <2>2. << >> \in [1 .. 0 -> {}]
    BY <2>1, LenProperties
  <2> QED
    BY <2>1, <2>2 DEF IsVector
<1>2. IsShape(Root)
  <2>1. /\ Root.desc = << >> /\ Root.numOwn = 0 /\ Root.edges = << >>
        /\ Root \in [desc : {<< >>}, numOwn : Nat, edges : {<< >>}]
    BY DEF Root
  <2>2. << >> = [e \in DOMAIN << >> |-> << >>[e]]
    BY <1>1
  <2>3. << >> \in [{} -> [slot : 1 .. 0, attrs : Attrs]]
    BY <1>1
  <2> QED
    BY <1>1, <2>1, <2>2, <2>3 DEF IsShape
<1>3. /\ IsVector(shapes) /\ Len(shapes) = 1 /\ shapes[1] = Root
      /\ \A s \in 1 .. Len(shapes) : s = 1
  <2>1. shapes = <<Root>>
    BY DEF Init
  <2>2. <<Root>> = [s \in 1 .. 1 |-> <<Root>>[s]] /\ <<Root>>[1] = Root
    OBVIOUS
  <2>3. IsVector(<<Root>>) /\ Len(<<Root>>) = 1
    BY <2>2, FunctionIsVector
  <2> QED
    BY <2>1, <2>2, <2>3
<1>4. TreeOK(shapes)
  <2>1. \A s \in 1 .. Len(shapes) : IsShape(shapes[s]) /\ DOMAIN shapes[s].edges = {}
    BY <1>1, <1>2, <1>3 DEF Root
  <2> QED
    BY <1>3, <2>1 DEF TreeOK
<1>5. StoreInv
  <2>1. shape \in [Objects -> 1 .. Len(shapes)]
    BY <1>3 DEF Init
  <2>2. \A o \in Objects : IsVector(props[o]) /\ Len(props[o]) = 0 /\ shapes[shape[o]].numOwn = 0
    BY <1>1, <1>3 DEF Init, Root
  <2>3. /\ props = [o \in Objects |-> props[o]]
        /\ proto \in [Objects -> Objects \cup {None}]
        /\ ext \in [Objects -> BOOLEAN] /\ program \in Programs
    BY DEF Init
  <2>4. Len(shapes) \in 1 .. MaxShapes
    BY <1>3
  <2> QED
    BY <1>4, <2>1, <2>2, <2>3, <2>4 DEF StoreInv
<1>6. CacheInv
  <2>1. DOMAIN stub = {} /\ ic = << >> /\ holed = {}
    BY <1>1 DEF Init, NoStubs
  <2> QED
    BY <1>1, <2>1, FS_EmptySet DEF CacheInv
<1> QED
  BY <1>5, <1>6

\* An effect is also what a step that changes nothing has.
LEMMA NextFits ==
    ASSUME StoreInv, CacheInv, [Next]_vars
    PROVE  StoreInv' /\ CacheInv' /\ Effect
<1>1. CASE Next
  <2>1. Step /\ program' = program
    BY <1>1 DEF Next
  <2>2. StoreInv' /\ Keeps(shapes, shapes') /\ Effect
    BY <2>1, StepFits
  <2> QED
    BY <1>1, <2>2, CacheFits
<1>2. CASE UNCHANGED vars
  <2>1. /\ UNCHANGED <<shapes, shape, props>> /\ program' = program
        /\ proto' = proto /\ ext' = ext
    BY <1>2 DEF vars
  <2>2. StoreInv' /\ Effect
    <3>1. proto' \in [Objects -> Objects \cup {None}] /\ ext' \in [Objects -> BOOLEAN]
      BY <2>1 DEF StoreInv
    <3> QED
      BY <2>1, <3>1, QuietFits DEF Effect
  <2>3. CacheInv'
    BY <1>2 DEF CacheInv, vars
  <2> QED
    BY <2>2, <2>3
<1> QED
  BY <1>1, <1>2

\* Shapes, bindings, vectors and caches stay as heap and interpreter rely on
\* them, over every sequence of operations (the inductive invariant).
THEOREM StoreKept == Spec => [](StoreInv /\ CacheInv)
<1>1. Init => StoreInv /\ CacheInv
  BY InitFits
<1>2. (StoreInv /\ CacheInv) /\ [Next]_vars => (StoreInv /\ CacheInv)'
  BY NextFits
<1> QED
  BY <1>1, <1>2, PTL DEF Spec

\* Every component of the property store has its type, and the stub cache and
\* the inline cache never outgrow their tables (stub_cache.rs, feedback.rs).
THEOREM TypeCorrect == Spec => []TypeOK
<1>1. StoreInv /\ CacheInv => TypeOK
  <2> SUFFICES ASSUME StoreInv, CacheInv PROVE TypeOK
    OBVIOUS
  <2> DEFINE ids == 1 .. Len(shapes)
  <2>1. ASSUME NEW s \in ids
        PROVE  /\ DOMAIN shapes[s].desc \subseteq Keys
               /\ \A k \in DOMAIN shapes[s].desc :
                     shapes[s].desc[k] \in [slot : 1 .. shapes[s].numOwn, attrs : Attrs]
               /\ \A e \in DOMAIN shapes[s].edges :
                     e \in Keys \X Attrs /\ shapes[s].edges[e] \in ids
    <3>1. IsShape(shapes[s])
      BY DEF StoreInv, TreeOK
    <3>2. /\ DOMAIN shapes[s].desc \subseteq Keys
          /\ shapes[s].desc \in [DOMAIN shapes[s].desc -> [slot : 1 .. shapes[s].numOwn, attrs : Attrs]]
      BY <3>1 DEF IsShape
    <3>3. ASSUME NEW e \in DOMAIN shapes[s].edges
          PROVE  e \in Keys \X Attrs /\ shapes[s].edges[e] \in ids
      <4>1. PICK k \in Keys, a \in Attrs : e = <<k, a>>
        BY <3>1 DEF IsShape
      <4> QED
        BY <4>1 DEF StoreInv, TreeOK
    <3> QED
      BY <3>2, <3>3
  <2>2. \A o \in Objects : Range(props[o]) \subseteq Values \cup {Undefined, Hole}
    BY DEF StoreInv, IsVector, Range, Stored
  <2> QED
    BY <2>1, <2>2 DEF TypeOK, StoreInv, CacheInv
<1> QED
  BY <1>1, StoreKept, PTL

\* The vector of an object is as long as its shape says and no two of its
\* names share a slot, whatever adds, redefinitions and freezes made the shape
\* and whoever shares it (gc.rs, add_property and update_data_attrs).
THEOREM SlotsStayInStep == Spec => []SlotsInStep
<1>1. StoreInv => SlotsInStep
  <2> SUFFICES ASSUME StoreInv PROVE SlotsInStep
    OBVIOUS
  <2>1. \A o \in Objects : Len(props[o]) = shapes[shape[o]].numOwn
    BY DEF StoreInv
  <2>2. ASSUME NEW s \in DOMAIN shapes
        PROVE  IsInjective([k \in DOMAIN shapes[s].desc |-> shapes[s].desc[k].slot])
    <3>1. IsShape(shapes[s])
      BY DEF StoreInv, TreeOK, IsVector
    <3>2. \A j, k \in DOMAIN shapes[s].desc :
              shapes[s].desc[j].slot = shapes[s].desc[k].slot => j = k
      BY <3>1 DEF IsShape
    <3> QED
      BY <3>2 DEF IsInjective
  <2> QED
    BY <2>1, <2>2 DEF SlotsInStep
<1> QED
  BY <1>1, StoreKept, PTL

\* Objects share shapes and no operation reaches another object through one,
\* nor another property of its own object except to take attributes away
\* (gc.rs, the transition tree; object.rs, set_integrity).
THEOREM NobodyElseChanges == Spec => OneObjectOnePropertyAStep
<1>1. ASSUME StoreInv, CacheInv, [Next]_vars
      PROVE  \A x, y \in Changed :
                /\ x[1] = y[1]
                /\ x # y =>
                      /\ Live(x[1], x[2]) /\ Live(x[1], x[2])'
                      /\ Own(x[1], x[2])'.value = Own(x[1], x[2]).value
                      /\ Own(x[1], x[2])'.attrs \subseteq Own(x[1], x[2]).attrs
  <2>1. \A x \in Changed : /\ x[1] \in Objects /\ x = <<x[1], x[2]>>
                           /\ Own(x[1], x[2])' # Own(x[1], x[2])
    BY DEF Changed
  <2>2. CASE \E o \in Objects, k \in Keys : OneProperty(o, k)
    <3>1. PICK o \in Objects, k \in Keys : OneProperty(o, k)
      BY <2>2
    <3>2. \A x \in Changed : x[1] = o /\ x[2] = k
      BY <2>1, <3>1 DEF OneProperty, Same
    <3> QED
      BY <2>1, <3>2
  <2>3. CASE \E o \in Objects : Hardens(o)
    <3>1. PICK o \in Objects : Hardens(o)
      BY <2>3
    <3>2. \A x \in Changed : x[1] = o
      BY <2>1, <3>1 DEF Hardens, Same
    <3>3. ASSUME NEW x \in Changed
          PROVE  /\ Live(x[1], x[2]) /\ Live(x[1], x[2])'
                 /\ Own(x[1], x[2])'.value = Own(x[1], x[2]).value
                 /\ Own(x[1], x[2])'.attrs \subseteq Own(x[1], x[2]).attrs
      BY <2>1, <3>1, <3>2 DEF Hardens, OnlyWeakens
    <3> QED
      BY <3>2, <3>3
  <2>4. CASE NoProperty
    BY <2>1, <2>4 DEF NoProperty, Same
  <2> QED
    BY <1>1, <2>2, <2>3, <2>4, NextFits DEF Effect
<1> QED
  BY <1>1, StoreKept, PTL DEF Spec, OneObjectOnePropertyAStep

\* The invariants of the internal methods: what is not configurable or not
\* extensible stays as it is, through set, delete, defineProperty, freeze and
\* seal (property.rs, validate_redefine; object.rs, set_integrity).
THEOREM IntegrityIsKept == Spec => IntegrityKept
<1>1. ASSUME StoreInv, CacheInv, [Next]_vars
      PROVE  \A o \in Objects :
                /\ ~ext[o] => ~ext'[o] /\ DOMAIN Desc(o)' = DOMAIN Desc(o)
                /\ \A k \in Keys : Kept(o, k)
  <2>1. Effect /\ ext \in [Objects -> BOOLEAN]
    BY <1>1, NextFits DEF StoreInv
  <2>2. ASSUME NEW p \in Objects, NEW j, Same(p, j)
        PROVE  Kept(p, j)
    BY <2>2 DEF Same, Kept
  <2>3. ASSUME NEW p \in Objects, SameNames(p)
        PROVE  DOMAIN Desc(p)' = DOMAIN Desc(p)
    BY <2>3 DEF SameNames, Desc
  <2>4. ASSUME NEW o \in Objects, NEW k \in Keys, OneProperty(o, k), NEW p \in Objects
        PROVE  /\ ~ext[p] => ~ext'[p] /\ DOMAIN Desc(p)' = DOMAIN Desc(p)
               /\ \A j \in Keys : Kept(p, j)
    BY <2>2, <2>3, <2>4 DEF OneProperty
  <2>5. ASSUME NEW o \in Objects, Hardens(o), NEW p \in Objects
        PROVE  /\ ~ext[p] => ~ext'[p] /\ DOMAIN Desc(p)' = DOMAIN Desc(p)
               /\ \A j \in Keys : Kept(p, j)
    <3>1. OnlyWeakens(o) => \A j : Kept(o, j)
      BY DEF OnlyWeakens, Kept
    <3>2. SameNames(p) /\ \A j : Kept(p, j)
      BY <2>2, <2>5, <3>1 DEF Hardens
    <3>3. ~ext[p] => ~ext'[p]
      BY <2>1, <2>5 DEF Hardens
    <3> QED
      BY <2>3, <3>2, <3>3
  <2>6. CASE NoProperty
    BY <2>2, <2>3, <2>6 DEF NoProperty
  <2> QED
    BY <2>1, <2>4, <2>5, <2>6 DEF Effect
<1>2. (StoreInv /\ CacheInv) /\ [Next]_vars =>
        [\A o \in Objects :
          /\ ~ext[o] => ~ext'[o] /\ DOMAIN Desc(o)' = DOMAIN Desc(o)
          /\ \A k \in Keys :
                (Live(o, k) /\ "configurable" \notin Own(o, k).attrs) =>
                    /\ Live(o, k)'
                    /\ Own(o, k)'.attrs \subseteq Own(o, k).attrs
                    /\ "writable" \notin Own(o, k).attrs =>
                          Own(o, k)'.value = Own(o, k).value]_vars
  BY <1>1 DEF Kept
<1> QED
  BY <1>2, StoreKept, PTL DEF Spec, IntegrityKept


\* Reads through the caches answer what the prototype walk answers: whatever was
\* cached before, over rewired prototypes, cyclic ones too, shadowing adds,
\* redefinitions, freezes and collections, as long as no object of a shape in
\* the chain ever had the name deleted (ic_lookup, stub_lookup_proto).
THEOREM CachesAreTransparent == Spec => []ReadsSeeTheWalkUnlessHoled
<1>1. Init => TruthInv
  <2> SUFFICES ASSUME Init PROVE TruthInv
    OBVIOUS
  <2>1. DOMAIN stub = {} /\ DOMAIN ic = {}
    BY DEF Init, NoStubs
  <2>2. ASSUME NEW o \in Objects, NEW k PROVE ~Holed(o, k)
    <3>1. shape[o] = 1 /\ shapes[1] = Root /\ DOMAIN Root.desc = {}
      BY DEF Init, Root
    <3> QED
      BY <3>1 DEF Holed, Desc
  <2> QED
    BY <2>1, <2>2 DEF TruthInv
<1>2. StoreInv /\ CacheInv /\ TruthInv /\ [Next]_vars /\ (StoreInv /\ CacheInv)' => TruthInv'
  <2> SUFFICES ASSUME StoreInv, CacheInv, TruthInv, [Next]_vars, StoreInv', CacheInv'
               PROVE  TruthInv'
    OBVIOUS
  <2>1. CASE Next
    <3>1. Keeps(shapes, shapes')
      BY <2>1, StepFits DEF Next
    <3> QED
      BY <2>1, <3>1, TruthFits
  <2>2. CASE UNCHANGED vars
    BY <2>2 DEF vars, TruthInv, Tells, Names, Lacks, Holed, Desc, At
  <2> QED
    BY <2>1, <2>2
<1>3. StoreInv /\ CacheInv /\ TruthInv => ReadsSeeTheWalkUnlessHoled
  <2> SUFFICES ASSUME StoreInv, CacheInv, TruthInv, NEW o \in Objects, NEW k \in Keys,
                      NeverHoled(o, k)
               PROVE  Read(o, k) = Walk(o, k)
    BY DEF ReadsSeeTheWalkUnlessHoled
  <2> QED
    BY StubIsRight, IcIsRight DEF Read, StubServes
<1> QED
  BY <1>1, <1>2, <1>3, StoreKept, PTL DEF Spec
=============================================================================
