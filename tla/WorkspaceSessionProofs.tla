------------------------ MODULE WorkspaceSessionProofs ----------------------
(***************************************************************************)
(* What WorkspaceSession promises of the open documents, for any folder    *)
(* and any bounds: each has a live store of its own, the one in front is   *)
(* among them, and the window knows which it is.                           *)
(*                                                                         *)
(* A store is a live one while it is listed; so that a note listed late    *)
(* brings one, an open still under way must not be closed, and must not be *)
(* listed already.  The map is changed in three ways only, each with a     *)
(* lemma: a document is set, removed, or moved to another key.             *)
(*                                                                         *)
(* The closed list takes no part: an entry of it that is not a path of the *)
(* folder is never opened.                                                 *)
(***************************************************************************)
EXTENDS WorkspaceSession, SequenceTheorems, TLAPS

StoresOf(tabs) == {tabs[i].store : i \in DOMAIN tabs}

\* A map of documents, each with a store of its own among those given.
Proper(tabs, ids) ==
    /\ tabs \in Seq([path : Paths, store : ids])
    /\ \A i, j \in 1..Len(tabs) : tabs[i].path = tabs[j].path => i = j
    /\ \A i, j \in 1..Len(tabs) : tabs[i].store = tabs[j].store => i = j

ITyped ==
    /\ stores \in Seq(Store)
    /\ moves \in Seq(Move)
    /\ \A i \in 1..Len(moves) : moves[i].from # moves[i].to
    /\ files \in [Paths -> File \cup {None}]
    /\ spent \in [saves : Nat, faults : Nat, foreign : Nat, files : Nat]

\* A store an open document may have.
Live(s) == ~s.closed /\ s.stage \in {"listed", "loaded"}

\* A store whose open has yet to be listed.
Early(s) == s.stage \in {"reading", "read"}

\* Open documents have live stores, and an open under way is not closed.
IStores ==
    /\ \A s \in StoresOf(documents) : Live(stores[s])
    /\ \A s \in 1..Len(stores) : Early(stores[s]) => ~stores[s].closed

ITabs ==
    /\ Proper(documents, 1..Len(stores))
    /\ IStores
    /\ FrontIsOpen
    /\ FrontAgrees

ISession == ITyped /\ ITabs

-----------------------------------------------------------------------------
(***************************************************************************)
(* The map of documents.                                                   *)
(***************************************************************************)
\* What the sets of a map's paths and stores hold.
LEMMA PathsAndStores ==
    ASSUME NEW tabs
    PROVE  /\ \A p : p \in PathsOf(tabs) <=> \E k \in DOMAIN tabs : tabs[k].path = p
           /\ \A s : s \in StoresOf(tabs) <=> \E k \in DOMAIN tabs : tabs[k].store = s
  BY DEF PathsOf, StoresOf

\* An open path is at its index.
LEMMA IndexOfOpen ==
    ASSUME NEW T, NEW tabs \in Seq(T), NEW p \in PathsOf(tabs)
    PROVE  /\ IndexOf(tabs, p) \in 1..Len(tabs)
           /\ tabs[IndexOf(tabs, p)].path = p
           /\ tabs[IndexOf(tabs, p)] \in T
<1>1. \E i \in DOMAIN tabs : tabs[i].path = p
  BY PathsAndStores
<1>2. IndexOf(tabs, p) \in DOMAIN tabs /\ tabs[IndexOf(tabs, p)].path = p
  BY <1>1 DEF IndexOf
<1> QED
  BY <1>2, LenProperties, ElementOfSeq

\* A map has no documents just when it has no paths.
LEMMA NoPathsNoDocuments ==
    ASSUME NEW T, NEW tabs \in Seq(T)
    PROVE  PathsOf(tabs) = {} <=> tabs = <<>>
<1>1. tabs = <<>> => PathsOf(tabs) = {}
  BY PathsAndStores
<1>2. ASSUME tabs # <<>> PROVE PathsOf(tabs) # {}
  <2>1. Len(tabs) \in Nat \ {0}
    BY <1>2, EmptySeq
  <2>2. 1 \in DOMAIN tabs
    BY <2>1, LenProperties
  <2> QED
    BY <2>2, PathsAndStores
<1> QED
  BY <1>1, <1>2

\* The place in a sequence of the k-th element left when the n-th is removed.
Place(n, k) == IF k < n THEN k ELSE k + 1

\* One sequence is what is left of the other without its n-th element: each of
\* the others, once.
WithoutAt(seq, n, left) ==
    /\ \A k \in 1..Len(left) : /\ Place(n, k) \in 1..Len(seq) /\ Place(n, k) # n
                               /\ left[k] = seq[Place(n, k)]
    /\ \A k, l \in 1..Len(left) : Place(n, k) = Place(n, l) => k = l
    /\ \A m \in 1..Len(seq) : m # n => \E k \in 1..Len(left) : Place(n, k) = m

\* RemoveAt leaves every other element.
LEMMA WithoutOne ==
    ASSUME NEW S, NEW seq \in Seq(S), NEW n \in 1..Len(seq)
    PROVE  RemoveAt(seq, n) \in Seq(S) /\ WithoutAt(seq, n, RemoveAt(seq, n))
<1> DEFINE before == SubSeq(seq, 1, n - 1)
           after  == SubSeq(seq, n + 1, Len(seq))
           left   == RemoveAt(seq, n)
<1>0. n \in Nat /\ Len(seq) \in Nat /\ 1 <= n /\ n <= Len(seq)
  OBVIOUS
<1>1. /\ before \in Seq(S) /\ Len(before) = n - 1
      /\ \A k \in 1..(n - 1) : before[k] = seq[k]
  <2>1. \A k \in 1..(n - 1) : seq[k] \in S
    BY <1>0
  <2> QED
    BY <1>0, <2>1, SubSeqProperties
<1>2. /\ after \in Seq(S) /\ Len(after) = Len(seq) - n
      /\ \A k \in 1..(Len(seq) - n) : after[k] = seq[k + n]
  <2>1. \A k \in (n + 1)..Len(seq) : seq[k] \in S
    BY <1>0
  <2>2. /\ after \in Seq(S)
        /\ Len(after) = IF n + 1 <= Len(seq) THEN Len(seq) - (n + 1) + 1 ELSE 0
        /\ \A k \in 1..(Len(seq) - (n + 1) + 1) : after[k] = seq[n + 1 + k - 1]
    BY <1>0, <2>1, SubSeqProperties
  <2> QED
    BY <1>0, <2>2
<1> HIDE DEF before, after
<1>3. left = before \o after
  BY DEF RemoveAt, before, after
<1> HIDE DEF left
<1>4. /\ left \in Seq(S)
      /\ Len(left) = Len(before) + Len(after)
      /\ \A k \in 1..(Len(before) + Len(after)) :
           left[k] = IF k <= Len(before) THEN before[k] ELSE after[k - Len(before)]
  <2>1. before \in Seq(S) /\ after \in Seq(S)
    BY <1>1, <1>2
  <2> QED
    BY <2>1, <1>3, ConcatProperties
<1>5. Len(left) = Len(seq) - 1
  BY <1>0, <1>1, <1>2, <1>4
<1>6. \A k \in 1..Len(left) : /\ Place(n, k) \in 1..Len(seq) /\ Place(n, k) # n
                              /\ left[k] = seq[Place(n, k)]
  <2> TAKE k \in 1..Len(left)
  <2>1. CASE k < n
    BY <1>0, <1>1, <1>4, <1>5, <2>1 DEF Place
  <2>2. CASE ~(k < n)
    <3>1. k - (n - 1) \in 1..(Len(seq) - n) /\ k - (n - 1) + n = k + 1
      BY <1>0, <1>5, <2>2
    <3>2. left[k] = seq[k + 1]
      BY <1>0, <1>1, <1>2, <1>4, <1>5, <2>2, <3>1
    <3> QED
      BY <1>0, <1>5, <2>2, <3>2 DEF Place
  <2> QED
    BY <2>1, <2>2
<1>7. \A k, l \in 1..Len(left) : Place(n, k) = Place(n, l) => k = l
  BY <1>0, <1>5 DEF Place
<1>8. ASSUME NEW m \in 1..Len(seq), m # n
      PROVE  \E k \in 1..Len(left) : Place(n, k) = m
  <2>1. CASE m < n
    <3>1. m \in 1..Len(left) /\ Place(n, m) = m
      BY <1>0, <1>5, <2>1 DEF Place
    <3> QED
      BY <3>1
  <2>2. CASE m > n
    <3>1. m - 1 \in 1..Len(left) /\ Place(n, m - 1) = m
      BY <1>0, <1>5, <2>2 DEF Place
    <3> QED
      BY <3>1
  <2> QED
    BY <1>0, <1>8, <2>1, <2>2
<1> QED
  BY <1>4, <1>6, <1>7, <1>8 DEF left, WithoutAt

\* The stores and paths of a map are the ones it may have.
LEMMA ProperStores ==
    ASSUME NEW ids, NEW tabs, Proper(tabs, ids)
    PROVE  StoresOf(tabs) \subseteq ids /\ PathsOf(tabs) \subseteq Paths
<1>1. tabs \in Seq([path : Paths, store : ids])
  BY DEF Proper
<1>2. \A k \in DOMAIN tabs : tabs[k] \in [path : Paths, store : ids]
  BY <1>1, LenProperties, ElementOfSeq
<1> QED
  BY <1>2, PathsAndStores

\* A map stays proper when there are more stores.
LEMMA ProperGrows ==
    ASSUME NEW ids, NEW more, ids \subseteq more, NEW tabs, Proper(tabs, ids)
    PROVE  Proper(tabs, more)
<1>1. [path : Paths, store : ids] \subseteq [path : Paths, store : more]
  OBVIOUS
<1>2. tabs \in Seq([path : Paths, store : ids])
  BY DEF Proper
<1>3. tabs \in Seq([path : Paths, store : more])
  BY <1>1, <1>2, SeqMonotonic
<1> QED
  BY <1>3 DEF Proper

\* A document set under a path (Map.set) keeps the map proper if its store
\* serves no other.
LEMMA SetKeepsProper ==
    ASSUME NEW ids, NEW tabs, Proper(tabs, ids),
           NEW p \in Paths, NEW s \in ids, s \notin StoresOf(tabs)
    PROVE  /\ Proper(SetDocument(tabs, p, s), ids)
           /\ StoresOf(SetDocument(tabs, p, s)) \subseteq StoresOf(tabs) \cup {s}
           /\ PathsOf(SetDocument(tabs, p, s)) = PathsOf(tabs) \cup {p}
<1> DEFINE T == [path : Paths, store : ids]
           set == SetDocument(tabs, p, s)
<1>0. /\ tabs \in Seq(T) /\ DOMAIN tabs = 1..Len(tabs) /\ Len(tabs) \in Nat
      /\ \A k \in 1..Len(tabs) : tabs[k] \in T
  <2>1. tabs \in Seq(T)
    BY DEF Proper
  <2> QED
    BY <2>1, LenProperties, ElementOfSeq
<1> HIDE DEF T
<1>1. CASE p \in PathsOf(tabs)
  <2> DEFINE i == IndexOf(tabs, p)
  <2>1. i \in 1..Len(tabs) /\ tabs[i].path = p /\ tabs[i] \in T
    BY <1>0, <1>1, IndexOfOpen
  <2>2. set = [tabs EXCEPT ![i].store = s]
    BY <1>1 DEF SetDocument
  <2> HIDE DEF i
  <2> HIDE DEF set
  <2>3. [tabs[i] EXCEPT !.store = s] = [path |-> p, store |-> s] /\ [path |-> p, store |-> s] \in T
    BY <2>1 DEF T
  <2>4. set = [tabs EXCEPT ![i] = [path |-> p, store |-> s]]
    BY <2>2, <2>3
  <2>5. /\ set \in Seq(T) /\ Len(set) = Len(tabs)
        /\ \A k \in 1..Len(tabs) : set[k] = IF k = i THEN [path |-> p, store |-> s] ELSE tabs[k]
    BY <1>0, <2>1, <2>3, <2>4, ExceptSeq
  <2>6. DOMAIN set = 1..Len(set)
    BY <2>5, LenProperties
  <2>7. \A k \in 1..Len(tabs) : tabs[k].store # s
    BY <1>0, PathsAndStores
  <2>8. Proper(set, ids)
    BY <2>1, <2>5, <2>7, SMTT(30) DEF Proper, T
  <2>9. StoresOf(set) \subseteq StoresOf(tabs) \cup {s}
    BY <1>0, <2>5, <2>6, PathsAndStores
  <2>10. \A q : q \in PathsOf(set) <=> q \in PathsOf(tabs) \cup {p}
    BY <1>0, <2>1, <2>5, <2>6, PathsAndStores
  <2> QED
    BY <2>8, <2>9, <2>10 DEF set
<1>2. CASE p \notin PathsOf(tabs)
  <2> DEFINE t == [path |-> p, store |-> s]
  <2>1. set = Append(tabs, t)
    BY <1>2 DEF SetDocument
  <2>2. t \in T
    BY DEF T
  <2> HIDE DEF set
  <2>3. /\ set \in Seq(T) /\ Len(set) = Len(tabs) + 1
        /\ set[Len(tabs) + 1] = t
        /\ \A k \in 1..Len(tabs) : set[k] = tabs[k]
    BY <1>0, <2>1, <2>2, AppendProperties
  <2>4. DOMAIN set = 1..(Len(tabs) + 1)
    BY <2>3, LenProperties
  <2>5. \A k \in 1..Len(tabs) : tabs[k].store # s /\ tabs[k].path # p
    BY <1>0, <1>2, PathsAndStores
  <2>6. \A k \in 1..(Len(tabs) + 1) : k \in 1..Len(tabs) \/ k = Len(tabs) + 1
    BY <1>0
  <2>7. t.path = p /\ t.store = s
    OBVIOUS
  <2> HIDE DEF t
  <2>8. Proper(set, ids)
    BY <2>3, <2>5, <2>6, <2>7 DEF Proper, T
  <2>9. StoresOf(set) \subseteq StoresOf(tabs) \cup {s}
    BY <1>0, <2>3, <2>4, <2>6, <2>7, PathsAndStores
  <2>10. 1..Len(tabs) \subseteq 1..(Len(tabs) + 1) /\ Len(tabs) + 1 \in 1..(Len(tabs) + 1)
    BY <1>0
  <2>11. \A q : q \in PathsOf(set) <=> q \in PathsOf(tabs) \cup {p}
    BY <1>0, <2>3, <2>4, <2>6, <2>7, <2>10, PathsAndStores
  <2> QED
    BY <2>8, <2>9, <2>11 DEF set
<1> QED
  BY <1>1, <1>2

\* A document removed from the map (Map.delete) takes its path and store along.
LEMMA RemoveKeepsProper ==
    ASSUME NEW ids, NEW tabs, Proper(tabs, ids), NEW p \in PathsOf(tabs)
    PROVE  LET left == RemoveAt(tabs, IndexOf(tabs, p)) IN
           /\ Proper(left, ids)
           /\ StoresOf(left) \subseteq StoresOf(tabs) \ {StoreAt(tabs, p)}
           /\ PathsOf(left) = PathsOf(tabs) \ {p}
<1> DEFINE T == [path : Paths, store : ids]
           i == IndexOf(tabs, p)
           left == RemoveAt(tabs, i)
<1>0. /\ tabs \in Seq(T) /\ DOMAIN tabs = 1..Len(tabs) /\ Len(tabs) \in Nat
      /\ \A k \in 1..Len(tabs) : tabs[k] \in T
  <2>1. tabs \in Seq(T)
    BY DEF Proper
  <2> QED
    BY <2>1, LenProperties, ElementOfSeq
<1> HIDE DEF T
<1>1. i \in 1..Len(tabs) /\ tabs[i].path = p /\ tabs[i] \in T
  BY <1>0, IndexOfOpen
<1>2. StoreAt(tabs, p) = tabs[i].store
  BY DEF StoreAt
<1> HIDE DEF i
<1> HIDE DEF left
<1>3. left \in Seq(T) /\ WithoutAt(tabs, i, left)
  BY <1>0, <1>1, WithoutOne DEF left
<1>4. DOMAIN left = 1..Len(left)
  BY <1>3, LenProperties
<1>5. Proper(left, ids)
  <2>0. /\ \A k, l \in 1..Len(tabs) : tabs[k].path = tabs[l].path => k = l
        /\ \A k, l \in 1..Len(tabs) : tabs[k].store = tabs[l].store => k = l
    BY DEF Proper
  <2>1. \A k, l \in 1..Len(left) : left[k].path = left[l].path => k = l
    BY <1>3, <2>0 DEF WithoutAt
  <2>2. \A k, l \in 1..Len(left) : left[k].store = left[l].store => k = l
    BY <1>3, <2>0 DEF WithoutAt
  <2> QED
    BY <1>3, <2>1, <2>2 DEF Proper, T
<1>6. StoresOf(left) \subseteq StoresOf(tabs) \ {tabs[i].store}
  BY <1>0, <1>1, <1>3, <1>4, PathsAndStores, SMTT(30) DEF Proper, WithoutAt
<1>7. \A q : q \in PathsOf(left) <=> q \in PathsOf(tabs) \ {p}
  <2>1. \A q : q \in PathsOf(left) => q \in PathsOf(tabs) /\ q # p
    <3> TAKE q
    <3> SUFFICES ASSUME q \in PathsOf(left) PROVE q \in PathsOf(tabs) /\ q # p
      OBVIOUS
    <3>1. PICK k \in 1..Len(left) : left[k].path = q
      BY <1>4, PathsAndStores
    <3>2. Place(i, k) \in 1..Len(tabs) /\ Place(i, k) # i /\ tabs[Place(i, k)].path = q
      BY <1>3, <3>1 DEF WithoutAt
    <3> QED
      BY <1>0, <1>1, <3>2, PathsAndStores DEF Proper
  <2>2. \A q : q \in PathsOf(tabs) /\ q # p => q \in PathsOf(left)
    BY <1>0, <1>1, <1>3, <1>4, PathsAndStores, SMTT(30) DEF WithoutAt
  <2> QED
    BY <2>1, <2>2
<1> QED
  BY <1>2, <1>5, <1>6, <1>7 DEF left, i

\* A document moved to another path (followMove) keeps its store, or gets the
\* one later in the map when both paths are in it; only the old path goes.
LEMMA MoveKeepsProper ==
    ASSUME NEW ids, NEW tabs, Proper(tabs, ids),
           NEW from \in PathsOf(tabs), NEW to \in Paths, from # to
    PROVE  /\ Proper(Rebuilt(tabs, from, to), ids)
           /\ StoresOf(Rebuilt(tabs, from, to)) \subseteq StoresOf(tabs)
           /\ PathsOf(Rebuilt(tabs, from, to)) = (PathsOf(tabs) \ {from}) \cup {to}
<1> DEFINE T == [path : Paths, store : ids]
           i == IndexOf(tabs, from)
           new == Rebuilt(tabs, from, to)
<1>0. /\ tabs \in Seq(T) /\ DOMAIN tabs = 1..Len(tabs) /\ Len(tabs) \in Nat
      /\ \A k \in 1..Len(tabs) : tabs[k] \in T
  <2>1. tabs \in Seq(T)
    BY DEF Proper
  <2> QED
    BY <2>1, LenProperties, ElementOfSeq
<1> HIDE DEF T
<1>1. i \in 1..Len(tabs) /\ tabs[i].path = from /\ tabs[i] \in T
  BY <1>0, IndexOfOpen
<1>2. CASE to \notin PathsOf(tabs)
  <2>1. new = [tabs EXCEPT ![i].path = to]
    BY <1>2 DEF Rebuilt
  <2> HIDE DEF i, new
  <2> DEFINE t == [path |-> to, store |-> tabs[i].store]
  <2>2. [tabs[i] EXCEPT !.path = to] = t /\ t \in T
    BY <1>1 DEF T
  <2>3. t.path = to /\ t.store = tabs[i].store
    OBVIOUS
  <2> HIDE DEF t
  <2>4. new = [tabs EXCEPT ![i] = t]
    BY <2>1, <2>2
  <2>5. /\ new \in Seq(T) /\ Len(new) = Len(tabs)
        /\ \A k \in 1..Len(tabs) : new[k] = IF k = i THEN t ELSE tabs[k]
    BY <1>0, <1>1, <2>2, <2>4, ExceptSeq
  <2>6. DOMAIN new = 1..Len(tabs)
    BY <2>5, LenProperties
  <2>7. \A k \in 1..Len(tabs) : tabs[k].path # to
    BY <1>0, <1>2, PathsAndStores
  <2>8. Proper(new, ids)
    BY <1>1, <2>3, <2>5, <2>7 DEF Proper, T
  <2>9. StoresOf(new) \subseteq StoresOf(tabs)
    BY <1>0, <1>1, <2>3, <2>5, <2>6, PathsAndStores
  <2>10. \A q : q \in PathsOf(new) <=> q \in (PathsOf(tabs) \ {from}) \cup {to}
    BY <1>0, <1>1, <2>3, <2>5, <2>6, PathsAndStores DEF Proper
  <2> QED
    BY <2>8, <2>9, <2>10 DEF new
<1>3. CASE to \in PathsOf(tabs)
  <2> DEFINE j == IndexOf(tabs, to)
             first == IF i < j THEN i ELSE j
             last  == IF i < j THEN j ELSE i
             t     == [path |-> to, store |-> tabs[last].store]
             one   == [tabs EXCEPT ![first] = t]
  <2>1. j \in 1..Len(tabs) /\ tabs[j].path = to
    BY <1>0, <1>3, IndexOfOpen
  <2>2. new = RemoveAt(one, last)
    BY <1>3 DEF Rebuilt
  <2> HIDE DEF i, j, new
  <2>3. /\ first \in 1..Len(tabs) /\ last \in 1..Len(tabs) /\ first # last
        /\ i \in {first, last} /\ j \in {first, last}
    BY <1>0, <1>1, <2>1
  <2> HIDE DEF first, last
  <2>4. t \in T
    BY <1>0, <2>3 DEF T
  <2>5. t.path = to /\ t.store = tabs[last].store
    OBVIOUS
  <2> HIDE DEF t, one
  <2>6. /\ one \in Seq(T) /\ Len(one) = Len(tabs)
        /\ \A k \in 1..Len(tabs) : one[k] = IF k = first THEN t ELSE tabs[k]
    BY <1>0, <2>3, <2>4, ExceptSeq DEF one
  <2>7. new \in Seq(T) /\ WithoutAt(one, last, new)
    BY <2>2, <2>3, <2>6, WithoutOne
  <2>8. DOMAIN new = 1..Len(new)
    BY <2>7, LenProperties
  <2>9. \A m \in 1..Len(tabs) : m # first /\ m # last => tabs[m].path # to /\ tabs[m].path # from
    BY <1>1, <2>1, <2>3 DEF Proper
  <2>10. \A m, n \in 1..Len(tabs) :
           m # last /\ n # last /\ (one[m].path = one[n].path \/ one[m].store = one[n].store) => m = n
    BY <2>3, <2>5, <2>6, <2>9 DEF Proper
  <2>11. Proper(new, ids)
    <3>1. \A k, l \in 1..Len(new) : new[k].path = new[l].path \/ new[k].store = new[l].store => k = l
      BY <2>6, <2>7, <2>10 DEF WithoutAt
    <3> QED
      BY <2>7, <3>1 DEF Proper, T
  <2>12. StoresOf(new) \subseteq StoresOf(tabs)
    <3> SUFFICES ASSUME NEW s \in StoresOf(new) PROVE s \in StoresOf(tabs)
      OBVIOUS
    <3>1. PICK k \in 1..Len(new) : new[k].store = s
      BY <2>8, PathsAndStores
    <3>2. Place(last, k) \in 1..Len(tabs) /\ one[Place(last, k)].store = s
      BY <2>6, <2>7, <3>1 DEF WithoutAt
    <3> QED
      BY <1>0, <2>3, <2>5, <2>6, <3>2, PathsAndStores
  <2>13. \A m \in 1..Len(tabs) : m # last => one[m].path \in PathsOf(new)
    BY <2>6, <2>7, <2>8, PathsAndStores DEF WithoutAt
  <2>14. \A q : q \in PathsOf(new) => q \in (PathsOf(tabs) \ {from}) \cup {to}
    <3> SUFFICES ASSUME NEW q \in PathsOf(new) PROVE q \in (PathsOf(tabs) \ {from}) \cup {to}
      OBVIOUS
    <3>1. PICK k \in 1..Len(new) : new[k].path = q
      BY <2>8, PathsAndStores
    <3>2. /\ Place(last, k) \in 1..Len(tabs) /\ Place(last, k) # last
          /\ one[Place(last, k)].path = q
      BY <2>6, <2>7, <3>1 DEF WithoutAt
    <3> QED
      BY <1>0, <2>3, <2>5, <2>6, <2>9, <3>2, PathsAndStores
  <2>15. to \in PathsOf(new)
    BY <2>3, <2>5, <2>6, <2>13
  <2>16. \A q : q \in PathsOf(tabs) /\ q # from => q \in PathsOf(new)
    BY <1>0, <1>1, <2>1, <2>3, <2>6, <2>13, <2>15, PathsAndStores
  <2> QED
    BY <2>11, <2>12, <2>14, <2>15, <2>16 DEF new
<1> QED
  BY <1>2, <1>3
-----------------------------------------------------------------------------
(***************************************************************************)
(* The steps.                                                              *)
(***************************************************************************)
LEMMA SessionInit == Init => ISession
<1> SUFFICES ASSUME Init PROVE ISession
  OBVIOUS
<1>1. ITyped
  BY ConstantsAssumption, EmptySeq DEF Init, ITyped, File
<1>2. Proper(documents, 1..Len(stores))
  BY EmptySeq DEF Init, Proper
<1>3. PathsOf(documents) = {} /\ StoresOf(documents) = {}
  BY PathsAndStores DEF Init
<1> QED
  BY <1>1, <1>2, <1>3 DEF Init, ISession, ITabs, IStores, FrontIsOpen, FrontAgrees, InFront

\* An edit of one store, or of none.
LEMMA StoreEdited ==
    ASSUME NEW list \in Seq(Store), NEW n, NEW new, n \in 1..Len(list) => new \in Store
    PROVE  /\ [list EXCEPT ![n] = new] \in Seq(Store)
           /\ Len([list EXCEPT ![n] = new]) = Len(list)
           /\ \A k \in 1..Len(list) : [list EXCEPT ![n] = new][k] = IF k = n THEN new ELSE list[k]
<1>1. CASE n \in 1..Len(list)
  BY <1>1, ExceptSeq
<1>2. CASE n \notin 1..Len(list)
  <2>1. DOMAIN list = 1..Len(list) /\ list \in [1..Len(list) -> Store]
    BY LenProperties
  <2>2. [list EXCEPT ![n] = new] = list
    BY <1>2, <2>1
  <2> QED
    BY <1>2, <2>2
<1> QED
  BY <1>1, <1>2

\* The list of stores is as it was but for one, and that one is new in it.
OneEdited(n, new) ==
    /\ stores' \in Seq(Store) /\ Len(stores') = Len(stores)
    /\ \A k \in 1..Len(stores) : stores'[k] = IF k = n THEN new ELSE stores[k]

\* Every store has the life it had.
SameLives ==
    /\ stores' \in Seq(Store) /\ Len(stores') = Len(stores)
    /\ \A k \in 1..Len(stores) :
         stores'[k].closed = stores[k].closed /\ stores'[k].stage = stores[k].stage

\* An edit of a store's other fields keeps its life.
LEMMA EditKeepsLives ==
    ASSUME ITyped, NEW n, NEW new,
           stores' = [stores EXCEPT ![n] = new],
           n \in 1..Len(stores) =>
             new \in Store /\ new.closed = stores[n].closed /\ new.stage = stores[n].stage
    PROVE  SameLives
<1>1. stores \in Seq(Store)
  BY DEF ITyped
<1> QED
  BY <1>1, StoreEdited DEF SameLives

\* What an open, a save and the watcher make of a store.
LEMMA StoreSteps ==
    ASSUME ITyped, NEW s
    PROVE  /\ SaveStart(s) => SameLives
           /\ SaveEnd(s) => SameLives
           /\ Noticed(s) => SameLives
           /\ OpenReads(s) => \E new \in Store :
                /\ s \in 1..Len(stores) /\ Early(stores[s]) /\ OneEdited(s, new)
                /\ \/ new.stage = "read" /\ new.closed = stores[s].closed
                   \/ new.stage = "failed"
           /\ OpenListed(s) => \E new \in Store :
                /\ s \in 1..Len(stores) /\ Early(stores[s]) /\ OneEdited(s, new)
                /\ new.stage = "listed" /\ new.closed = stores[s].closed
                /\ stores[s].path \in Paths
           /\ OpenPublished(s) => \E new \in Store :
                /\ s \in 1..Len(stores) /\ stores[s].stage = "listed" /\ OneEdited(s, new)
                /\ new.stage = "loaded" /\ new.closed = stores[s].closed
<1>0. stores \in Seq(Store) /\ DOMAIN stores = 1..Len(stores)
      /\ \A k \in 1..Len(stores) : stores[k] \in Store
  <2>1. stores \in Seq(Store)
    BY DEF ITyped
  <2> QED
    BY <2>1, LenProperties, ElementOfSeq
<1>1. ASSUME SaveStart(s) PROVE SameLives
  <2> DEFINE new == [stores[s] EXCEPT !.saving = TRUE]
  <2>1. stores' = [stores EXCEPT ![s] = new]
    BY <1>1 DEF SaveStart
  <2>2. s \in 1..Len(stores) =>
          new \in Store /\ new.closed = stores[s].closed /\ new.stage = stores[s].stage
    BY <1>0 DEF Store
  <2> HIDE DEF new
  <2> QED
    BY <2>1, <2>2, EditKeepsLives
<1>2. ASSUME SaveEnd(s) PROVE SameLives
  <2> DEFINE saved   == [stores[s] EXCEPT !.saving = FALSE, !.file = NewFile, !.gone = FALSE]
             refused == [stores[s] EXCEPT !.saving = FALSE]
             faulted == [stores[s] EXCEPT !.saving = FALSE, !.blocked = TRUE]
  <2>1. \/ stores' = [stores EXCEPT ![s] = saved]
        \/ stores' = [stores EXCEPT ![s] = refused]
        \/ stores' = [stores EXCEPT ![s] = faulted]
    BY <1>2 DEF SaveEnd
  <2>2. s \in 1..Len(stores) /\ stores[s] \in Store
    BY <1>0, <1>2 DEF SaveEnd
  <2>3. NewFile \in Nat
    BY DEF NewFile, ITyped
  <2>4. saved \in Store /\ saved.closed = stores[s].closed /\ saved.stage = stores[s].stage
    BY <2>2, <2>3 DEF Store, File
  <2>5. refused \in Store /\ refused.closed = stores[s].closed /\ refused.stage = stores[s].stage
    BY <2>2 DEF Store
  <2>6. faulted \in Store /\ faulted.closed = stores[s].closed /\ faulted.stage = stores[s].stage
    BY <2>2 DEF Store
  <2> HIDE DEF saved, refused, faulted
  <2> QED
    BY <2>1, <2>4, <2>5, <2>6, EditKeepsLives
<1>3. ASSUME Noticed(s) PROVE SameLives
  <2> DEFINE new == [stores[s] EXCEPT !.gone = ~@]
  <2>1. stores' = [stores EXCEPT ![s] = new]
    BY <1>3 DEF Noticed
  <2>2. s \in 1..Len(stores) /\ stores[s] \in Store
    BY <1>0, <1>3 DEF Noticed
  <2>3. new \in Store /\ new.closed = stores[s].closed /\ new.stage = stores[s].stage
    BY <2>2 DEF Store
  <2> HIDE DEF new
  <2> QED
    BY <2>1, <2>3, EditKeepsLives
<1>4. ASSUME OpenReads(s)
      PROVE  \E new \in Store :
               /\ s \in 1..Len(stores) /\ Early(stores[s]) /\ OneEdited(s, new)
               /\ \/ new.stage = "read" /\ new.closed = stores[s].closed
                  \/ new.stage = "failed"
  <2> DEFINE p      == stores[s].path
             found  == p \in evidence
             read   == [stores[s] EXCEPT !.stage = "read", !.file = files[p], !.blocked = found]
             failed == [stores[s] EXCEPT !.stage = "failed", !.closed = TRUE]
  <2>1. \/ stores' = [stores EXCEPT ![s] = read]
        \/ stores' = [stores EXCEPT ![s] = failed]
    BY <1>4 DEF OpenReads
  <2>2. s \in 1..Len(stores) /\ stores[s] \in Store /\ Early(stores[s])
    BY <1>0, <1>4 DEF OpenReads, Early
  <2>3. p \in Paths
    BY <2>2 DEF Store
  <2>4. files[p] \in File \cup {None}
    BY <2>3 DEF ITyped
  <2>f. found \in BOOLEAN
    OBVIOUS
  <2> HIDE DEF found, p
  <2>5. read \in Store /\ read.stage = "read" /\ read.closed = stores[s].closed
    BY <2>2, <2>4, <2>f DEF Store
  <2>6. failed \in Store /\ failed.stage = "failed"
    BY <2>2 DEF Store
  <2> HIDE DEF read, failed
  <2>7. OneEdited(s, read) \/ OneEdited(s, failed)
    BY <1>0, <2>1, <2>5, <2>6, StoreEdited DEF OneEdited
  <2> QED
    BY <2>2, <2>5, <2>6, <2>7
<1>5. ASSUME OpenListed(s)
      PROVE  \E new \in Store :
               /\ s \in 1..Len(stores) /\ Early(stores[s]) /\ OneEdited(s, new)
               /\ new.stage = "listed" /\ new.closed = stores[s].closed
               /\ stores[s].path \in Paths
  <2> DEFINE new == [stores[s] EXCEPT !.stage = "listed"]
  <2>1. stores' = [stores EXCEPT ![s] = new]
    BY <1>5 DEF OpenListed
  <2>2. s \in 1..Len(stores) /\ stores[s] \in Store /\ Early(stores[s])
    BY <1>0, <1>5 DEF OpenListed, Early
  <2>3. new \in Store /\ new.stage = "listed" /\ new.closed = stores[s].closed
    BY <2>2 DEF Store
  <2>4. stores[s].path \in Paths
    BY <2>2 DEF Store
  <2> HIDE DEF new
  <2>5. OneEdited(s, new)
    BY <1>0, <2>1, <2>3, StoreEdited DEF OneEdited
  <2> QED
    BY <2>2, <2>3, <2>4, <2>5
<1>6. ASSUME OpenPublished(s)
      PROVE  \E new \in Store :
               /\ s \in 1..Len(stores) /\ stores[s].stage = "listed" /\ OneEdited(s, new)
               /\ new.stage = "loaded" /\ new.closed = stores[s].closed
  <2> DEFINE new == [stores[s] EXCEPT !.stage = "loaded"]
  <2>1. stores' = [stores EXCEPT ![s] = new]
    BY <1>6 DEF OpenPublished
  <2>2. s \in 1..Len(stores) /\ stores[s] \in Store /\ stores[s].stage = "listed"
    BY <1>0, <1>6 DEF OpenPublished
  <2>3. new \in Store /\ new.stage = "loaded" /\ new.closed = stores[s].closed
    BY <2>2 DEF Store
  <2> HIDE DEF new
  <2>4. OneEdited(s, new)
    BY <1>0, <2>1, <2>3, StoreEdited DEF OneEdited
  <2> QED
    BY <2>2, <2>3, <2>4
<1> QED
  BY <1>1, <1>2, <1>3, <1>4, <1>5, <1>6

\* Closing a document marks its store and no other.
LEMMA CloseStep ==
    ASSUME ITyped, NEW n, stores' = [stores EXCEPT ![n].closed = TRUE]
    PROVE  /\ stores' \in Seq(Store) /\ Len(stores') = Len(stores)
           /\ \A k \in 1..Len(stores) : /\ k # n => stores'[k] = stores[k]
                                        /\ stores'[k].stage = stores[k].stage
<1> DEFINE new == [stores[n] EXCEPT !.closed = TRUE]
<1>1. stores \in Seq(Store)
  BY DEF ITyped
<1>2. stores' = [stores EXCEPT ![n] = new]
  OBVIOUS
<1>3. n \in 1..Len(stores) => new \in Store /\ new.stage = stores[n].stage
  <2>1. SUFFICES ASSUME n \in 1..Len(stores) PROVE new \in Store /\ new.stage = stores[n].stage
    OBVIOUS
  <2>2. stores[n] \in Store
    BY <1>1, <2>1, ElementOfSeq
  <2> QED
    BY <2>2 DEF Store
<1> HIDE DEF new
<1>4. n \in 1..Len(stores) => new \in Store
  BY <1>3
<1>5. /\ [stores EXCEPT ![n] = new] \in Seq(Store)
      /\ Len([stores EXCEPT ![n] = new]) = Len(stores)
      /\ \A k \in 1..Len(stores) :
           [stores EXCEPT ![n] = new][k] = IF k = n THEN new ELSE stores[k]
  BY <1>1, <1>4, StoreEdited
<1> QED
  BY <1>2, <1>3, <1>5

\* Opening a path makes a store that is reading, or leaves the lives of all.
LEMMA OpenStep ==
    ASSUME ITyped, NEW p \in Paths, NEW re \in BOOLEAN, OpenMarkdownPath(p, re)
    PROVE  \/ SameLives
           \/ /\ stores' \in Seq(Store) /\ Len(stores') = Len(stores) + 1
              /\ \A k \in 1..Len(stores) : stores'[k] = stores[k]
              /\ ~stores'[Len(stores) + 1].closed
              /\ stores'[Len(stores) + 1].stage = "reading"
<1>0. stores \in Seq(Store)
  BY DEF ITyped
<1>1. CASE stores' = stores
  BY <1>0, <1>1 DEF SameLives
<1>2. CASE stores' = [stores EXCEPT ![opening[p]].reopened = @ \/ re]
  <2> DEFINE n == opening[p]
             new == [stores[n] EXCEPT !.reopened = @ \/ re]
  <2>1. stores' = [stores EXCEPT ![n] = new]
    BY <1>2
  <2>2. n \in 1..Len(stores) =>
          new \in Store /\ new.closed = stores[n].closed /\ new.stage = stores[n].stage
    <3>1. SUFFICES ASSUME n \in 1..Len(stores)
                   PROVE  new \in Store /\ new.closed = stores[n].closed /\ new.stage = stores[n].stage
      OBVIOUS
    <3>2. stores[n] \in Store
      BY <1>0, <3>1, ElementOfSeq
    <3> QED
      BY <3>2 DEF Store
  <2> HIDE DEF n, new
  <2> QED
    BY <2>1, <2>2, EditKeepsLives
<1>3. CASE stores' = Append(stores,
             [path |-> p, file |-> None, stage |-> "reading", closed |-> FALSE,
              reopened |-> re, saving |-> FALSE, blocked |-> FALSE, gone |-> FALSE])
  <2> DEFINE new == [path |-> p, file |-> None, stage |-> "reading", closed |-> FALSE,
                     reopened |-> re, saving |-> FALSE, blocked |-> FALSE, gone |-> FALSE]
  <2>1. new \in Store /\ ~new.closed /\ new.stage = "reading"
    BY DEF Store
  <2>2. stores' = Append(stores, new)
    BY <1>3
  <2> HIDE DEF new
  <2> QED
    BY <1>0, <2>1, <2>2, AppendProperties
<1> QED
  BY <1>1, <1>2, <1>3 DEF OpenMarkdownPath, Activate

\* A moved document's store is re-pointed (adoptPath) and lives on.
LEMMA MoveStep ==
    ASSUME ITyped, NEW i \in 1..Len(moves), moves[i].to # None, FollowMove(i)
    PROVE  SameLives /\ moves[i].from # moves[i].to /\ moves[i].to \in Paths
<1>0. stores \in Seq(Store) /\ moves[i] \in Move
  BY ElementOfSeq DEF ITyped
<1>1. moves[i].to \in Paths /\ moves[i].from # moves[i].to
  BY <1>0 DEF Move, ITyped
<1>2. CASE stores' = stores
  BY <1>0, <1>1, <1>2 DEF SameLives
<1>3. ASSUME NEW n, stores' = [stores EXCEPT ![n].path = moves[i].to] PROVE SameLives
  <2> DEFINE new == [stores[n] EXCEPT !.path = moves[i].to]
  <2>1. stores' = [stores EXCEPT ![n] = new]
    BY <1>3
  <2>2. n \in 1..Len(stores) =>
          new \in Store /\ new.closed = stores[n].closed /\ new.stage = stores[n].stage
    <3>1. SUFFICES ASSUME n \in 1..Len(stores)
                   PROVE  new \in Store /\ new.closed = stores[n].closed /\ new.stage = stores[n].stage
      OBVIOUS
    <3>2. stores[n] \in Store
      BY <1>0, <3>1, ElementOfSeq
    <3> QED
      BY <1>1, <3>2 DEF Store
  <2> HIDE DEF new
  <2> QED
    BY <2>1, <2>2, EditKeepsLives
<1> QED
  BY <1>1, <1>2, <1>3 DEF FollowMove

\* Types are kept.
LEMMA TypedStep == ITyped /\ [Next]_vars => ITyped'
<1> SUFFICES ASSUME ITyped, [Next]_vars PROVE ITyped'
  OBVIOUS
<1>0. SameLives \/ UNCHANGED stores => stores' \in Seq(Store)
  BY DEF SameLives, ITyped
<1>1. ASSUME NEW p \in Paths, OpenPath(p) PROVE ITyped'
  BY <1>0, <1>1, OpenStep DEF OpenPath, ITyped
<1>2. ASSUME NEW p \in Paths, Show(p) PROVE ITyped'
  BY <1>2 DEF Show, Activate, ITyped
<1>3. ASSUME NEW p \in Paths, NEW remember \in BOOLEAN, CloseTab(p, remember) PROVE ITyped'
  BY <1>3, CloseStep DEF CloseTab, Close, ITyped
<1>4. ASSUME NEW m \in Move, m.from # m.to, moves' = Append(moves, m)
      PROVE  moves' \in Seq(Move) /\ \A j \in 1..Len(moves') : moves'[j].from # moves'[j].to
  BY <1>4, AppendProperties DEF ITyped
<1>5. ASSUME NEW p \in Paths, TrashAsked(p) PROVE ITyped'
  <2> DEFINE m == [from |-> p, to |-> None, stage |-> "started"]
  <2>1. m \in Move /\ m.from # m.to
    BY ConstantsAssumption DEF Move
  <2>2. moves' = Append(moves, m)
    BY <1>5 DEF TrashAsked
  <2> HIDE DEF m
  <2> QED
    BY <1>4, <1>5, <2>1, <2>2 DEF TrashAsked, ITyped
<1>6. ASSUME NEW p \in Paths, NEW to \in Paths, MoveAsked(p, to) PROVE ITyped'
  <2> DEFINE m == [from |-> p, to |-> to, stage |-> "checked"]
  <2>1. m \in Move /\ m.from # m.to
    BY <1>6 DEF Move, MoveAsked
  <2>2. moves' = Append(moves, m)
    BY <1>6 DEF MoveAsked
  <2> HIDE DEF m
  <2> QED
    BY <1>4, <1>6, <2>1, <2>2 DEF MoveAsked, ITyped
<1>7. NewFile \in File /\ NewFile \in Nat
  BY DEF NewFile, File, ITyped
<1>8. ASSUME NEW p \in Paths, ForeignMakes(p) \/ ForeignRemoves(p) PROVE ITyped'
  <2>1. files' \in [Paths -> File \cup {None}]
    BY <1>7, <1>8 DEF ForeignMakes, ForeignRemoves, ITyped
  <2>2. spent.foreign + 1 \in Nat /\ spent.files + 1 \in Nat
    BY DEF ITyped
  <2>3. ForeignMakes(p) => spent' \in [saves : Nat, faults : Nat, foreign : Nat, files : Nat]
    BY <2>2 DEF ForeignMakes, ITyped
  <2>4. ForeignRemoves(p) => spent' \in [saves : Nat, faults : Nat, foreign : Nat, files : Nat]
    BY <2>2 DEF ForeignRemoves, ITyped
  <2> QED
    BY <1>8, <2>1, <2>3, <2>4 DEF ForeignMakes, ForeignRemoves, ITyped
<1>9. CASE ReopenClosed
  BY <1>9 DEF ReopenClosed, ITyped
<1>10. CASE ReopenFound
  BY <1>0, <1>10, OpenStep DEF ReopenFound, ITyped
<1>11. ASSUME NEW s \in 1..MaxOpens, OpenReads(s) PROVE ITyped'
  BY <1>11, StoreSteps DEF OpenReads, OneEdited, ITyped
<1>12. ASSUME NEW s \in 1..MaxOpens, OpenListed(s) PROVE ITyped'
  BY <1>12, StoreSteps DEF OpenListed, OneEdited, ITyped
<1>13. ASSUME NEW s \in 1..MaxOpens, OpenPublished(s) PROVE ITyped'
  BY <1>13, StoreSteps DEF OpenPublished, OneEdited, ITyped
<1>14. ASSUME NEW s \in 1..MaxOpens, SaveStart(s) PROVE ITyped'
  <2>1. spent' \in [saves : Nat, faults : Nat, foreign : Nat, files : Nat]
    BY <1>14 DEF SaveStart, ITyped
  <2> QED
    BY <1>0, <1>14, <2>1, StoreSteps DEF SaveStart, ITyped
<1>15. ASSUME NEW s \in 1..MaxOpens, SaveEnd(s) PROVE ITyped'
  <2>1. files' \in [Paths -> File \cup {None}]
    BY <1>7, <1>15 DEF SaveEnd, ITyped
  <2>2. spent' \in [saves : Nat, faults : Nat, foreign : Nat, files : Nat]
    BY <1>15, SMTT(30) DEF SaveEnd, ITyped
  <2> QED
    BY <1>0, <1>15, <2>1, <2>2, StoreSteps DEF SaveEnd, ITyped
<1>16. ASSUME NEW s \in 1..MaxOpens, Noticed(s) PROVE ITyped'
  BY <1>0, <1>16, StoreSteps DEF Noticed, ITyped
<1>17. ASSUME NEW i \in DOMAIN moves, NEW stage \in {"started", "moved", "done"}, Resume(i, stage)
       PROVE  moves' \in Seq(Move) /\ \A j \in 1..Len(moves') : moves'[j].from # moves'[j].to
  <2> DEFINE new == [moves[i] EXCEPT !.stage = stage]
  <2>1. moves \in Seq(Move) /\ i \in 1..Len(moves) /\ moves[i] \in Move
    BY LenProperties, ElementOfSeq DEF ITyped
  <2>2. new \in Move /\ new.from = moves[i].from /\ new.to = moves[i].to
    BY <2>1 DEF Move
  <2>3. moves' = [moves EXCEPT ![i] = new]
    BY <1>17 DEF Resume
  <2> HIDE DEF new
  <2>4. /\ moves' \in Seq(Move) /\ Len(moves') = Len(moves)
        /\ \A j \in 1..Len(moves) : moves'[j] = IF j = i THEN new ELSE moves[j]
    BY <2>1, <2>2, <2>3, ExceptSeq
  <2> QED
    BY <2>2, <2>4 DEF ITyped
<1>18. ASSUME NEW i \in 1..MaxMoves, MoveStarts(i) PROVE ITyped'
  BY <1>17, <1>18 DEF MoveStarts, At, ITyped
<1>19. ASSUME NEW i \in 1..MaxMoves, FileMoves(i) PROVE ITyped'
  <2>1. moves[i] \in Move
    BY <1>19, LenProperties, ElementOfSeq DEF FileMoves, At, ITyped
  <2>2. files' \in [Paths -> File \cup {None}]
    BY <1>19, <2>1 DEF FileMoves, ITyped, Move
  <2> QED
    BY <1>17, <1>19, <2>2 DEF FileMoves, At, ITyped
<1>20. ASSUME NEW i \in 1..MaxMoves, FollowMove(i) PROVE ITyped'
  <2>1. i \in 1..Len(moves) /\ moves[i].to # None
    BY <1>20, LenProperties DEF FollowMove, At, ITyped
  <2>2. stores' \in Seq(Store)
    BY <1>0, <1>20, <2>1, MoveStep
  <2> QED
    BY <1>17, <1>20, <2>2 DEF FollowMove, At, ITyped
<1>21. ASSUME NEW i \in 1..MaxMoves, FollowTrash(i) PROVE ITyped'
  <2>1. stores' \in Seq(Store)
    BY <1>0, <1>21, CloseStep DEF FollowTrash, Close
  <2> QED
    BY <1>17, <1>21, <2>1 DEF FollowTrash, At, ITyped
<1>22. CASE UNCHANGED vars
  BY <1>22 DEF vars, ITyped
<1> QED
  BY <1>1, <1>2, <1>3, <1>5, <1>6, <1>8, <1>9, <1>10, <1>11, <1>12, <1>13, <1>14, <1>15, <1>16,
     <1>18, <1>19, <1>20, <1>21, <1>22 DEF Next

\* While stores keep their lives, so do those of the open documents.
LEMMA LivesStay ==
    ASSUME ISession, SameLives
    PROVE  /\ Proper(documents, 1..Len(stores'))
           /\ \A s \in StoresOf(documents) : Live(stores'[s])
           /\ \A s \in 1..Len(stores') : Early(stores'[s]) => ~stores'[s].closed
           /\ \A s \in 1..Len(stores) : stores'[s].stage = stores[s].stage
<1>1. StoresOf(documents) \subseteq 1..Len(stores)
  BY ProperStores DEF ISession, ITabs
<1> QED
  BY <1>1 DEF ISession, ITabs, IStores, SameLives, Live, Early

\* A step that shows the window no other front, and changes no life.
LEMMA QuietStep ==
    ASSUME ISession, SameLives, UNCHANGED <<documents, activePath, window>>
    PROVE  ITabs'
<1>1. DOMAIN stores = 1..Len(stores) /\ DOMAIN stores' = 1..Len(stores)
  BY LenProperties DEF ISession, ITyped, SameLives
<1>2. StoresOf(documents') = StoresOf(documents)
  OBVIOUS
<1>3. FrontAgrees'
  BY <1>1, LivesStay DEF ISession, ITabs, FrontAgrees
<1>4. FrontIsOpen'
  BY DEF ISession, ITabs, FrontIsOpen
<1>5. Proper(documents, 1..Len(stores))' /\ IStores'
  BY <1>2, LivesStay DEF IStores
<1> QED
  BY <1>3, <1>4, <1>5 DEF ITabs

\* A step that tells the window which document is in front.
LEMMA ToldStep ==
    ASSUME PublishTabs, FrontIsOpen', Proper(documents', 1..Len(stores')),
           \A s \in StoresOf(documents') : Live(stores'[s]),
           \A s \in 1..Len(stores') : Early(stores'[s]) => ~stores'[s].closed
    PROVE  ITabs'
<1>1. FrontAgrees'
  BY DEF FrontAgrees, PublishTabs
<1> QED
  BY <1>1 DEF ITabs, IStores

LEMMA TabsStep == ISession /\ [Next]_vars => ITabs'
<1> SUFFICES ASSUME ISession, [Next]_vars PROVE ITabs'
  OBVIOUS
<1> DEFINE T == [path : Paths, store : 1..Len(stores)]
<1>0. /\ documents \in Seq(T) /\ Proper(documents, 1..Len(stores))
      /\ StoresOf(documents) \subseteq 1..Len(stores)
      /\ PathsOf(documents) \subseteq Paths
      /\ ITyped /\ stores \in Seq(Store) /\ DOMAIN stores = 1..Len(stores)
      /\ Len(stores) \in Nat
  BY ProperStores, LenProperties DEF ISession, ITabs, ITyped, Proper
<1> HIDE DEF T
<1>1. SameLives \/ stores' # stores
  BY <1>0 DEF SameLives
<1>2. ASSUME NEW p \in Paths, NEW re \in BOOLEAN, OpenMarkdownPath(p, re) PROVE ITabs'
  <2>1. CASE UNCHANGED <<stores, documents>> /\ p \in PathsOf(documents) /\ Activate(p)
    BY <1>0, <1>1, <2>1, ToldStep, LivesStay, NoPathsNoDocuments, ConstantsAssumption
       DEF Activate, FrontIsOpen
  <2>2. CASE UNCHANGED <<documents, activePath, window>>
    <3>1. CASE SameLives
      BY <2>2, <3>1, QuietStep
    <3>2. CASE /\ stores' \in Seq(Store) /\ Len(stores') = Len(stores) + 1
               /\ \A k \in 1..Len(stores) : stores'[k] = stores[k]
               /\ ~stores'[Len(stores) + 1].closed
               /\ stores'[Len(stores) + 1].stage = "reading"
      <4>1. 1..Len(stores) \subseteq 1..Len(stores')
        BY <1>0, <3>2
      <4>2. Proper(documents', 1..Len(stores'))
        BY <1>0, <2>2, <4>1, ProperGrows
      <4>3. \A s \in StoresOf(documents') : Live(stores'[s])
        BY <1>0, <2>2, <3>2 DEF ISession, ITabs, IStores
      <4>4. \A k \in 1..Len(stores') : k \in 1..Len(stores) \/ k = Len(stores) + 1
        BY <1>0, <3>2
      <4>5. \A s \in 1..Len(stores') : Early(stores'[s]) => ~stores'[s].closed
        BY <3>2, <4>4 DEF ISession, ITabs, IStores
      <4>6. FrontAgrees'
        <5>1. DOMAIN stores' = 1..Len(stores')
          BY <3>2, LenProperties
        <5> QED
          BY <1>0, <2>2, <3>2, <4>1, <5>1 DEF ISession, ITabs, FrontAgrees
      <4>7. FrontIsOpen'
        BY <2>2 DEF ISession, ITabs, FrontIsOpen
      <4> QED
        BY <4>2, <4>3, <4>5, <4>6, <4>7 DEF ITabs, IStores
    <3> QED
      BY <1>0, <1>2, <3>1, <3>2, OpenStep
  <2> QED
    BY <1>2, <2>1, <2>2 DEF OpenMarkdownPath, Activate
<1>3. ASSUME NEW p \in Paths, Show(p) PROVE ITabs'
  BY <1>0, <1>1, <1>3, ToldStep, LivesStay, NoPathsNoDocuments, ConstantsAssumption
     DEF Show, Activate, FrontIsOpen
<1>4. ASSUME NEW p \in PathsOf(documents), NEW remember \in BOOLEAN, Close(p, remember) PROVE ITabs'
  <2> DEFINE n == StoreAt(documents, p)
  <2>1. /\ Proper(documents', 1..Len(stores))
        /\ StoresOf(documents') \subseteq StoresOf(documents) \ {n}
        /\ PathsOf(documents') = PathsOf(documents) \ {p}
    BY <1>0, <1>4, RemoveKeepsProper DEF Close
  <2>2. stores' = [stores EXCEPT ![n].closed = TRUE]
    BY <1>4 DEF Close
  <2> HIDE DEF n
  <2>3. /\ Len(stores') = Len(stores)
        /\ \A k \in 1..Len(stores) : /\ k # n => stores'[k] = stores[k]
                                     /\ stores'[k].stage = stores[k].stage
    BY <1>0, <2>2, CloseStep
  <2>4. \A s \in StoresOf(documents') : Live(stores'[s])
    BY <1>0, <2>1, <2>3 DEF ISession, ITabs, IStores
  <2>5. \A s \in 1..Len(stores') : Early(stores'[s]) => ~stores'[s].closed
    <3>1. Live(stores[n])
      BY <1>0, PathsAndStores, IndexOfOpen, LenProperties DEF n, StoreAt, ISession, ITabs, IStores
    <3> QED
      BY <2>3, <3>1 DEF ISession, ITabs, IStores, Live, Early
  <2>6. FrontIsOpen'
    <3> DEFINE i == IndexOf(documents, p)
    <3>1. /\ documents' = <<>> <=> PathsOf(documents) \ {p} = {}
          /\ None \notin Paths
      BY <2>1, NoPathsNoDocuments, ConstantsAssumption DEF Proper
    <3>2. activePath \in PathsOf(documents)
      BY NoPathsNoDocuments, <1>0 DEF ISession, ITabs, FrontIsOpen
    <3>3. CASE activePath # p
      BY <1>0, <1>4, <2>1, <3>1, <3>2, <3>3 DEF Close, FrontIsOpen
    <3>4. CASE activePath = p
      <4>1. i \in 1..Len(documents) /\ documents[i].path = p /\ Len(documents) \in Nat
        BY <1>0, IndexOfOpen, LenProperties
      <4>2. activePath' = IF i > 1 THEN documents[i - 1].path
                          ELSE IF Len(documents) > 1 THEN documents[2].path ELSE None
        BY <1>4, <3>4 DEF Close, Neighbour
      <4> HIDE DEF i
      <4>3. \A k \in 1..Len(documents) : documents[k].path \in PathsOf(documents)
        BY <1>0, PathsAndStores, LenProperties
      <4>4. \A k \in 1..Len(documents) : k # i => documents[k].path # p
        BY <1>0, <4>1 DEF Proper
      <4>5. CASE i > 1
        <5>1. i - 1 \in 1..Len(documents) /\ i - 1 # i
          BY <4>1, <4>5
        <5>2. activePath' \in PathsOf(documents) \ {p}
          BY <4>2, <4>3, <4>4, <4>5, <5>1
        <5> QED
          BY <1>0, <2>1, <3>1, <5>2 DEF FrontIsOpen
      <4>6. CASE ~(i > 1) /\ Len(documents) > 1
        <5>1. 2 \in 1..Len(documents) /\ 2 # i
          BY <4>1, <4>6
        <5>2. activePath' \in PathsOf(documents) \ {p}
          BY <4>2, <4>3, <4>4, <4>6, <5>1
        <5> QED
          BY <1>0, <2>1, <3>1, <5>2 DEF FrontIsOpen
      <4>7. CASE ~(i > 1) /\ ~(Len(documents) > 1)
        <5>1. \A k \in 1..Len(documents) : k = i
          BY <4>1, <4>7
        <5>2. PathsOf(documents) \ {p} = {}
          BY <1>0, <4>1, <5>1, PathsAndStores, LenProperties
        <5> QED
          BY <3>1, <4>2, <4>7, <5>2 DEF FrontIsOpen
      <4> QED
        BY <4>5, <4>6, <4>7
    <3> QED
      BY <3>3, <3>4
  <2> QED
    BY <1>4, <2>1, <2>3, <2>4, <2>5, <2>6, ToldStep DEF Close
<1>5. ASSUME NEW s \in 1..MaxOpens, OpenReads(s) PROVE ITabs'
  <2>1. PICK new \in Store :
          /\ s \in 1..Len(stores) /\ Early(stores[s]) /\ OneEdited(s, new)
          /\ \/ new.stage = "read" /\ new.closed = stores[s].closed
             \/ new.stage = "failed"
    BY <1>0, <1>5, StoreSteps
  <2>2. UNCHANGED <<documents, activePath, window>>
    BY <1>5 DEF OpenReads
  <2>3. Len(stores') = Len(stores) /\ DOMAIN stores' = 1..Len(stores)
    BY <2>1, LenProperties DEF OneEdited
  <2>4. s \notin StoresOf(documents)
    BY <2>1 DEF ISession, ITabs, IStores, Live, Early
  <2>5. \A k \in StoresOf(documents) : Live(stores'[k])
    BY <1>0, <2>1, <2>4 DEF ISession, ITabs, IStores, OneEdited
  <2>6. \A k \in 1..Len(stores') : Early(stores'[k]) => ~stores'[k].closed
    BY <2>1, <2>3 DEF ISession, ITabs, IStores, OneEdited, Early
  <2>7. FrontAgrees'
    BY <1>0, <2>1, <2>2, <2>3 DEF ISession, ITabs, FrontAgrees, OneEdited, Early
  <2>8. FrontIsOpen'
    BY <2>2 DEF ISession, ITabs, FrontIsOpen
  <2> QED
    BY <1>0, <2>2, <2>3, <2>5, <2>6, <2>7, <2>8 DEF ITabs, IStores
<1>6. ASSUME NEW s \in 1..MaxOpens, OpenListed(s) PROVE ITabs'
  <2>1. PICK new \in Store :
          /\ s \in 1..Len(stores) /\ Early(stores[s]) /\ OneEdited(s, new)
          /\ new.stage = "listed" /\ new.closed = stores[s].closed
          /\ stores[s].path \in Paths
    BY <1>0, <1>6, StoreSteps
  <2> DEFINE p == stores[s].path
  <2>2. documents' = SetDocument(documents, p, s) /\ activePath' = p
    BY <1>6 DEF OpenListed
  <2>3. Len(stores') = Len(stores) /\ DOMAIN stores' = 1..Len(stores)
    BY <2>1, LenProperties DEF OneEdited
  <2>4. s \notin StoresOf(documents)
    BY <2>1 DEF ISession, ITabs, IStores, Live, Early
  <2>5. p \in Paths /\ s \in 1..Len(stores)
    BY <2>1
  <2> HIDE DEF p
  <2>6. /\ Proper(documents', 1..Len(stores))
        /\ StoresOf(documents') \subseteq StoresOf(documents) \cup {s}
        /\ PathsOf(documents') = PathsOf(documents) \cup {p}
    BY <1>0, <2>2, <2>4, <2>5, SetKeepsProper
  <2>7. Live(stores'[s])
    BY <2>1 DEF ISession, ITabs, IStores, OneEdited, Live
  <2>8. \A k \in StoresOf(documents') : Live(stores'[k])
    BY <1>0, <2>1, <2>4, <2>6, <2>7 DEF ISession, ITabs, IStores, OneEdited
  <2>9. \A k \in 1..Len(stores') : Early(stores'[k]) => ~stores'[k].closed
    BY <2>1, <2>3 DEF ISession, ITabs, IStores, OneEdited, Early
  <2>10. FrontAgrees'
    BY <2>1, <2>3 DEF FrontAgrees, OneEdited
  <2>11. FrontIsOpen'
    BY <2>2, <2>5, <2>6, NoPathsNoDocuments, ConstantsAssumption DEF FrontIsOpen, Proper
  <2> QED
    BY <2>3, <2>6, <2>8, <2>9, <2>10, <2>11 DEF ITabs, IStores
<1>7. ASSUME NEW s \in 1..MaxOpens, OpenPublished(s) PROVE ITabs'
  <2>1. PICK new \in Store :
          /\ s \in 1..Len(stores) /\ stores[s].stage = "listed" /\ OneEdited(s, new)
          /\ new.stage = "loaded" /\ new.closed = stores[s].closed
    BY <1>0, <1>7, StoreSteps
  <2>2. UNCHANGED <<documents, activePath>> /\ PublishTabs
    BY <1>7 DEF OpenPublished
  <2>3. Len(stores') = Len(stores)
    BY <2>1 DEF OneEdited
  <2>4. \A k \in StoresOf(documents) : Live(stores'[k])
    BY <1>0, <2>1 DEF ISession, ITabs, IStores, OneEdited, Live
  <2>5. \A k \in 1..Len(stores') : Early(stores'[k]) => ~stores'[k].closed
    BY <2>1, <2>3 DEF ISession, ITabs, IStores, OneEdited, Early
  <2>6. FrontIsOpen'
    BY <2>2 DEF ISession, ITabs, FrontIsOpen
  <2> QED
    BY <1>0, <2>2, <2>3, <2>4, <2>5, <2>6, ToldStep
<1>8. ASSUME NEW i \in 1..MaxMoves, FollowMove(i) PROVE ITabs'
  <2> DEFINE from == moves[i].from
             to   == moves[i].to
  <2>1. i \in 1..Len(moves) /\ to # None
    BY <1>0, <1>8, LenProperties DEF FollowMove, At, ITyped
  <2>2. SameLives /\ from # to /\ to \in Paths
    BY <1>0, <1>8, <2>1, MoveStep
  <2>3. CASE UNCHANGED <<documents, activePath, window>>
    BY <2>2, <2>3, QuietStep
  <2>4. CASE /\ from \in PathsOf(documents)
             /\ documents' = Rebuilt(documents, from, to)
             /\ activePath' = Followed(activePath, from, to)
             /\ PublishTabs
    <3> HIDE DEF from, to
    <3>1. /\ Proper(documents', 1..Len(stores))
          /\ StoresOf(documents') \subseteq StoresOf(documents)
          /\ PathsOf(documents') = (PathsOf(documents) \ {from}) \cup {to}
      BY <1>0, <2>2, <2>4, MoveKeepsProper
    <3>2. documents' # <<>> /\ documents # <<>>
      BY <1>0, <2>4, <3>1, NoPathsNoDocuments DEF Proper
    <3>3. FrontIsOpen'
      BY <2>2, <2>4, <3>1, <3>2, ConstantsAssumption DEF ISession, ITabs, FrontIsOpen, Followed
    <3> QED
      BY <2>2, <2>4, <3>1, <3>3, LivesStay, ToldStep DEF SameLives
  <2> QED
    BY <1>8, <2>3, <2>4 DEF FollowMove
<1>9. ASSUME NEW s \in 1..MaxOpens, SaveStart(s) \/ SaveEnd(s) \/ Noticed(s) PROVE ITabs'
  BY <1>0, <1>9, StoreSteps, QuietStep DEF SaveStart, SaveEnd, Noticed
<1>10. CASE UNCHANGED <<stores, documents, activePath, window>>
  BY <1>1, <1>10, QuietStep
<1>11. ASSUME NEW p \in Paths, NEW to \in Paths,
              TrashAsked(p) \/ MoveAsked(p, to) \/ ForeignMakes(p) \/ ForeignRemoves(p)
       PROVE  ITabs'
  BY <1>10, <1>11 DEF TrashAsked, MoveAsked, ForeignMakes, ForeignRemoves
<1>12. CASE ReopenClosed
  BY <1>10, <1>12 DEF ReopenClosed
<1>13. CASE ReopenFound
  BY <1>2, <1>10, <1>13 DEF ReopenFound
<1>14. ASSUME NEW i \in 1..MaxMoves, MoveStarts(i) \/ FileMoves(i) PROVE ITabs'
  BY <1>10, <1>14 DEF MoveStarts, FileMoves
<1>15. ASSUME NEW i \in 1..MaxMoves, FollowTrash(i) PROVE ITabs'
  BY <1>4, <1>10, <1>15 DEF FollowTrash
<1>16. ASSUME NEW p \in Paths, OpenPath(p) PROVE ITabs'
  BY <1>2, <1>16 DEF OpenPath
<1>17. ASSUME NEW p \in Paths, NEW remember \in BOOLEAN, CloseTab(p, remember) PROVE ITabs'
  BY <1>4, <1>17 DEF CloseTab
<1> QED
  BY <1>3, <1>5, <1>6, <1>7, <1>8, <1>9, <1>10, <1>11, <1>12, <1>13, <1>14, <1>15, <1>16, <1>17
     DEF Next, vars

LEMMA SessionInvariant == Spec => []ISession
<1>1. ISession /\ [Next]_vars => ISession'
  BY TypedStep, TabsStep DEF ISession
<1> QED
  BY <1>1, SessionInit, PTL DEF Spec

\* Through opens that end late, closes and moves of the files beneath, the
\* window's front note is the session's (publishTabs follows every change),
\* except between a listing and its publication.
THEOREM WindowFollowsFront == Spec => []FrontAgrees
<1>1. ISession => FrontAgrees
  BY DEF ISession, ITabs
<1> QED
  BY <1>1, SessionInvariant, PTL

\* The front note is an open one, and there is one while any is open: close
\* falls back to a neighbour, and followMove takes the front along.
THEOREM FrontIsAlwaysOpen == Spec => []FrontIsOpen
<1>1. ISession => FrontIsOpen
  BY DEF ISession, ITabs
<1> QED
  BY <1>1, SessionInvariant, PTL

\* Every open document has a store of its own, neither closed nor still
\* reading, whichever of two documents a rename onto the other's path leaves.
THEOREM StoresLiveAndApart == Spec => []OwnLiveStore
<1>1. ISession => OwnLiveStore
  <2> SUFFICES ASSUME ISession PROVE OwnLiveStore
    OBVIOUS
  <2>1. documents \in Seq([path : Paths, store : 1..Len(stores)])
    BY DEF ISession, ITabs, Proper
  <2>2. DOMAIN documents = 1..Len(documents)
    BY <2>1, LenProperties
  <2>3. \A i \in DOMAIN documents : documents[i].store \in StoresOf(documents)
    BY PathsAndStores
  <2> QED
    BY <2>2, <2>3 DEF ISession, ITabs, IStores, Proper, Live, OwnLiveStore
<1> QED
  BY <1>1, SessionInvariant, PTL
=============================================================================
