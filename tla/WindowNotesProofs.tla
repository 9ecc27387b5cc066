-------------------------- MODULE WindowNotesProofs --------------------------
(***************************************************************************)
(* Theorems about a window with several notes, for any number of notes,    *)
(* edits, saves and changes of front: no edits main knows of are dropped   *)
(* unasked, and at rest the next save of every note fits its store.  The   *)
(* panels beside the notes draw the answers to what is in their fields.    *)
(***************************************************************************)
EXTENDS WindowPanels, FiniteSetTheorems, SequenceTheorems, TLAPS

-----------------------------------------------------------------------------
(***************************************************************************)
(* What the state is made of.                                              *)
(***************************************************************************)
Ids == Notes \cup {NoNote}
DocRecord == [id : Ids, rev : Nat, token : Ids \X Nat, dirty : BOOLEAN, blocked : BOOLEAN]
Known(docs) == DOMAIN docs \subseteq Notes /\ docs \in [DOMAIN docs -> DocRecord]
Framed(s) ==
    /\ s \in [docs : {s.docs}, active : Ids, pending : BOOLEAN, barrier : BOOLEAN, shell : BOOLEAN]
    /\ Known(s.docs)
Mounted == [of : Ids, base : Nat, made : Nat, dirty : BOOLEAN]
Sent == [is : {"open", "release"}, note : Notes] \cup [is : {"unsaved"}, notes : [Notes -> Nat]] \cup [is : {"call"}]
Published == [brings : BOOLEAN, notes : {S \in SUBSET Notes : IsFiniteSet(S)}, recent : Seq(Notes), front : Ids]
Saving == [kind : {"save"}, phase : {"sent", "running", "answered"}, at : Ids,
           status : {"none", "saved", "stale", "evidence", "error"}, rev : Nat,
           target : Ids, editor : Ids, of : Ids, base : Nat, made : Nat, token : Ids \X Nat]
Recovering == [kind : {"recover"}, phase : {"sent", "running", "answered"}, at : Ids,
               status : {"none", "saved", "stale", "evidence", "error"}, rev : Nat]

ITyped ==
    /\ open \in Seq(Notes) /\ recent \in Seq(Notes) /\ front \in Ids /\ seen \in SUBSET Notes
    /\ store \in [Notes -> [rev : Nat, made : Nat, recovery : BOOLEAN]]
    /\ unsaved \in [Notes -> Nat]
    /\ toMain \in Seq(Sent) /\ toWindow \in Seq(Published)
    /\ call \in {NoCall} \cup Saving \cup Recovering
    /\ Framed(state) /\ Framed(shown)
    /\ activeRef \in Ids /\ editorRef \in DOMAIN editors \cup {NoNote}
    /\ DOMAIN editors \subseteq Notes /\ editors \in [DOMAIN editors -> Mounted]
    /\ told \in SUBSET Notes
    /\ asked \in [Notes -> Nat]
    /\ releasing \subseteq Notes
    /\ crossed \in BOOLEAN /\ lost \in BOOLEAN

(***************************************************************************)
(* What main will know of a note when it has taken the calls sent it.      *)
(***************************************************************************)
\* The list main has, and those on their way.
Tells(j) == j = 0 \/ toMain[j].is = "unsaved"
List(j) == IF j = 0 THEN unsaved ELSE toMain[j].notes

\* The last of the first i calls that tells of unsaved edits tells of none in n.
Clean(i, n) ==
    \A j \in 0..i : Tells(j) /\ (\A k \in (j + 1)..i : ~Tells(k)) => List(j)[n] = 0

\* A note that is let go, and one the window has not told of, is clean to main;
\* so is every note main has closed.
ITold ==
    /\ told = DirtyNotes(shown)
    /\ \A n \in Notes \ told : Clean(Len(toMain), n)
    /\ \A i \in DOMAIN toMain : toMain[i].is = "release" => Clean(i - 1, toMain[i].note)
    /\ asked = Nothing

(***************************************************************************)
(* News.                                                                   *)
(***************************************************************************)
\* What main has open, and will have, the window keeps once it has it.
INews ==
    /\ Range(open) \subseteq seen /\ front \in Range(open) \cup {NoNote}
    /\ Loaded(state.docs) \subseteq seen /\ Loaded(shown.docs) \subseteq seen
    /\ \A k \in DOMAIN toWindow :
        /\ toWindow[k].notes \subseteq seen
        /\ toWindow[k].brings => toWindow[k].front \in toWindow[k].notes \cup {NoNote}
        /\ \A n \in Range(open) \ toWindow[k].notes :
              n \notin Loaded(state.docs) /\ \A j \in 1..(k - 1) : n \notin toWindow[j].notes
    /\ Range(open) \cap Loaded(shown.docs) \subseteq Loaded(state.docs)

(***************************************************************************)
(* Revisions.                                                              *)
(***************************************************************************)
Own(docs) == \A n \in DOMAIN docs : docs[n].id = n

\* The store has accepted what the call's answer has yet to say.
Ahead(n) == call.kind # "none" /\ call.phase = "answered" /\ call.status = "saved" /\ call.at = n

IHome ==
    /\ Own(state.docs) /\ Own(shown.docs)
    /\ DOMAIN editors \subseteq Loaded(shown.docs)

ICall ==
    /\ call.kind # "none" => call.at \in seen \cup {NoNote}
    /\ call.kind # "none" /\ call.phase = "answered" /\ call.status = "saved" =>
          call.at # NoNote /\ call.rev = store[call.at].rev
    /\ \A n \in Notes \ seen : store[n].rev = 0

IFits ==
    /\ \A n \in Range(open) : ~Ahead(n) =>
        /\ n \in DOMAIN editors => editors[n].base = store[n].rev
        /\ n \in Loaded(state.docs) => state.docs[n].rev = store[n].rev /\ state.docs[n].token = <<n, store[n].rev>>
        /\ n \notin DOMAIN editors => store[n].rev = 0
    /\ \A n \in Loaded(state.docs) \ DOMAIN editors : state.docs[n].rev = 0
    /\ \A n \in Loaded(shown.docs) \ DOMAIN editors : shown.docs[n].rev = 0

IKept == ~lost

\* One call is on its way to main at most, and it is the one in flight.
IOne ==
    \A i \in DOMAIN toMain : toMain[i].is = "call" =>
        /\ call.kind # "none" /\ call.phase = "sent"
        /\ \A j \in DOMAIN toMain : toMain[j].is = "call" => j = i

IWindow ==
    /\ ITyped /\ ITold /\ INews /\ ICall /\ IOne
    /\ ~crossed => IHome /\ IFits /\ IKept

-----------------------------------------------------------------------------
(***************************************************************************)
(* The operators the model is built from.                                  *)
(***************************************************************************)
\* A list of notes without one of them has no other notes.
LEMMA LeftAreThere ==
  ASSUME NEW s \in Seq(Notes), NEW n
  PROVE  LeftOf(s, n) \in Seq(Notes) /\ Range(LeftOf(s, n)) \subseteq Range(s)
<1>1. CASE n \notin Range(s)
  BY <1>1 DEF LeftOf
<1>2. CASE n \in Range(s)
  <2> DEFINE p == PlaceOf(s, n)
             l == SubSeq(s, 1, p - 1)
             r == SubSeq(s, p + 1, Len(s))
  <2>1. p \in 1..Len(s)
    BY <1>2 DEF PlaceOf, Range
  <2>2. LeftOf(s, n) = l \o r
    BY <1>2 DEF LeftOf, RemoveAt
  <2>3. l \in Seq(Notes) /\ Len(l) = p - 1 /\ \A i \in 1..(p - 1) : l[i] = s[i]
    BY <2>1
  <2>4. r \in Seq(Notes) /\ Len(r) = Len(s) - p /\ \A i \in 1..(Len(s) - p) : r[i] = s[p + i]
    BY <2>1
  <2> HIDE DEF p, l, r
  <2>a. /\ l \o r \in Seq(Notes) /\ Len(l \o r) = Len(l) + Len(r)
        /\ \A i \in 1..(Len(l) + Len(r)) : (l \o r)[i] = IF i <= Len(l) THEN l[i] ELSE r[i - Len(l)]
    BY <2>3, <2>4, ConcatProperties
  <2>5. Len(l \o r) = Len(s) - 1 /\ DOMAIN (l \o r) = 1..(Len(s) - 1)
    BY <2>1, <2>3, <2>4, <2>a
  <2>6. ASSUME NEW i \in DOMAIN (l \o r)
        PROVE  (l \o r)[i] \in Range(s)
    <3>1. i \in 1..(Len(s) - 1)
      BY <2>5, <2>6
    <3>2. CASE i <= p - 1
      <4>1. (l \o r)[i] = s[i]
        BY <2>1, <2>3, <2>4, <2>a, <3>1, <3>2
      <4> QED
        BY <4>1, <2>1, <3>1, <3>2 DEF Range
    <3>3. CASE i > p - 1
      <4>1. (l \o r)[i] = s[i + 1] /\ i + 1 \in 1..Len(s)
        BY <2>1, <2>3, <2>4, <2>a, <3>1, <3>3
      <4> QED
        BY <4>1 DEF Range
    <3> QED
      BY <3>1, <3>2, <3>3, <2>1
  <2> QED
    BY <2>2, <2>a, <2>6 DEF Range
<1> QED
  BY <1>1, <1>2

\* A place in a list is a place where the note is.
LEMMA PlaceIsThere ==
  ASSUME NEW s \in Seq(Notes), NEW n \in Range(s)
  PROVE  PlaceOf(s, n) \in 1..Len(s) /\ s[PlaceOf(s, n)] = n
BY DEF PlaceOf, Range

\* The other notes are still there.
LEMMA OthersAreLeft ==
  ASSUME NEW s \in Seq(Notes), NEW n \in Range(s), NEW i \in 1..Len(s), i # PlaceOf(s, n)
  PROVE  s[i] \in Range(LeftOf(s, n))
<1> DEFINE p == PlaceOf(s, n)
           l == SubSeq(s, 1, p - 1)
           r == SubSeq(s, p + 1, Len(s))
<1>1. p \in 1..Len(s)
  BY PlaceIsThere
<1>2. LeftOf(s, n) = l \o r
  BY DEF LeftOf, RemoveAt
<1>3. l \in Seq(Notes) /\ Len(l) = p - 1 /\ \A j \in 1..(p - 1) : l[j] = s[j]
  BY <1>1
<1>4. r \in Seq(Notes) /\ Len(r) = Len(s) - p /\ \A j \in 1..(Len(s) - p) : r[j] = s[p + j]
  BY <1>1
<1>5. i # p
  OBVIOUS
<1> HIDE DEF p, l, r
<1>a. /\ l \o r \in Seq(Notes) /\ Len(l \o r) = Len(l) + Len(r)
      /\ \A j \in 1..(Len(l) + Len(r)) : (l \o r)[j] = IF j <= Len(l) THEN l[j] ELSE r[j - Len(l)]
  BY <1>3, <1>4, ConcatProperties
<1>b. DOMAIN (l \o r) = 1..(Len(s) - 1)
  BY <1>1, <1>3, <1>4, <1>a
<1>6. CASE i < p
  <2>1. (l \o r)[i] = s[i] /\ i \in DOMAIN (l \o r)
    BY <1>1, <1>3, <1>4, <1>a, <1>b, <1>6
  <2> QED
    BY <2>1, <1>2 DEF Range
<1>7. CASE i > p
  <2> DEFINE k == i - 1
  <2>0. /\ k \in 1..(Len(l) + Len(r)) /\ ~(k <= Len(l)) /\ k - Len(l) = i - p
        /\ i - p \in 1..(Len(s) - p) /\ p + (i - p) = i /\ k \in 1..(Len(s) - 1)
    BY <1>1, <1>3, <1>4, <1>7
  <2> HIDE DEF k
  <2>1. (l \o r)[k] = s[i] /\ k \in DOMAIN (l \o r)
    BY <1>4, <1>a, <1>b, <2>0
  <2> QED
    BY <2>1, <1>2 DEF Range
<1> QED
  BY <1>1, <1>5, <1>6, <1>7

\* What a list has at its end, it has.
LEMMA AppendedIsThere ==
  ASSUME NEW s \in Seq(Notes), NEW n \in Notes
  PROVE  Append(s, n) \in Seq(Notes) /\ Range(Append(s, n)) = Range(s) \cup {n}
<1>1. Append(s, n) \in Seq(Notes) /\ Len(Append(s, n)) = Len(s) + 1
      /\ (\A i \in 1..Len(s) : Append(s, n)[i] = s[i]) /\ Append(s, n)[Len(s) + 1] = n
  OBVIOUS
<1> QED
  BY <1>1 DEF Range

\* A list has finitely many notes.
LEMMA ListIsFinite ==
  ASSUME NEW s \in Seq(Notes)
  PROVE  Range(s) \in SUBSET Notes /\ IsFiniteSet(Range(s))
<1>1. s \in [1..Len(s) -> Notes] /\ Len(s) \in Nat
  BY LenProperties
<1>2. s \in Surjection(1..Len(s), Range(s))
  BY <1>1 DEF Surjection, Range
<1>3. IsFiniteSet(1..Len(s))
  BY <1>1, FS_Interval
<1>4. IsFiniteSet(Range(s))
  BY <1>2, <1>3, FS_Surjection
<1> QED
  BY <1>1, <1>4 DEF Range

\* A record written keeps the notes there are.
LEMMA PatchedIsFramed ==
  ASSUME NEW s, Framed(s), NEW n, NEW doc, n \in Loaded(s.docs) => doc \in DocRecord
  PROVE  /\ Framed(Patch(s, n, doc))
         /\ Loaded(Patch(s, n, doc).docs) = Loaded(s.docs)
         /\ \A m \in Loaded(s.docs) : Patch(s, n, doc).docs[m] = IF m = n THEN doc ELSE s.docs[m]
         /\ \A m \in {"active", "pending", "barrier", "shell"} : Patch(s, n, doc)[m] = s[m]
<1>1. CASE n \notin Loaded(s.docs)
  BY <1>1 DEF Patch, Loaded
<1>2. CASE n \in Loaded(s.docs)
  <2> DEFINE docs == [s.docs EXCEPT ![n] = doc]
  <2>1. Patch(s, n, doc) = [s EXCEPT !.docs = docs]
    BY <1>2 DEF Patch
  <2>2. Known(docs) /\ DOMAIN docs = DOMAIN s.docs
    BY <1>2 DEF Framed, Known, Loaded
  <2>3. \A m \in DOMAIN s.docs : docs[m] = IF m = n THEN doc ELSE s.docs[m]
    BY <1>2 DEF Framed, Known, Loaded
  <2> HIDE DEF docs
  <2>4. [s EXCEPT !.docs = docs] \in [docs : {docs}, active : Ids, pending : BOOLEAN, barrier : BOOLEAN, shell : BOOLEAN]
    BY ZenonT(60) DEF Framed
  <2>5. [s EXCEPT !.docs = docs].docs = docs
    BY <2>4
  <2>6. \A m \in {"active", "pending", "barrier", "shell"} : [s EXCEPT !.docs = docs][m] = s[m]
    BY DEF Framed
  <2> QED
    BY <2>1, <2>2, <2>3, <2>4, <2>5, <2>6 DEF Framed, Loaded
<1> QED
  BY <1>1, <1>2

\* One more of a family, and some of them fewer.
LEMMA WithIs ==
  ASSUME NEW d, NEW n, NEW x
  PROVE  /\ DOMAIN With(d, n, x) = DOMAIN d \cup {n}
         /\ With(d, n, x)[n] = x
         /\ \A m \in DOMAIN d \ {n} : With(d, n, x)[m] = d[m]
BY DEF With, Loaded

\* Some of a family fewer: the others are as they were.
LEMMA WithoutIs ==
  ASSUME NEW d, NEW gone
  PROVE  /\ DOMAIN Without(d, gone) = DOMAIN d \ gone
         /\ \A m \in DOMAIN d \ gone : Without(d, gone)[m] = d[m]
         /\ Without(d, gone) \in [DOMAIN d \ gone -> {d[m] : m \in DOMAIN d \ gone}]
BY DEF Without, Loaded

\* What was filed of every note is what was.
Alike(d, e) ==
    DOMAIN e = DOMAIN d /\ \A m \in DOMAIN d : e[m].id = d[m].id /\ e[m].rev = d[m].rev /\ e[m].token = d[m].token

\* Marking a record leaves what was filed of it.
LEMMA MarkedIsFramed ==
  ASSUME NEW s, Framed(s), NEW n, NEW doc,
         n \in Loaded(s.docs) =>
            doc \in DocRecord /\ doc.id = s.docs[n].id /\ doc.rev = s.docs[n].rev /\ doc.token = s.docs[n].token
  PROVE  Framed(Patch(s, n, doc)) /\ Alike(s.docs, Patch(s, n, doc).docs)
<1>1. /\ Framed(Patch(s, n, doc))
      /\ Loaded(Patch(s, n, doc).docs) = Loaded(s.docs)
      /\ \A m \in Loaded(s.docs) : Patch(s, n, doc).docs[m] = IF m = n THEN doc ELSE s.docs[m]
  BY PatchedIsFramed
<1> QED
  BY <1>1 DEF Alike, Loaded

\* So does what an editor reports.
LEMMA ReportedIsFramed ==
  ASSUME NEW s, Framed(s), NEW n, NEW dirty \in BOOLEAN
  PROVE  Framed(Reported(s, n, dirty)) /\ Alike(s.docs, Reported(s, n, dirty).docs)
<1> DEFINE doc == [s.docs[n] EXCEPT !.dirty = dirty, !.blocked = s.docs[n].blocked /\ s.barrier]
<1>1. CASE n \in Loaded(s.docs) /\ s.docs[n].dirty # dirty
  <2>1. s.docs[n] \in DocRecord
    BY <1>1 DEF Framed, Known, Loaded
  <2>2. doc \in DocRecord
    BY <2>1, ZenonT(60) DEF DocRecord
  <2>3. doc.id = s.docs[n].id /\ doc.rev = s.docs[n].rev /\ doc.token = s.docs[n].token
    BY <2>1 DEF DocRecord
  <2>4. Reported(s, n, dirty) = Patch(s, n, doc)
    BY <1>1 DEF Reported
  <2> HIDE DEF doc
  <2> QED
    BY <2>2, <2>3, <2>4, MarkedIsFramed
<1>2. CASE ~(n \in Loaded(s.docs) /\ s.docs[n].dirty # dirty)
  BY <1>2 DEF Reported, Alike
<1> QED
  BY <1>1, <1>2

\* A change of the frame leaves the records, and any frame will do.
LEMMA Reframed ==
  ASSUME NEW s, Framed(s), NEW pending \in BOOLEAN, NEW barrier \in BOOLEAN, NEW shell \in BOOLEAN, NEW n \in Ids
  PROVE  /\ Framed([s EXCEPT !.pending = pending, !.shell = shell])
         /\ [s EXCEPT !.pending = pending, !.shell = shell].docs = s.docs
         /\ Framed([s EXCEPT !.pending = pending, !.barrier = barrier])
         /\ [s EXCEPT !.pending = pending, !.barrier = barrier].docs = s.docs
         /\ Framed([s EXCEPT !.active = n, !.shell = shell])
         /\ [s EXCEPT !.active = n, !.shell = shell].docs = s.docs
         /\ Framed([s EXCEPT !.pending = pending]) /\ [s EXCEPT !.pending = pending].docs = s.docs
         /\ Framed([s EXCEPT !.shell = shell]) /\ [s EXCEPT !.shell = shell].docs = s.docs
<1> DEFINE F == [docs : {s.docs}, active : Ids, pending : BOOLEAN, barrier : BOOLEAN, shell : BOOLEAN]
<1>1. s \in F /\ Known(s.docs)
  BY DEF Framed
<1>2. [s EXCEPT !.pending = pending, !.shell = shell] \in F
  BY <1>1, ZenonT(60)
<1>3. [s EXCEPT !.pending = pending, !.barrier = barrier] \in F
  BY <1>1, ZenonT(60)
<1>4. [s EXCEPT !.active = n, !.shell = shell] \in F
  BY <1>1, ZenonT(60)
<1>5. [s EXCEPT !.pending = pending] \in F
  BY <1>1, ZenonT(60)
<1>6. [s EXCEPT !.shell = shell] \in F
  BY <1>1, ZenonT(60)
<1>7. \A t \in F : t.docs = s.docs
  OBVIOUS
<1> HIDE DEF F
<1>8. \A t \in F : Framed(t)
  BY <1>1, <1>7 DEF Framed, F
<1> QED
  BY <1>2, <1>3, <1>4, <1>5, <1>6, <1>7, <1>8

\* A state made anew of known records has its frame.
LEMMA FrameIs ==
  ASSUME NEW docs, Known(docs), NEW n \in Ids, NEW pending \in BOOLEAN, NEW barrier \in BOOLEAN, NEW shell \in BOOLEAN
  PROVE  Framed([docs |-> docs, active |-> n, pending |-> pending, barrier |-> barrier, shell |-> shell])
BY DEF Framed

\* An editor that commits is one still.
LEMMA CommittedIsMounted ==
  ASSUME NEW e \in Mounted, NEW of \in Ids, NEW rev \in Nat, NEW moved \in BOOLEAN
  PROVE  /\ Committed(e, of, rev, moved) \in Mounted
         /\ Committed(e, of, rev, moved).base = rev /\ Committed(e, of, rev, moved).made = e.made
<1>1. Committed(e, of, rev, moved) \in Mounted
  BY ZenonT(60) DEF Committed, Mounted
<1> QED
  BY <1>1 DEF Committed, Mounted

\* More calls to main, behind those on their way.
LEMMA SentIsSent ==
  ASSUME ITyped, NEW ext \in Seq(Sent), toMain' = toMain \o ext
  PROVE  /\ toMain' \in Seq(Sent) /\ Len(toMain') = Len(toMain) + Len(ext)
         /\ \A i \in 1..Len(toMain) : toMain'[i] = toMain[i]
         /\ \A i \in 1..Len(ext) : toMain'[Len(toMain) + i] = ext[i]
<1>1. toMain \in Seq(Sent) /\ Len(toMain) \in Nat /\ Len(ext) \in Nat
  BY LenProperties DEF ITyped
<1>2. /\ toMain' \in Seq(Sent) /\ Len(toMain') = Len(toMain) + Len(ext)
      /\ \A i \in 1..(Len(toMain) + Len(ext)) :
            toMain'[i] = IF i <= Len(toMain) THEN toMain[i] ELSE ext[i - Len(toMain)]
  BY <1>1, ConcatProperties
<1>3. ASSUME NEW i \in 1..Len(ext)
      PROVE  toMain'[Len(toMain) + i] = ext[i]
  <2>1. Len(toMain) + i \in 1..(Len(toMain) + Len(ext)) /\ ~(Len(toMain) + i <= Len(toMain)) /\ Len(toMain) + i - Len(toMain) = i
    BY <1>1
  <2> QED
    BY <1>2, <2>1
<1>4. ASSUME NEW i \in 1..Len(toMain)
      PROVE  toMain'[i] = toMain[i]
  <2>1. i \in 1..(Len(toMain) + Len(ext)) /\ i <= Len(toMain)
    BY <1>1
  <2> QED
    BY <1>2, <2>1
<1> QED
  BY <1>2, <1>3, <1>4

-----------------------------------------------------------------------------
(***************************************************************************)
(* Types.                                                                  *)
(***************************************************************************)
\* The window as it starts.
LEMMA InitTyped == Init => ITyped
<1> SUFFICES ASSUME Init
             PROVE  ITyped
  OBVIOUS
<1>1. First \in Notes /\ NoNote \notin Notes
  BY WindowNotesConstants
<1>2. open \in Seq(Notes) /\ recent \in Seq(Notes) /\ toMain = <<>> /\ toWindow = <<>>
  BY <1>1 DEF Init
<1>3. DOMAIN state.docs = {First} /\ state.docs[First] = Record(First)
  BY DEF Init
<1>4. Record(First) \in DocRecord
  BY <1>1 DEF Record, DocRecord, Ids
<1>5. Known(state.docs)
  <2>1. state.docs = [n \in {First} |-> Record(n)]
    BY DEF Init
  <2> QED
    BY <1>1, <1>3, <1>4, <2>1 DEF Known
<1>6. Framed(state) /\ shown = state
  <2>1. /\ state = [docs |-> state.docs, active |-> First, pending |-> FALSE,
                    barrier |-> First \in Evidence, shell |-> FALSE]
        /\ shown = state
    BY DEF Init
  <2>2. (First \in Evidence) \in BOOLEAN /\ First \in Ids
    BY <1>1 DEF Ids
  <2> QED
    BY <1>5, <2>1, <2>2, FrameIs
<1>7. DOMAIN editors = {First} /\ editors \in [{First} -> Mounted]
  <2>1. editors = [n \in {First} |-> Editor(n, 0)]
    BY DEF Init
  <2>2. Editor(First, 0) \in Mounted
    BY <1>1 DEF Editor, Mounted, Ids
  <2> QED
    BY <2>1, <2>2
<1>8. store \in [Notes -> [rev : Nat, made : Nat, recovery : BOOLEAN]]
  BY DEF Init
<1>9. unsaved \in [Notes -> Nat] /\ asked \in [Notes -> Nat]
  BY DEF Init, Nothing
<1> QED
  <2>1. /\ front = First /\ seen = {First} /\ activeRef = First /\ editorRef = First
        /\ call = NoCall /\ told = {} /\ releasing = {} /\ crossed = FALSE /\ lost = FALSE
    BY DEF Init
  <2>2. toMain \in Seq(Sent) /\ toWindow \in Seq(Published)
    BY <1>2
  <2> QED
    BY <1>1, <1>2, <1>6, <1>7, <1>8, <1>9, <2>1, <2>2 DEF ITyped, Ids

\* Main's parts, which most of the window leaves alone.
MainTyped ==
    /\ open \in Seq(Notes) /\ recent \in Seq(Notes) /\ front \in Ids /\ seen \in SUBSET Notes
    /\ toWindow \in Seq(Published)

\* A note brought forward, and one closed.
LEMMA BringTyped ==
  ASSUME ITyped, NEW n \in Notes, Bring(n)
  PROVE  /\ MainTyped' /\ store' = store
         /\ Range(open') = Range(open) \cup {n} /\ front' = n /\ seen' = seen \cup {n}
         /\ n \in Range(open) \/ n \notin seen
         /\ toWindow' = Append(toWindow, News(TRUE, Range(open'), recent', n))
         /\ News(TRUE, Range(open'), recent', n) \in Published
<1>1. open' \in Seq(Notes) /\ Range(open') = Range(open) \cup {n}
  BY AppendedIsThere DEF Bring, ITyped
<1>2. recent' \in Seq(Notes)
  BY AppendedIsThere, LeftAreThere DEF Bring, ITyped
<1>3. Range(open') \in SUBSET Notes /\ IsFiniteSet(Range(open'))
  BY <1>1, ListIsFinite
<1>4. News(TRUE, Range(open'), recent', n) \in Published
  BY <1>2, <1>3 DEF News, Published, Ids
<1>5. toWindow' \in Seq(Published)
  <2> DEFINE new == News(TRUE, Range(open'), recent', n)
  <2>1. toWindow \in Seq(Published) /\ toWindow' = Append(toWindow, new)
    BY DEF Bring, ITyped
  <2>2. new \in Published
    BY <1>4
  <2> HIDE DEF new
  <2> QED
    BY <2>1, <2>2
<1> QED
  BY <1>1, <1>2, <1>4, <1>5 DEF Bring, CanBring, MainTyped, ITyped, Ids

\* A note closed: main's lists stay lists, and the front stays open or empty.
LEMMA CloseTyped ==
  ASSUME ITyped, front \in Range(open) \cup {NoNote}, NEW n, n \in Range(open), Close(n)
  PROVE  /\ MainTyped' /\ store' = store /\ seen' = seen /\ n \in Notes
         /\ Range(open') \subseteq Range(open) /\ front' \in Range(open') \cup {NoNote}
         /\ asked' = [asked EXCEPT ![n] = unsaved[n]]
         /\ toWindow' = Append(toWindow, News(front = n, Range(open'), recent', front'))
         /\ News(front = n, Range(open'), recent', front') \in Published
<1> DEFINE left == LeftOf(open, n)
           at == PlaceOf(open, n)
           next == IF left = <<>> THEN NoNote ELSE IF at > 1 THEN open[at - 1] ELSE open[2]
<1>1. /\ open' = left /\ recent' = LeftOf(recent, n) /\ seen' = seen /\ store' = store
      /\ front' = IF front = n THEN next ELSE front
      /\ toWindow' = Append(toWindow, News(front = n, Range(left), recent', front'))
      /\ asked' = [asked EXCEPT ![n] = unsaved[n]]
  BY DEF Close
<1>2. open \in Seq(Notes) /\ recent \in Seq(Notes) /\ Len(open) \in Nat
  BY LenProperties DEF ITyped
<1>3. left \in Seq(Notes) /\ Range(left) \subseteq Range(open) /\ LeftOf(recent, n) \in Seq(Notes)
  BY <1>2, LeftAreThere
<1>4. at \in 1..Len(open) /\ open[at] = n
  BY <1>2, PlaceIsThere
<1>5. \A i \in 1..Len(open) : i # at => open[i] \in Range(left)
  BY <1>2, OthersAreLeft
<1>6. Range(open) \subseteq Notes
  BY <1>2 DEF Range
<1> HIDE DEF left, at
<1>7. next \in Range(left) \cup {NoNote}
  <2>1. CASE left # <<>> /\ ~(at > 1)
    <3>1. Len(open) >= 2
      <4>1. CASE Len(open) = 1
        <5>1. at = 1 /\ left = SubSeq(open, 1, 0) \o SubSeq(open, 2, 1)
          BY <1>4, <4>1 DEF left, LeftOf, RemoveAt, at
        <5>2. SubSeq(open, 1, 0) = <<>> /\ SubSeq(open, 2, 1) = <<>>
          BY <1>2
        <5>3. left = <<>>
          BY <5>1, <5>2
        <5> QED
          BY <2>1, <5>3
      <4>2. Len(open) # 0
        BY <1>2, <1>4
      <4>3. Len(open) \in Nat
        BY <1>2
      <4>4. \A k \in Nat : k # 0 => k = 1 \/ k >= 2
        OBVIOUS
      <4>5. Len(open) = 1 \/ Len(open) >= 2
        BY <4>2, <4>3, <4>4, Zenon
      <4> QED
        BY <4>1, <4>5
    <3> QED
      BY <1>2, <1>4, <1>5, <2>1, <3>1
  <2>2. CASE left # <<>> /\ at > 1
    <3>1. at - 1 \in 1..Len(open) /\ at - 1 # at
      BY <1>2, <1>4, <2>2
    <3> QED
      BY <1>5, <2>2, <3>1
  <2> QED
    BY <2>1, <2>2
<1> HIDE DEF next
<1>8. front # n => front \in Range(left) \cup {NoNote}
  <2> SUFFICES ASSUME front # n, front \in Range(open)
               PROVE  front \in Range(left)
    OBVIOUS
  <2>1. PICK i \in 1..Len(open) : open[i] = front
    BY <1>2 DEF Range
  <2> QED
    BY <1>4, <1>5, <2>1
<1>9. front' \in Range(open') \cup {NoNote}
  BY <1>1, <1>7, <1>8
<1>10. News(front = n, Range(open'), recent', front') \in Published
  <2>1. Range(open') \in SUBSET Notes /\ IsFiniteSet(Range(open'))
    BY <1>1, <1>3, ListIsFinite
  <2>2. (front = n) \in BOOLEAN /\ front' \in Ids /\ recent' \in Seq(Notes)
    BY <1>1, <1>3, <1>6, <1>9 DEF Ids
  <2> QED
    BY <2>1, <2>2, Zenon DEF News, Published
<1>11. toWindow' \in Seq(Published)
  <2> DEFINE new == News(front = n, Range(open'), recent', front')
  <2>1. toWindow \in Seq(Published) /\ toWindow' = Append(toWindow, new)
    BY <1>1 DEF ITyped
  <2>2. new \in Published
    BY <1>10
  <2> HIDE DEF new
  <2> QED
    BY <2>1, <2>2
<1> QED
  BY <1>1, <1>2, <1>3, <1>6, <1>9, <1>10, <1>11 DEF MainTyped, ITyped, Ids

\* Closing a note that is not open does nothing.
LEMMA CloseIdle ==
  ASSUME NEW n, n \notin Range(open), Close(n)
  PROVE  UNCHANGED <<mainVars, toWindow, asked>>
BY DEF Close

\* A call has its fields as it goes on: when main starts it, when it fails and
\* when it is accepted.
LEMMA CallIsOne ==
  ASSUME NEW c \in Saving \cup Recovering
  PROVE  c.kind \in {"save", "recover"} /\ c.at \in Ids /\ c.rev \in Nat
BY DEF Saving, Recovering

\* Main starts a call.
LEMMA CallStarts ==
  ASSUME NEW c \in Saving \cup Recovering, NEW at \in Ids,
         NEW d, d = [c EXCEPT !.phase = "running", !.at = at]
  PROVE  d \in Saving \cup Recovering /\ d.at = at /\ d.phase = "running"
<1>1. CASE c \in Saving
  BY <1>1 DEF Saving
<1>2. CASE c \in Recovering
  BY <1>2 DEF Recovering
<1> QED
  BY <1>1, <1>2

\* A call that fails keeps its target.
LEMMA CallFails ==
  ASSUME NEW c \in Saving \cup Recovering, NEW status \in {"stale", "evidence", "error"},
         NEW d, d = [c EXCEPT !.phase = "answered", !.status = status]
  PROVE  d \in Saving \cup Recovering /\ d.at = c.at /\ d.phase = "answered" /\ d.status = status
<1>1. CASE c \in Saving
  BY <1>1 DEF Saving
<1>2. CASE c \in Recovering
  BY <1>2 DEF Recovering
<1> QED
  BY <1>1, <1>2

\* A call that is accepted has the new revision.
LEMMA CallSucceeds ==
  ASSUME NEW c \in Saving \cup Recovering, NEW rev \in Nat,
         NEW d, d = [c EXCEPT !.phase = "answered", !.status = "saved", !.rev = rev]
  PROVE  d \in Saving \cup Recovering /\ d.at = c.at /\ d.phase = "answered" /\ d.status = "saved" /\ d.rev = rev
<1>1. CASE c \in Saving
  BY <1>1 DEF Saving
<1>2. CASE c \in Recovering
  BY <1>2 DEF Recovering
<1> QED
  BY <1>1, <1>2

\* Starting no call is no call.
LEMMA NoCallStays ==
  ASSUME NEW phase, NEW at
  PROVE  [NoCall EXCEPT !.phase = phase, !.at = at] = NoCall
BY DEF NoCall

\* A call in flight is a save or a recovery.
LEMMA CallIs ==
  ASSUME ITyped, call.kind # "none"
  PROVE  call \in Saving \cup Recovering
BY DEF ITyped, NoCall

\* A save may go first; then what follows it.
LEMMA SaveThenTyped ==
  ASSUME ITyped, NEW sent \in Seq(Sent), SaveThen(sent)
  PROVE  /\ call' \in {NoCall} \cup Saving \cup Recovering
         /\ call' = call \/ (call' \in Saving /\ call'.phase = "sent" /\ call'.at = NoNote)
         /\ Framed(state') /\ Alike(state.docs, state'.docs)
         /\ \E ext \in Seq(Sent) : toMain' = toMain \o ext /\ (ext = sent \/ ext = <<[is |-> "call"]>> \o sent)
<1>1. CASE ~Saves
  BY <1>1 DEF SaveThen, ITyped, Alike
<1>2. CASE Saves
  <2>1. editors[editorRef] \in Mounted
    BY <1>2 DEF Saves, ITyped
  <2>2. shown.docs[shown.active] \in DocRecord
    BY <1>2 DEF Saves, HasFront, Loaded, ITyped, Framed, Known
  <2>3. Captured \in Saving /\ Captured.phase = "sent" /\ Captured.at = NoNote
    <3>1. editorRef \in Ids /\ activeRef \in Ids
      BY DEF ITyped, Ids
    <3> QED
      BY <2>1, <2>2, <3>1 DEF Captured, Saving, Mounted, DocRecord, Ids
  <2> DEFINE doc == [state.docs[activeRef] EXCEPT !.blocked = FALSE]
             marked == Patch(state, activeRef, doc)
             shell == marked.shell \/ activeRef = NoNote
  <2>4. call' = Captured /\ state' = [marked EXCEPT !.pending = TRUE, !.shell = shell]
        /\ toMain' = Append(toMain, [is |-> "call"]) \o sent
    BY <1>2 DEF SaveThen
  <2>5. Framed(state)
    BY DEF ITyped
  <2>6. activeRef \in Loaded(state.docs) =>
          doc \in DocRecord /\ doc.id = state.docs[activeRef].id /\ doc.rev = state.docs[activeRef].rev
          /\ doc.token = state.docs[activeRef].token
    <3> SUFFICES ASSUME activeRef \in Loaded(state.docs)
                 PROVE  doc \in DocRecord /\ doc.id = state.docs[activeRef].id /\ doc.rev = state.docs[activeRef].rev
                        /\ doc.token = state.docs[activeRef].token
      OBVIOUS
    <3>1. state.docs[activeRef] \in DocRecord
      BY <2>5 DEF Framed, Known, Loaded
    <3> QED
      BY <3>1 DEF DocRecord
  <2> HIDE DEF doc
  <2>7. Framed(marked) /\ Alike(state.docs, marked.docs)
    BY <2>5, <2>6, MarkedIsFramed
  <2>8. shell \in BOOLEAN
    BY <2>7, Zenon DEF Framed
  <2> HIDE DEF marked, shell
  <2>9. Framed(state') /\ state'.docs = marked.docs
    <3>1. NoNote \in Ids /\ TRUE \in BOOLEAN
      BY DEF Ids
    <3>2. /\ Framed([marked EXCEPT !.pending = TRUE, !.shell = shell])
          /\ [marked EXCEPT !.pending = TRUE, !.shell = shell].docs = marked.docs
      BY <2>7, <2>8, <3>1, Reframed
    <3> QED
      BY <2>4, <3>2, Zenon
  <2>10. [is |-> "call"] \in Sent /\ toMain \in Seq(Sent)
    BY DEF Sent, ITyped
  <2>11. <<[is |-> "call"]>> \o sent \in Seq(Sent)
         /\ Append(toMain, [is |-> "call"]) \o sent = toMain \o (<<[is |-> "call"]>> \o sent)
    <3> DEFINE one == [is |-> "call"]
    <3>1. one \in Sent
      BY <2>10
    <3> HIDE DEF one
    <3>2. <<one>> \in Seq(Sent) /\ Append(toMain, one) = toMain \o <<one>>
      BY <2>10, <3>1
    <3> QED
      BY <2>10, <3>2, ConcatAssociative, ConcatProperties DEF one
  <2> QED
    BY <2>3, <2>4, <2>7, <2>9, <2>11
<1> QED
  BY <1>1, <1>2

\* Main takes a call.
LEMMA HandleCallTyped ==
  ASSUME ITyped, front \in Range(open) \cup {NoNote}, HandleCall
  PROVE  ITyped'
<1> DEFINE sent == Head(toMain)
<1>1. sent \in Sent /\ toMain' \in Seq(Sent)
  BY DEF HandleCall, ITyped
<1>2. /\ UNCHANGED <<windowVars, crossed, lost>>
      /\ \/ /\ sent.is = "open" /\ Bring(sent.note)
            /\ UNCHANGED <<unsaved, call, asked>>
         \/ UNCHANGED <<mainVars, toWindow, unsaved, call, asked>>
         \/ /\ sent.is = "release" /\ Close(sent.note)
            /\ UNCHANGED <<unsaved, call>>
         \/ /\ sent.is = "unsaved" /\ unsaved' = sent.notes
            /\ UNCHANGED <<mainVars, toWindow, call, asked>>
         \/ /\ sent.is = "call" /\ Start
            /\ UNCHANGED <<mainVars, toWindow, unsaved, asked>>
  BY DEF HandleCall
<1> HIDE DEF sent
<1>3. (sent.is \in {"open", "release"} => sent.note \in Notes) /\ (sent.is = "unsaved" => sent.notes \in [Notes -> Nat])
  BY <1>1 DEF Sent
<1>4. CASE sent.is = "open" /\ Bring(sent.note) /\ UNCHANGED <<unsaved, call, asked>>
  <2>1. MainTyped' /\ store' = store
    BY <1>3, <1>4, BringTyped
  <2> QED
    BY <1>1, <1>2, <1>4, <2>1 DEF ITyped, MainTyped, windowVars, Framed, Known
<1>5. CASE UNCHANGED <<mainVars, toWindow, unsaved, call, asked>>
  BY <1>1, <1>2, <1>5 DEF ITyped, mainVars, windowVars, Framed, Known
<1>6. CASE sent.is = "release" /\ Close(sent.note) /\ UNCHANGED <<unsaved, call>>
  <2> DEFINE n == sent.note
  <2>1. n \in Notes
    BY <1>3, <1>6
  <2>2. CASE n \in Range(open)
    <3>1. MainTyped' /\ store' = store /\ asked' = [asked EXCEPT ![n] = unsaved[n]]
      BY <1>6, <2>2, CloseTyped
    <3>2. asked' \in [Notes -> Nat]
      BY <2>1, <3>1 DEF ITyped
    <3> QED
      BY <1>1, <1>2, <1>6, <3>1, <3>2 DEF ITyped, MainTyped, windowVars, Framed, Known
  <2>3. CASE n \notin Range(open)
    <3>1. UNCHANGED <<mainVars, toWindow, asked>>
      BY <1>6, <2>3, CloseIdle
    <3> QED
      BY <1>1, <1>2, <1>6, <3>1 DEF ITyped, mainVars, windowVars, Framed, Known
  <2> QED
    BY <2>2, <2>3
<1>7. CASE sent.is = "unsaved" /\ unsaved' = sent.notes /\ UNCHANGED <<mainVars, toWindow, call, asked>>
  BY <1>1, <1>2, <1>3, <1>7 DEF ITyped, mainVars, windowVars, Framed, Known
<1>8. CASE sent.is = "call" /\ Start /\ UNCHANGED <<mainVars, toWindow, unsaved, asked>>
  <2>1. call' \in {NoCall} \cup Saving \cup Recovering
    <3>0. \E n \in Ids : call' = [call EXCEPT !.phase = "running", !.at = n]
      <4> DEFINE of == IF call.kind = "save" THEN call.of ELSE front
                 n == IF of \in Range(open) THEN of ELSE NoNote
      <4>1. call' = [call EXCEPT !.phase = "running", !.at = n]
        BY <1>8 DEF Start
      <4>2. n \in Ids
        BY ListIsFinite DEF Ids, ITyped
      <4> QED
        BY <4>1, <4>2
    <3>1. PICK n \in Ids : call' = [call EXCEPT !.phase = "running", !.at = n]
      BY <3>0
    <3>2. CASE call = NoCall
      BY <3>1, <3>2, NoCallStays
    <3>3. CASE call # NoCall
      <4>1. call \in Saving \cup Recovering
        BY <3>3 DEF ITyped
      <4> QED
        BY <3>1, <4>1, CallStarts
    <3> QED
      BY <3>2, <3>3
  <2> QED
    BY <1>1, <1>2, <1>8, <2>1 DEF ITyped, mainVars, windowVars, Framed, Known
<1> QED
  BY <1>2, <1>4, <1>5, <1>6, <1>7, <1>8

\* A call ends: the store it was sent to, and no other, has a new revision, or none has.
LEMMA EndCallTyped ==
  ASSUME ITyped, EndCall
  PROVE  /\ ITyped'
         /\ UNCHANGED <<open, recent, front, seen, unsaved, toMain, toWindow, windowVars, history>>
         /\ call.kind # "none" /\ call.phase = "running"
         /\ \/ /\ call.at # NoNote /\ call'.status = "saved" /\ call'.rev = store[call.at].rev + 1
               /\ store'[call.at].rev = call'.rev
               /\ \A n \in Notes \ {call.at} : store'[n] = store[n]
            \/ /\ call'.status # "saved" /\ store' = store
         /\ call'.kind # "none" /\ call'.phase = "answered" /\ call'.at = call.at
<1> DEFINE n == call.at
           Answer(status) == call' = [call EXCEPT !.phase = "answered", !.status = status]
           Accepted(rec) ==
               /\ store' = [store EXCEPT ![n] = rec]
               /\ call' = [call EXCEPT !.phase = "answered", !.status = "saved", !.rev = rec.rev]
           Stored == [rev : Nat, made : Nat, recovery : BOOLEAN]
<1>1. /\ call.kind # "none" /\ call.phase = "running"
      /\ UNCHANGED <<open, recent, front, seen, unsaved, toMain, toWindow, windowVars, history>>
  BY DEF EndCall
<1>2. call \in Saving \cup Recovering
  BY <1>1, CallIs
<1>3. \/ \E status \in {"error", "evidence", "stale"} : Answer(status) /\ store' = store
      \/ n # NoNote /\ call.kind = "recover" /\ Accepted([store[n] EXCEPT !.rev = store[n].rev + 1, !.recovery = FALSE])
      \/ n # NoNote /\ call.kind # "recover" /\ Accepted([store[n] EXCEPT !.rev = store[n].rev + 1, !.made = call.made])
  BY DEF EndCall
<1>4. n \in Ids
  BY <1>2, CallIsOne
<1> HIDE DEF n
<1>5. ASSUME NEW status \in {"error", "evidence", "stale"}, Answer(status), store' = store
      PROVE  /\ call' \in Saving \cup Recovering /\ call'.kind # "none" /\ call'.phase = "answered"
             /\ call'.at = n /\ call'.status # "saved"
  <2>1. call' \in Saving \cup Recovering /\ call'.at = call.at /\ call'.phase = "answered" /\ call'.status = status
    <3>1. call' = [call EXCEPT !.phase = "answered", !.status = status] /\ status \in {"stale", "evidence", "error"}
      BY <1>5
    <3>2. \A d : d = [call EXCEPT !.phase = "answered", !.status = status] =>
                 d \in Saving \cup Recovering /\ d.at = call.at /\ d.phase = "answered" /\ d.status = status
      BY <1>2, <3>1, CallFails
    <3> QED
      BY <3>1, <3>2
  <2> QED
    BY <2>1, CallIsOne DEF n
<1>6. ASSUME NEW rec \in Stored, n # NoNote, rec.rev = store[n].rev + 1, Accepted(rec)
      PROVE  /\ call' \in Saving \cup Recovering /\ call'.kind # "none" /\ call'.phase = "answered"
             /\ call'.at = n /\ call'.status = "saved" /\ call'.rev = store[n].rev + 1
             /\ store' \in [Notes -> Stored] /\ store'[n].rev = call'.rev
             /\ \A m \in Notes \ {n} : store'[m] = store[m]
  <2>1. rec.rev \in Nat
    BY DEF Stored
  <2>2. store' = [store EXCEPT ![n] = rec] /\ call' = [call EXCEPT !.phase = "answered", !.status = "saved", !.rev = rec.rev]
    BY <1>6
  <2>3. /\ call' \in Saving \cup Recovering /\ call'.at = n /\ call'.phase = "answered"
        /\ call'.status = "saved" /\ call'.rev = rec.rev
    <3>1. call' \in Saving \cup Recovering /\ call'.at = call.at /\ call'.phase = "answered"
          /\ call'.status = "saved" /\ call'.rev = rec.rev
      <4>1. \A d : d = [call EXCEPT !.phase = "answered", !.status = "saved", !.rev = rec.rev] =>
                 /\ d \in Saving \cup Recovering /\ d.at = call.at /\ d.phase = "answered" /\ d.status = "saved"
                 /\ d.rev = rec.rev
        BY <1>2, <2>1, CallSucceeds
      <4> QED
        BY <2>2, <4>1
    <3> QED
      BY <3>1 DEF n
  <2>4. call'.kind # "none"
    BY <2>3, CallIsOne
  <2>5. n \in Notes /\ store \in [Notes -> Stored]
    BY <1>4, <1>6 DEF Ids, ITyped
  <2> HIDE DEF Stored
  <2>6. store' \in [Notes -> Stored] /\ store'[n] = rec /\ \A m \in Notes \ {n} : store'[m] = store[m]
    BY <2>2, <2>5
  <2> QED
    BY <1>6, <2>3, <2>4, <2>6
<1>7. ASSUME n # NoNote
      PROVE  /\ [store[n] EXCEPT !.rev = store[n].rev + 1, !.recovery = FALSE] \in Stored
             /\ [store[n] EXCEPT !.rev = store[n].rev + 1, !.recovery = FALSE].rev = store[n].rev + 1
             /\ call.kind # "recover" =>
                  /\ [store[n] EXCEPT !.rev = store[n].rev + 1, !.made = call.made] \in Stored
                  /\ [store[n] EXCEPT !.rev = store[n].rev + 1, !.made = call.made].rev = store[n].rev + 1
  <2>1. store[n] \in Stored
    BY <1>4, <1>7 DEF Ids, ITyped
  <2>2. call.kind # "recover" => call.made \in Nat
    BY <1>2 DEF Saving, Recovering
  <2>3. \A r \in Stored, rev \in Nat, made \in Nat :
          /\ [r EXCEPT !.rev = rev, !.recovery = FALSE] \in Stored
          /\ [r EXCEPT !.rev = rev, !.made = made] \in Stored
    BY ZenonT(60)
  <2>5. \A r \in Stored, rev \in Nat, made \in Nat :
          /\ r.rev + 1 \in Nat
          /\ [r EXCEPT !.rev = rev, !.recovery = FALSE].rev = rev
          /\ [r EXCEPT !.rev = rev, !.made = made].rev = rev
    OBVIOUS
  <2>4. 0 \in Nat
    OBVIOUS
  <2>6. /\ [store[n] EXCEPT !.rev = store[n].rev + 1, !.recovery = FALSE] \in Stored
        /\ [store[n] EXCEPT !.rev = store[n].rev + 1, !.recovery = FALSE].rev = store[n].rev + 1
    BY <2>1, <2>3, <2>4, <2>5, Zenon
  <2>7. ASSUME call.kind # "recover"
        PROVE  /\ [store[n] EXCEPT !.rev = store[n].rev + 1, !.made = call.made] \in Stored
               /\ [store[n] EXCEPT !.rev = store[n].rev + 1, !.made = call.made].rev = store[n].rev + 1
    BY <2>1, <2>2, <2>3, <2>5, <2>7, Zenon
  <2> QED
    BY <2>6, <2>7
<1>8. /\ call' \in Saving \cup Recovering /\ call'.kind # "none" /\ call'.phase = "answered" /\ call'.at = n
      /\ store' \in [Notes -> Stored]
      /\ \/ /\ n # NoNote /\ call'.status = "saved" /\ call'.rev = store[n].rev + 1
            /\ store'[n].rev = call'.rev
            /\ \A m \in Notes \ {n} : store'[m] = store[m]
         \/ /\ call'.status # "saved" /\ store' = store
  <2>1. CASE \E status \in {"error", "evidence", "stale"} : Answer(status) /\ store' = store
    <3>1. store \in [Notes -> Stored]
      BY DEF ITyped
    <3> HIDE DEF Answer, Stored
    <3> QED
      BY <1>5, <2>1, <3>1
  <2> HIDE DEF Accepted, Stored
  <2>2. CASE n # NoNote /\ call.kind = "recover" /\ Accepted([store[n] EXCEPT !.rev = store[n].rev + 1, !.recovery = FALSE])
    BY <1>6, <1>7, <2>2
  <2>3. CASE n # NoNote /\ call.kind # "recover" /\ Accepted([store[n] EXCEPT !.rev = store[n].rev + 1, !.made = call.made])
    BY <1>6, <1>7, <2>3
  <2> QED
    BY <1>3, <2>1, <2>2, <2>3
<1> HIDE DEF Answer, Accepted
<1>9. ITyped'
  BY <1>1, <1>8 DEF ITyped, windowVars, history, Framed, Known
<1> QED
  BY <1>1, <1>8, <1>9 DEF n

\* What an answer leaves: nothing filed, or what was accepted filed on the note
\* it is taken for, with the editor it is taken for.
Filed(n, e) ==
    /\ DOMAIN editors' = DOMAIN editors /\ DOMAIN state'.docs = DOMAIN state.docs
    /\ \A m \in DOMAIN editors \ {e} : editors'[m] = editors[m]
    /\ e \in DOMAIN editors => editors'[e].base = call.rev
    /\ \A m \in DOMAIN state.docs \ {n} :
          /\ state'.docs[m].id = state.docs[m].id
          /\ state'.docs[m].rev = state.docs[m].rev /\ state'.docs[m].token = state.docs[m].token
    /\ n \in DOMAIN state.docs =>
          /\ state'.docs[n].id = call.at
          /\ state'.docs[n].rev = call.rev /\ state'.docs[n].token = <<call.at, call.rev>>

\* An answer is taken: it files nothing, or crosses, or is filed on its own note and editor.
LEMMA TakeAnswerTyped ==
  ASSUME ITyped, TakeAnswer
  PROVE  /\ ITyped'
         /\ UNCHANGED <<mainVars, unsaved, toMain, toWindow, shown, activeRef, editorRef, timer, watched,
                        told, releasing, edits, fronts, asked, lost>>
         /\ call.kind # "none" /\ call.phase = "answered" /\ call' = NoCall
         /\ (crossed => crossed') /\ DOMAIN state'.docs = DOMAIN state.docs
         /\ \/ /\ call.status # "saved" \/ call.at \notin Range(open)
               /\ Alike(state.docs, state'.docs) /\ editors' = editors
            \/ crossed'
            \/ /\ call.status = "saved" /\ call.at \in DOMAIN editors
               /\ Filed(call.at, call.at)
<1> DEFINE saving == call.kind = "save"
           n == IF saving THEN call.target ELSE activeRef
           e == IF saving THEN call.editor ELSE editorRef
           accepted == call.status = "saved"
           inFront == n = activeRef
           failed == call.status = "error"
           waiting == IF failed THEN [state EXCEPT !.pending = FALSE]
                      ELSE Unblocked(state, inFront, call.status = "evidence")
           shell == state.shell \/ (n = NoNote /\ ~(saving /\ failed))
           doc == IF accepted
                  THEN [waiting.docs[n] EXCEPT !.id = call.at, !.rev = call.rev,
                                               !.token = <<call.at, call.rev>>, !.blocked = FALSE]
                  ELSE [waiting.docs[n] EXCEPT !.blocked = call.status = "stale"]
           filed == Patch(waiting, n, doc)
           moved == saving /\ e \in DOMAIN editors /\ editors[e].made # call.made
           commits == accepted /\ n # NoNote /\ e \in DOMAIN editors
           last == IF commits THEN Reported(filed, e, moved) ELSE filed
<1>1. /\ call.kind # "none" /\ call.phase = "answered" /\ call' = NoCall
      /\ state' = [last EXCEPT !.shell = shell]
      /\ editors' = IF commits
                    THEN [editors EXCEPT ![e] = Committed(editors[e], call.at, call.rev, moved)]
                    ELSE editors
      /\ crossed' = (crossed \/ (accepted /\ (n # NoNote \/ call.at \in Range(open))
                                 /\ (n # call.at \/ e # n \/ ~commits \/ (~saving /\ editors[e].dirty))))
      /\ UNCHANGED <<mainVars, unsaved, toMain, toWindow, shown, activeRef, editorRef, timer, watched,
                     told, releasing, edits, fronts, asked, lost>>
  BY DEF TakeAnswer
<1>2. call \in Saving \cup Recovering /\ call.at \in Ids /\ call.rev \in Nat
  BY <1>1, CallIs, CallIsOne
<1>3. n \in Ids
  <2>1. saving => call.target \in Ids
    BY <1>2 DEF Saving, Recovering
  <2>2. activeRef \in Ids
    BY DEF ITyped
  <2> QED
    BY <2>1, <2>2
<1>4. Framed(waiting) /\ waiting.docs = state.docs
  <2>1. Framed(state) /\ FALSE \in BOOLEAN /\ NoNote \in Ids
    BY DEF ITyped, Ids
  <2>2. \A b \in BOOLEAN : Framed([state EXCEPT !.pending = FALSE, !.barrier = b])
                            /\ [state EXCEPT !.pending = FALSE, !.barrier = b].docs = state.docs
    BY <2>1, Reframed
  <2>3. Framed([state EXCEPT !.pending = FALSE]) /\ [state EXCEPT !.pending = FALSE].docs = state.docs
    BY <2>1, Reframed
  <2>4. state.barrier \in BOOLEAN /\ (call.status = "evidence") \in BOOLEAN
    BY <2>1, Zenon DEF Framed
  <2>5. (IF inFront THEN call.status = "evidence" ELSE state.barrier) \in BOOLEAN
    BY <2>4
  <2>6. Unblocked(state, inFront, call.status = "evidence")
        = [state EXCEPT !.pending = FALSE, !.barrier = IF inFront THEN call.status = "evidence" ELSE state.barrier]
    BY DEF Unblocked
  <2> QED
    BY <2>2, <2>3, <2>5, <2>6
<1> HIDE DEF waiting
<1>5. n \in Loaded(state.docs) =>
        /\ doc \in DocRecord
        /\ IF accepted THEN doc.id = call.at /\ doc.rev = call.rev /\ doc.token = <<call.at, call.rev>>
           ELSE doc.id = state.docs[n].id /\ doc.rev = state.docs[n].rev /\ doc.token = state.docs[n].token
  <2> SUFFICES ASSUME n \in Loaded(state.docs)
               PROVE  /\ doc \in DocRecord
                      /\ IF accepted THEN doc.id = call.at /\ doc.rev = call.rev /\ doc.token = <<call.at, call.rev>>
                         ELSE doc.id = state.docs[n].id /\ doc.rev = state.docs[n].rev /\ doc.token = state.docs[n].token
    OBVIOUS
  <2>1. waiting.docs[n] \in DocRecord /\ waiting.docs[n] = state.docs[n]
    BY <1>4 DEF Framed, Known, Loaded
  <2>2. <<call.at, call.rev>> \in Ids \X Nat /\ (call.status = "stale") \in BOOLEAN
    BY <1>2
  <2>3. \A r \in DocRecord, at \in Ids, rev \in Nat, token \in Ids \X Nat :
          [r EXCEPT !.id = at, !.rev = rev, !.token = token, !.blocked = FALSE] \in DocRecord
    BY ZenonT(60) DEF DocRecord
  <2>8. \A r \in DocRecord, b \in BOOLEAN : [r EXCEPT !.blocked = b] \in DocRecord
    BY ZenonT(60) DEF DocRecord
  <2>5. \A r \in DocRecord, b \in BOOLEAN :
          LET d == [r EXCEPT !.blocked = b]
          IN d.id = r.id /\ d.rev = r.rev /\ d.token = r.token
    BY DEF DocRecord
  <2>6. CASE accepted
    <3> DEFINE token == <<call.at, call.rev>>
               r == waiting.docs[n]
    <3>1. doc = [r EXCEPT !.id = call.at, !.rev = call.rev, !.token = token, !.blocked = FALSE]
      BY <2>6
    <3>2. token \in Ids \X Nat /\ r \in DocRecord
      BY <2>1, <2>2
    <3> HIDE DEF token, r, doc
    <3>3. doc \in DocRecord
      BY <1>2, <2>3, <3>1, <3>2, Zenon
    <3>4. doc.id = call.at /\ doc.rev = call.rev /\ doc.token = token
      BY <3>1, <3>2 DEF DocRecord
    <3> QED
      BY <2>6, <3>3, <3>4 DEF token
  <2>7. CASE ~accepted
    <3> DEFINE b == call.status = "stale"
               r == waiting.docs[n]
    <3>1. doc = [r EXCEPT !.blocked = b]
      BY <2>7
    <3>2. b \in BOOLEAN /\ r \in DocRecord /\ r = state.docs[n]
      BY <2>1
    <3> HIDE DEF b, r, doc
    <3>3. doc \in DocRecord
      BY <2>8, <3>1, <3>2, Zenon
    <3>4. doc.id = r.id /\ doc.rev = r.rev /\ doc.token = r.token
      BY <2>5, <3>1, <3>2, Zenon
    <3> QED
      BY <2>7, <3>2, <3>3, <3>4
  <2> QED
    BY <2>6, <2>7
<1> HIDE DEF doc
<1>6. /\ Framed(filed) /\ DOMAIN filed.docs = DOMAIN state.docs
      /\ \A m \in DOMAIN state.docs : filed.docs[m] = IF m = n THEN doc ELSE state.docs[m]
  BY <1>4, <1>5, PatchedIsFramed DEF Loaded
<1> HIDE DEF filed
<1>7. Framed(last) /\ Alike(filed.docs, last.docs)
  <2>1. moved \in BOOLEAN
    OBVIOUS
  <2> HIDE DEF moved
  <2>2. Framed(Reported(filed, e, moved)) /\ Alike(filed.docs, Reported(filed, e, moved).docs)
    BY <1>6, <2>1, ReportedIsFramed
  <2> QED
    BY <1>6, <2>2 DEF Alike
<1> HIDE DEF last
<1>8. Framed(state') /\ state'.docs = last.docs
  <2>1. shell \in BOOLEAN /\ TRUE \in BOOLEAN /\ NoNote \in Ids
    <3>1. state.shell \in BOOLEAN
      BY DEF ITyped, Framed
    <3> QED
      BY <3>1 DEF Ids
  <2> HIDE DEF shell
  <2>2. Framed([last EXCEPT !.shell = shell]) /\ [last EXCEPT !.shell = shell].docs = last.docs
    BY <1>7, <2>1, Reframed
  <2> QED
    BY <1>1, <2>2, Zenon
<1>9. commits => /\ Committed(editors[e], call.at, call.rev, moved) \in Mounted
                 /\ Committed(editors[e], call.at, call.rev, moved).base = call.rev
  <2>1. moved \in BOOLEAN
    OBVIOUS
  <2> HIDE DEF moved
  <2> SUFFICES ASSUME commits
               PROVE  /\ Committed(editors[e], call.at, call.rev, moved) \in Mounted
                      /\ Committed(editors[e], call.at, call.rev, moved).base = call.rev
    OBVIOUS
  <2>2. editors[e] \in Mounted
    BY DEF ITyped
  <2> QED
    BY <1>2, <2>1, <2>2, CommittedIsMounted
<1> HIDE DEF moved
<1>10. /\ DOMAIN editors' = DOMAIN editors /\ editors' \in [DOMAIN editors -> Mounted]
       /\ commits => editors'[e].base = call.rev /\ \A m \in DOMAIN editors \ {e} : editors'[m] = editors[m]
  BY <1>1, <1>9 DEF ITyped
<1>11. ITyped'
  <2>1. crossed' \in BOOLEAN
    BY <1>1
  <2> QED
    BY <1>1, <1>8, <1>10, <2>1 DEF ITyped, mainVars, Framed, Known
<1>12. DOMAIN state'.docs = DOMAIN state.docs
       /\ \A m \in DOMAIN state.docs : /\ state'.docs[m].id = filed.docs[m].id
                                      /\ state'.docs[m].rev = filed.docs[m].rev
                                      /\ state'.docs[m].token = filed.docs[m].token
  BY <1>6, <1>7, <1>8 DEF Alike
<1>13. ASSUME n \notin DOMAIN state.docs \/ ~accepted
       PROVE  Alike(state.docs, state'.docs)
  BY <1>5, <1>6, <1>12, <1>13 DEF Alike, Loaded
<1>14. ASSUME accepted, commits
       PROVE  Filed(n, e)
  <2> HIDE DEF commits, n, e
  <2>1. \A m \in DOMAIN state.docs \ {n} :
          /\ state'.docs[m].id = state.docs[m].id
          /\ state'.docs[m].rev = state.docs[m].rev /\ state'.docs[m].token = state.docs[m].token
    BY <1>6, <1>12
  <2>2. n \in DOMAIN state.docs =>
          /\ state'.docs[n].id = call.at
          /\ state'.docs[n].rev = call.rev /\ state'.docs[n].token = <<call.at, call.rev>>
    BY <1>5, <1>6, <1>12, <1>14 DEF Loaded
  <2> QED
    BY <1>10, <1>12, <1>14, <2>1, <2>2 DEF Filed
<1>15. CASE accepted /\ (n # NoNote \/ call.at \in Range(open)) /\ ~crossed'
  <2>1. n = call.at /\ e = n /\ commits
    BY <1>1, <1>15
  <2>2. Filed(n, e)
    BY <1>14, <1>15, <2>1
  <2>3. call.at \in DOMAIN editors
    BY <2>1
  <2>4. Filed(call.at, call.at)
    BY <2>1, <2>2
  <2> QED
    BY <1>1, <1>11, <1>12, <1>15, <2>3, <2>4
<1>16. CASE ~accepted \/ (n = NoNote /\ call.at \notin Range(open))
  <2>1. NoNote \notin DOMAIN state.docs
    BY WindowNotesConstants DEF ITyped, Framed, Known
  <2>2. Alike(state.docs, state'.docs)
    BY <1>13, <1>16, <2>1
  <2>3. editors' = editors
    BY <1>1, <1>16
  <2>4. call.status # "saved" \/ call.at \notin Range(open)
    BY <1>16
  <2> QED
    BY <1>1, <1>11, <1>12, <2>2, <2>3, <2>4
<1>17. crossed => crossed'
  BY <1>1
<1>18. CASE crossed'
  BY <1>1, <1>11, <1>12, <1>17, <1>18
<1> QED
  BY <1>15, <1>16, <1>18

\* A render shows the state, drops the editors of the notes no longer in it and
\* tells main of the notes with unsaved edits.
LEMMA RenderTyped ==
  ASSUME ITyped, Render
  PROVE  /\ ITyped'
         /\ shown' = state /\ told' = DirtyNotes(state)
         /\ UNCHANGED <<mainVars, unsaved, toWindow, call, state, releasing, crossed, asked>>
         /\ DOMAIN editors' = DOMAIN editors \cap Slots(state.docs)
         /\ \A n \in DOMAIN editors' : editors'[n] = editors[n]
         /\ \/ told' = told /\ toMain' = toMain
            \/ \E sent \in [Notes -> Nat] :
                  /\ toMain' = Append(toMain, [is |-> "unsaved", notes |-> sent])
                  /\ \A n \in Notes \ told' : sent[n] = 0
         /\ lost' = (lost \/ \E n \in DOMAIN editors \ Slots(state.docs) :
                        (IF n \in Range(open) THEN unsaved[n] ELSE asked[n]) > store[n].made)
<1> DEFINE gone == DOMAIN editors \ Slots(state.docs)
           sent == Report(told')
<1>1. /\ shown' = state /\ told' = DirtyNotes(state) /\ activeRef' = state.active
      /\ UNCHANGED <<mainVars, unsaved, toWindow, call, state, releasing, crossed, asked>>
      /\ editors' = Without(editors, gone)
      /\ editorRef' = IF state.active \in DOMAIN editors' THEN state.active ELSE NoNote
      /\ lost' = (lost \/ \E n \in gone : (IF n \in Range(open) THEN unsaved[n] ELSE asked[n]) > store[n].made)
      /\ toMain' = IF told' = told THEN toMain ELSE Append(toMain, [is |-> "unsaved", notes |-> sent])
  BY DEF Render
<1>2. DOMAIN editors' = DOMAIN editors \cap Slots(state.docs) /\ \A n \in DOMAIN editors' : editors'[n] = editors[n]
  <2>1. /\ DOMAIN Without(editors, gone) = DOMAIN editors \ gone
        /\ \A n \in DOMAIN editors \ gone : Without(editors, gone)[n] = editors[n]
    BY WithoutIs
  <2> QED
    BY <1>1, <2>1
<1>3. editors' \in [DOMAIN editors' -> Mounted] /\ DOMAIN editors' \subseteq Notes
  <2>1. editors' = [n \in DOMAIN editors \ gone |-> editors[n]]
    BY <1>1 DEF Without, Loaded
  <2> QED
    BY <2>1 DEF ITyped
<1>4. told' \in SUBSET Notes
  BY <1>1 DEF DirtyNotes, ITyped, Framed, Known, Loaded
<1>5. sent \in [Notes -> Nat] /\ \A n \in Notes \ told' : sent[n] = 0
  <2>1. \A n \in DOMAIN editors : editors[n].made \in Nat
    BY DEF ITyped, Mounted
  <2> QED
    BY <2>1 DEF Report
<1> HIDE DEF sent, gone
<1>6. \/ told' = told /\ toMain' = toMain
      \/ toMain' = Append(toMain, [is |-> "unsaved", notes |-> sent])
  BY <1>1
<1>7. toMain' \in Seq(Sent)
  <2> DEFINE one == [is |-> "unsaved", notes |-> sent]
  <2>1. one \in Sent
    BY <1>5 DEF Sent
  <2>2. toMain' = toMain \/ toMain' = Append(toMain, one)
    BY <1>6
  <2>3. toMain \in Seq(Sent)
    BY DEF ITyped
  <2> HIDE DEF one
  <2> QED
    BY <2>1, <2>2, <2>3
<1>8. lost' \in BOOLEAN
  BY <1>1 DEF ITyped
<1>9. activeRef' \in Ids /\ editorRef' \in DOMAIN editors' \cup {NoNote}
  BY <1>1 DEF ITyped, Framed
<1>10. ITyped'
  BY <1>1, <1>3, <1>4, <1>7, <1>8, <1>9 DEF ITyped, mainVars, Framed, Known
<1> QED
  BY <1>1, <1>2, <1>5, <1>6, <1>10 DEF gone

\* An editor that is there is made from the revision last shown.
LEMMA ReadyTyped ==
  ASSUME ITyped, NEW n \in Notes, Ready(n)
  PROVE  /\ ITyped'
         /\ UNCHANGED <<mainVars, unsaved, toMain, toWindow, call, state, shown, told, releasing, crossed, asked, lost>>
         /\ n \in Slots(shown.docs) \ DOMAIN editors
         /\ DOMAIN editors' = DOMAIN editors \cup {n}
         /\ editors'[n].base = Rev(shown.docs, n)
         /\ \A m \in DOMAIN editors : editors'[m] = editors[m]
<1> DEFINE new == Editor(n, Rev(shown.docs, n))
<1>1. /\ n \in Slots(shown.docs) \ DOMAIN editors
      /\ editors' = With(editors, n, new)
      /\ editorRef' = IF n = activeRef THEN n ELSE editorRef
      /\ UNCHANGED <<mainVars, unsaved, toMain, toWindow, call, state, shown, activeRef, timer, watched, told,
                     releasing, history>>
  BY DEF Ready
<1>2. Rev(shown.docs, n) \in Nat
  BY DEF Rev, ITyped, Framed, Known, Loaded, DocRecord
<1>3. new \in Mounted /\ new.base = Rev(shown.docs, n)
  BY <1>2 DEF Editor, Mounted, Ids
<1> HIDE DEF new
<1>4. /\ DOMAIN editors' = DOMAIN editors \cup {n} /\ editors'[n] = new
      /\ \A m \in DOMAIN editors \ {n} : editors'[m] = editors[m]
  <2>1. /\ DOMAIN With(editors, n, new) = DOMAIN editors \cup {n}
        /\ With(editors, n, new)[n] = new
        /\ \A m \in DOMAIN editors \ {n} : With(editors, n, new)[m] = editors[m]
    BY DEF With, Loaded
  <2>2. editors' = With(editors, n, new)
    BY <1>1
  <2> QED
    BY <2>1, <2>2
<1>5. editors' \in [DOMAIN editors' -> Mounted] /\ DOMAIN editors' \subseteq Notes
  <2>1. editors' = [m \in DOMAIN editors \cup {n} |-> IF m = n THEN new ELSE editors[m]]
    BY <1>1 DEF With, Loaded
  <2>2. DOMAIN editors \subseteq Notes /\ \A m \in DOMAIN editors : editors[m] \in Mounted
    BY DEF ITyped
  <2> QED
    BY <1>3, <1>4, <2>1, <2>2
<1>6. ITyped'
  BY <1>1, <1>4, <1>5 DEF ITyped, mainVars, history, Framed, Known
<1> QED
  BY <1>1, <1>3, <1>4, <1>6 DEF history

\* Main's news: the note it brings has its record of the day it was opened, the
\* notes no longer open lose theirs, and notes with nothing unsaved are let go.
LEMMA ReceiveTyped ==
  ASSUME ITyped, Receive
  PROVE  /\ ITyped'
         /\ toWindow # <<>> /\ toWindow' = Tail(toWindow)
         /\ UNCHANGED <<mainVars, unsaved, call, shown, editors, told, crossed, asked, lost>>
         /\ LET news == Head(toWindow)
                new == IF news.brings /\ news.front # NoNote THEN {news.front} ELSE {}
            IN /\ DOMAIN state'.docs = (DOMAIN state.docs \cup new) \cap news.notes
               /\ \A m \in DOMAIN state'.docs :
                     state'.docs[m] = IF m \in DOMAIN state.docs THEN state.docs[m] ELSE Record(m)
         /\ \E ext \in Seq(Sent) :
               /\ toMain' = toMain \o ext
               /\ \A i \in 1..Len(ext) : ext[i].is = "release" /\ ext[i].note \in Notes \ DirtyNotes(shown)
<1> DEFINE news == Head(toWindow)
           new == IF news.brings /\ news.front # NoNote THEN {news.front} ELSE {}
           s == Brought(state, news)
           still == releasing \cap news.notes
           excess == Cardinality(news.notes) - Cardinality(still)
           idle == Idle(news, still)
           many == IF excess <= KeepLoaded THEN 0
                   ELSE IF excess - KeepLoaded < Cardinality(idle) THEN excess - KeepLoaded ELSE Cardinality(idle)
           kept == Without(s.docs, Loaded(s.docs) \ news.notes)
<1>1. /\ toWindow # <<>> /\ toWindow' = Tail(toWindow)
      /\ UNCHANGED <<mainVars, unsaved, call, shown, editorRef, editors, timer, watched, told, history>>
      /\ state' = [s EXCEPT !.docs = kept, !.active = news.front]
      /\ activeRef' = news.front
      /\ \E gone \in LetGo(news, idle, many) :
            /\ releasing' = still \cup Range(gone)
            /\ toMain' = toMain \o [i \in 1..many |-> [is |-> "release", note |-> gone[i]]]
  BY DEF Receive, TakeTabs
<1>2. news \in Published /\ toWindow' \in Seq(Published)
  BY <1>1 DEF ITyped
<1>3. /\ news.brings \in BOOLEAN /\ news.notes \subseteq Notes /\ IsFiniteSet(news.notes)
      /\ news.recent \in Seq(Notes) /\ news.front \in Ids
  BY <1>2 DEF Published
<1> HIDE DEF news
<1>4. /\ Framed(s) /\ DOMAIN s.docs = DOMAIN state.docs \cup new
      /\ \A m \in DOMAIN s.docs : s.docs[m] = IF m \in DOMAIN state.docs THEN state.docs[m] ELSE Record(m)
  <2>1. Framed(state)
    BY DEF ITyped
  <2>2. CASE ~news.brings
    BY <2>1, <2>2 DEF Brought
  <2>3. CASE news.brings /\ news.front = NoNote
    <3>1. NoNote \in Ids /\ FALSE \in BOOLEAN
      BY DEF Ids
    <3>2. Framed([state EXCEPT !.active = NoNote, !.shell = FALSE])
          /\ [state EXCEPT !.active = NoNote, !.shell = FALSE].docs = state.docs
      BY <2>1, <3>1, Reframed
    <3>3. s = [state EXCEPT !.active = NoNote, !.shell = FALSE]
      BY <2>3 DEF Brought
    <3> QED
      BY <2>3, <3>2, <3>3
  <2>4. CASE news.brings /\ news.front # NoNote
    <3> DEFINE n == news.front
               docs == IF n \in Loaded(state.docs) THEN state.docs ELSE With(state.docs, n, Record(n))
    <3>1. s = [docs |-> docs, active |-> n, pending |-> state.pending, barrier |-> n \in Evidence, shell |-> state.shell]
      BY <2>4 DEF Brought, Adopted
    <3>2. n \in Notes
      BY <1>3, <2>4 DEF Ids
    <3>3. Record(n) \in DocRecord
      BY <3>2 DEF Record, DocRecord, Ids
    <3>4. Known(state.docs)
      BY <2>1 DEF Framed
    <3>5. /\ DOMAIN docs = DOMAIN state.docs \cup {n}
          /\ \A m \in DOMAIN docs : docs[m] = IF m \in DOMAIN state.docs THEN state.docs[m] ELSE Record(m)
          /\ Known(docs)
      <4> DEFINE rec == Record(n)
      <4>1. CASE n \in Loaded(state.docs)
        BY <3>4, <4>1 DEF Loaded
      <4>2. CASE n \notin Loaded(state.docs)
        <5>1. docs = [m \in DOMAIN state.docs \cup {n} |-> IF m = n THEN rec ELSE state.docs[m]]
          BY <4>2 DEF With, Loaded
        <5>2. rec \in DocRecord /\ n \in Notes
          BY <3>2, <3>3
        <5>3. n \notin DOMAIN state.docs
          BY <4>2 DEF Loaded
        <5> HIDE DEF docs, rec
        <5>4. DOMAIN docs = DOMAIN state.docs \cup {n} /\ \A m \in DOMAIN docs : docs[m] = IF m = n THEN rec ELSE state.docs[m]
          BY <5>1
        <5>5. \A m \in DOMAIN docs : docs[m] \in DocRecord
          BY <3>4, <5>2, <5>4 DEF Known
        <5>6. Known(docs)
          BY <3>4, <5>1, <5>2, <5>4, <5>5 DEF Known
        <5> QED
          BY <5>3, <5>4, <5>6 DEF rec
      <4> QED
        BY <4>1, <4>2
    <3> HIDE DEF docs
    <3>6. state.pending \in BOOLEAN /\ state.shell \in BOOLEAN /\ (n \in Evidence) \in BOOLEAN /\ n \in Ids
      <4>1. state.pending \in BOOLEAN /\ state.shell \in BOOLEAN
        BY <2>1 DEF Framed
      <4> QED
        BY <1>3, <4>1
    <3>7. Framed(s)
      <4> DEFINE b == n \in Evidence
      <4>1. b \in BOOLEAN
        BY <3>6
      <4>2. s = [docs |-> docs, active |-> n, pending |-> state.pending, barrier |-> b, shell |-> state.shell]
        BY <3>1
      <4> HIDE DEF b, s, n
      <4> QED
        BY <3>5, <3>6, <4>1, <4>2, FrameIs
    <3> QED
      BY <2>4, <3>1, <3>5, <3>7
  <2> QED
    BY <2>2, <2>3, <2>4, <1>3
<1> HIDE DEF s
<1>5. /\ DOMAIN kept = DOMAIN s.docs \cap news.notes
      /\ \A m \in DOMAIN kept : kept[m] = s.docs[m]
      /\ Known(kept)
  <2>1. kept = [m \in DOMAIN s.docs \cap news.notes |-> s.docs[m]]
    BY DEF Without, Loaded
  <2> HIDE DEF kept
  <2> QED
    BY <1>4, <2>1 DEF Framed, Known
<1> HIDE DEF kept
<1>6. Framed(state') /\ state'.docs = kept
  <2>1. s \in [docs : {s.docs}, active : Ids, pending : BOOLEAN, barrier : BOOLEAN, shell : BOOLEAN]
    BY <1>4 DEF Framed
  <2>2. state' \in [docs : {kept}, active : Ids, pending : BOOLEAN, barrier : BOOLEAN, shell : BOOLEAN]
    BY <1>1, <1>3, <2>1, ZenonT(60)
  <2>3. state'.docs = kept
    BY <2>2
  <2> QED
    BY <1>5, <2>2, <2>3 DEF Framed
<1>7. many \in Nat
  <2>1. still \subseteq news.notes /\ IsFiniteSet(still)
    BY <1>3, FS_Subset
  <2>2. idle \subseteq Range(news.recent)
    BY DEF Idle
  <2>3. IsFiniteSet(idle)
    BY <1>3, <2>2, ListIsFinite, FS_Subset
  <2>4. Cardinality(idle) \in Nat /\ Cardinality(still) \in Nat /\ Cardinality(news.notes) \in Nat
    BY <1>3, <2>1, <2>3, FS_CardinalityType
  <2>5. KeepLoaded \in Nat
    BY WindowNotesConstants
  <2> HIDE DEF still, idle
  <2> QED
    BY <2>4, <2>5
<1>8. idle \subseteq Notes \ DirtyNotes(shown)
  BY <1>3 DEF Idle, Range
<1> HIDE DEF many, idle, still
<1>9. PICK gone \in LetGo(news, idle, many) :
        /\ releasing' = still \cup Range(gone)
        /\ toMain' = toMain \o [i \in 1..many |-> [is |-> "release", note |-> gone[i]]]
  BY <1>1
<1>10. gone \in [1..many -> idle]
  BY DEF LetGo
<1> DEFINE ext == [i \in 1..many |-> [is |-> "release", note |-> gone[i]]]
<1>11. /\ ext \in Seq(Sent) /\ Len(ext) = many
       /\ \A i \in 1..Len(ext) : ext[i].is = "release" /\ ext[i].note \in Notes \ DirtyNotes(shown)
  <2>1. \A i \in 1..many : gone[i] \in Notes \ DirtyNotes(shown)
    BY <1>8, <1>10
  <2>2. \A i \in 1..many : ext[i] \in Sent /\ ext[i].is = "release" /\ ext[i].note = gone[i]
    BY <2>1 DEF Sent
  <2>3. ext \in [1..many -> Sent]
    BY <2>2
  <2>4. ext \in Seq(Sent) /\ Len(ext) = many
    BY <1>7, <2>3
  <2> QED
    BY <2>1, <2>2, <2>4
<1>12. toMain' = toMain \o ext
  BY <1>9
<1> HIDE DEF ext
<1>13. toMain' \in Seq(Sent)
  BY <1>11, <1>12, SentIsSent
<1>14. releasing' \subseteq Notes
  <2>1. still \subseteq Notes
    BY <1>3 DEF still
  <2>2. Range(gone) \subseteq Notes
    BY <1>8, <1>10 DEF Range
  <2> QED
    BY <1>9, <2>1, <2>2
<1>15. activeRef' \in Ids
  BY <1>1, <1>3
<1>16. ITyped'
  BY <1>1, <1>2, <1>6, <1>13, <1>14, <1>15 DEF ITyped, mainVars, history, Framed, Known
<1>17. /\ DOMAIN state'.docs = (DOMAIN state.docs \cup new) \cap news.notes
       /\ \A m \in DOMAIN state'.docs :
             state'.docs[m] = IF m \in DOMAIN state.docs THEN state.docs[m] ELSE Record(m)
  BY <1>4, <1>5, <1>6
<1> QED
  BY <1>1, <1>11, <1>12, <1>16, <1>17 DEF history, news

\* Typing changes what an editor has made, and marks its record.
LEMMA TypeTyped ==
  ASSUME ITyped, Type
  PROVE  /\ ITyped'
         /\ UNCHANGED <<mainVars, unsaved, toMain, toWindow, call, shown, told, releasing, crossed, asked, lost>>
         /\ Alike(state.docs, state'.docs)
         /\ DOMAIN editors' = DOMAIN editors
         /\ \A m \in DOMAIN editors : editors'[m].base = editors[m].base
<1> DEFINE n == shown.active
           e == editors[n]
<1>1. /\ n \in DOMAIN editors
      /\ editors' = [editors EXCEPT ![n].made = e.made + 1, ![n].dirty = TRUE]
      /\ state' = IF e.dirty THEN state ELSE Reported(state, n, TRUE)
      /\ UNCHANGED <<mainVars, unsaved, toMain, toWindow, call, shown, activeRef, editorRef, watched,
                     told, releasing, fronts, crossed, asked, lost>>
  BY DEF Type
<1>2. Framed(state') /\ Alike(state.docs, state'.docs)
  <2>1. Framed(state) /\ TRUE \in BOOLEAN
    BY DEF ITyped
  <2>2. Framed(Reported(state, n, TRUE)) /\ Alike(state.docs, Reported(state, n, TRUE).docs)
    BY <2>1, ReportedIsFramed
  <2> QED
    BY <1>1, <2>1, <2>2 DEF Alike
<1>3. editors \in [DOMAIN editors -> Mounted] /\ e \in Mounted /\ e.made + 1 \in Nat
  <2>1. editors \in [DOMAIN editors -> Mounted]
    BY DEF ITyped
  <2>2. e \in Mounted
    BY <1>1, <2>1
  <2> HIDE DEF e
  <2>3. e.made + 1 \in Nat
    BY <2>2 DEF Mounted
  <2> QED
    BY <2>1, <2>2, <2>3
<1> DEFINE typed == [e EXCEPT !.made = e.made + 1, !.dirty = TRUE]
<1>4. typed \in Mounted /\ typed.base = e.base
  <2>1. \A r \in Mounted, made \in Nat :
          [r EXCEPT !.made = made, !.dirty = TRUE] \in Mounted
    BY ZenonT(60) DEF Mounted
  <2>2. \A r \in Mounted, made \in Nat :
          [r EXCEPT !.made = made, !.dirty = TRUE].base = r.base
    BY DEF Mounted
  <2> QED
    BY <1>3, <2>1, <2>2
<1>5. editors' = [editors EXCEPT ![n] = typed]
  BY <1>1, <1>3
<1> HIDE DEF typed
<1>6. /\ DOMAIN editors' = DOMAIN editors /\ editors' \in [DOMAIN editors' -> Mounted]
      /\ \A m \in DOMAIN editors : editors'[m].base = editors[m].base
  BY <1>1, <1>3, <1>4, <1>5
<1>7. ITyped'
  BY <1>1, <1>2, <1>6 DEF ITyped, mainVars, Framed, Known
<1> QED
  BY <1>1, <1>2, <1>6, <1>7

\* What a save, a recovery and the opening of a row send.
Sends ==
    /\ UNCHANGED <<mainVars, unsaved, toWindow, shown, editors, told, releasing, crossed, asked, lost>>
    /\ Alike(state.docs, state'.docs)
    /\ \E ext \in Seq(Sent) :
          /\ toMain' = toMain \o ext
          /\ \A i \in 1..Len(ext) : ext[i].is \in {"call", "open"}
          /\ \/ call' = call /\ \A i \in 1..Len(ext) : ext[i].is = "open"
             \/ /\ call = NoCall /\ call' \in Saving \cup Recovering /\ call'.phase = "sent" /\ call'.at = NoNote
                /\ \A i \in 1..Len(ext) : ext[i].is = "call" => i = 1

\* Nothing behind, or a note to open.
LEMMA AskedIsSent ==
  ASSUME NEW sent, sent = <<>> \/ \E n \in Notes : sent = <<[is |-> "open", note |-> n]>>
  PROVE  /\ sent \in Seq(Sent) /\ \A i \in 1..Len(sent) : sent[i].is = "open"
         /\ <<[is |-> "call"]>> \o sent \in Seq(Sent)
         /\ \A i \in 1..Len(<<[is |-> "call"]>> \o sent) :
               (<<[is |-> "call"]>> \o sent)[i].is = IF i = 1 THEN "call" ELSE "open"
<1> DEFINE one == [is |-> "call"]
           all == <<one>> \o sent
<1>1. /\ sent \in Seq(Sent) /\ Len(sent) \in {0, 1}
      /\ \A i \in 1..Len(sent) : sent[i].is = "open"
  <2>1. CASE sent = <<>>
    BY <2>1
  <2>2. CASE \E n \in Notes : sent = <<[is |-> "open", note |-> n]>>
    <3>1. PICK n \in Notes : sent = <<[is |-> "open", note |-> n]>>
      BY <2>2
    <3> DEFINE m == [is |-> "open", note |-> n]
    <3>2. m \in Sent /\ m.is = "open"
      BY DEF Sent
    <3>3. sent = <<m>>
      BY <3>1
    <3> HIDE DEF m
    <3> QED
      BY <3>2, <3>3
  <2> QED
    BY <2>1, <2>2
<1>2. one \in Sent /\ one.is = "call"
  BY DEF Sent
<1> HIDE DEF one
<1>3. /\ <<one>> \in Seq(Sent) /\ Len(<<one>>) = 1 /\ <<one>>[1] = one
  BY <1>2
<1>4. /\ all \in Seq(Sent) /\ Len(all) = 1 + Len(sent)
      /\ \A i \in 1..(1 + Len(sent)) : all[i] = IF i <= 1 THEN <<one>>[i] ELSE sent[i - 1]
  <2>1. /\ <<one>> \o sent \in Seq(Sent) /\ Len(<<one>> \o sent) = Len(<<one>>) + Len(sent)
        /\ \A i \in 1..(Len(<<one>>) + Len(sent)) :
              (<<one>> \o sent)[i] = IF i <= Len(<<one>>) THEN <<one>>[i] ELSE sent[i - Len(<<one>>)]
    BY <1>1, <1>3, ConcatProperties
  <2> QED
    BY <1>3, <2>1
<1> HIDE DEF all
<1>5. \A i \in 1..Len(all) : all[i].is = IF i = 1 THEN "call" ELSE "open"
  <2> SUFFICES ASSUME NEW i \in 1..Len(all)
               PROVE  all[i].is = IF i = 1 THEN "call" ELSE "open"
    OBVIOUS
  <2>1. CASE i = 1
    BY <1>1, <1>2, <1>3, <1>4, <2>1
  <2>2. CASE i # 1
    <3>1. i - 1 \in 1..Len(sent) /\ i \in 1..(1 + Len(sent)) /\ ~(i <= 1)
      BY <1>1, <1>4, <2>2
    <3> QED
      BY <1>1, <1>4, <2>2, <3>1
  <2> QED
    BY <2>1, <2>2
<1> QED
  BY <1>1, <1>4, <1>5 DEF all, one

\* Saving, or not, is what it sends.
LEMMA SaveSends ==
  ASSUME ITyped, NEW sent, sent = <<>> \/ \E n \in Notes : sent = <<[is |-> "open", note |-> n]>>,
         SaveThen(sent) \/ (UNCHANGED <<call, state>> /\ toMain' = toMain \o sent),
         UNCHANGED <<mainVars, unsaved, toWindow, shown, activeRef, editorRef, editors, watched, told,
                     releasing, crossed, asked, lost>>
  PROVE  ITyped' /\ Sends
<1> DEFINE one == <<[is |-> "call"]>> \o sent
<1>1. /\ sent \in Seq(Sent) /\ \A i \in 1..Len(sent) : sent[i].is = "open"
      /\ one \in Seq(Sent)
      /\ \A i \in 1..Len(one) : one[i].is = IF i = 1 THEN "call" ELSE "open"
  BY AskedIsSent
<1>2. CASE SaveThen(sent) /\ Saves
  <2>1. /\ call' \in {NoCall} \cup Saving \cup Recovering
        /\ call' = call \/ (call' \in Saving /\ call'.phase = "sent" /\ call'.at = NoNote)
        /\ Framed(state') /\ Alike(state.docs, state'.docs)
    BY <1>1, <1>2, SaveThenTyped
  <2>2. call = NoCall /\ call' = Captured /\ toMain' = Append(toMain, [is |-> "call"]) \o sent
    BY <1>2 DEF Saves, SaveThen
  <2>3. call' # call
    BY <2>2 DEF Captured, NoCall
  <2>4. toMain' = toMain \o one
    <3> DEFINE c == [is |-> "call"]
    <3>1. c \in Sent /\ toMain \in Seq(Sent)
      BY DEF Sent, ITyped
    <3>2. toMain' = Append(toMain, c) \o sent /\ one = <<c>> \o sent
      BY <2>2
    <3> HIDE DEF c, one
    <3>3. <<c>> \in Seq(Sent) /\ Append(toMain, c) = toMain \o <<c>>
      BY <3>1
    <3> QED
      BY <1>1, <3>1, <3>2, <3>3, ConcatAssociative
  <2> HIDE DEF one
  <2>5. toMain' \in Seq(Sent)
    BY <1>1, <2>4, SentIsSent
  <2>6. ITyped'
    BY <2>1, <2>5 DEF ITyped, mainVars, Framed, Known
  <2>7. \A i \in 1..Len(one) : one[i].is \in {"call", "open"} /\ (one[i].is = "call" => i = 1)
    BY <1>1
  <2>8. call' \in Saving \cup Recovering
    BY <2>1, <2>3
  <2> QED
    BY <1>1, <2>1, <2>2, <2>3, <2>4, <2>6, <2>7, <2>8 DEF Sends
<1>3. CASE UNCHANGED <<call, state>> /\ toMain' = toMain \o sent
  <2> HIDE DEF one
  <2>1. toMain' \in Seq(Sent)
    BY <1>1, <1>3, SentIsSent
  <2>2. ITyped'
    BY <1>3, <2>1 DEF ITyped, mainVars, Framed, Known
  <2>3. \A i \in 1..Len(sent) : sent[i].is \in {"call", "open"}
    BY <1>1
  <2>4. Alike(state.docs, state'.docs)
    BY <1>3 DEF Alike
  <2> QED
    BY <1>1, <1>3, <2>2, <2>3, <2>4 DEF Sends
<1>4. SaveThen(sent) /\ ~Saves => UNCHANGED <<call, state>> /\ toMain' = toMain \o sent
  BY DEF SaveThen
<1> QED
  BY <1>2, <1>3, <1>4

\* Saving by hand or timer, opening a row and recovering are what they send.
LEMMA SendsTyped ==
  ASSUME ITyped, Save \/ AutoSave \/ OpenRow \/ Recover
  PROVE  ITyped' /\ Sends
<1>1. CASE Save
  <2>1. SaveThen(<<>>)
        /\ UNCHANGED <<mainVars, unsaved, toWindow, shown, activeRef, editorRef, editors, watched, told,
                       releasing, crossed, asked, lost>>
    BY <1>1 DEF Save, history
  <2> QED
    BY <2>1, SaveSends
<1>2. CASE AutoSave
  <2>1. SaveThen(<<>>)
        /\ UNCHANGED <<mainVars, unsaved, toWindow, shown, activeRef, editorRef, editors, watched, told,
                       releasing, crossed, asked, lost>>
    BY <1>2 DEF AutoSave, history
  <2> QED
    BY <2>1, SaveSends
<1>3. CASE OpenRow
  <2>1. PICK n \in Notes : SaveThen(<<[is |-> "open", note |-> n]>>)
                           \/ (UNCHANGED <<call, state>> /\ toMain' = toMain \o <<[is |-> "open", note |-> n]>>)
    BY <1>3 DEF OpenRow
  <2>2. UNCHANGED <<mainVars, unsaved, toWindow, shown, activeRef, editorRef, editors, watched, told,
                    releasing, crossed, asked, lost>>
    BY <1>3 DEF OpenRow
  <2> QED
    BY <2>1, <2>2, SaveSends
<1>4. CASE Recover
  <2> DEFINE c == [kind |-> "recover", phase |-> "sent", at |-> NoNote, status |-> "none", rev |-> 0]
             one == [is |-> "call"]
  <2>1. /\ call = NoCall /\ call' = c
        /\ state' = [state EXCEPT !.pending = TRUE]
        /\ toMain' = Append(toMain, one)
        /\ UNCHANGED <<mainVars, unsaved, toWindow, shown, activeRef, editorRef, editors, timer, watched,
                       told, releasing, history>>
    BY <1>4 DEF Recover
  <2>2. c \in Recovering /\ c.phase = "sent" /\ c.at = NoNote
    BY DEF Recovering, Ids
  <2>3. one \in Sent /\ one.is = "call"
    BY DEF Sent
  <2> HIDE DEF c, one
  <2>4. Framed(state') /\ state'.docs = state.docs
    <3>1. Framed(state) /\ TRUE \in BOOLEAN /\ NoNote \in Ids
      BY DEF ITyped, Ids
    <3>2. Framed([state EXCEPT !.pending = TRUE]) /\ [state EXCEPT !.pending = TRUE].docs = state.docs
      BY <3>1, Reframed
    <3> QED
      BY <2>1, <3>2
  <2>5. /\ <<one>> \in Seq(Sent) /\ Len(<<one>>) = 1 /\ <<one>>[1] = one
        /\ toMain' = toMain \o <<one>> /\ toMain' \in Seq(Sent)
    <3>1. toMain \in Seq(Sent)
      BY DEF ITyped
    <3> QED
      BY <2>1, <2>3, <3>1
  <2>6. ITyped'
    BY <2>1, <2>2, <2>4, <2>5 DEF ITyped, mainVars, history, Framed, Known
  <2>7. \A i \in 1..Len(<<one>>) : <<one>>[i].is = "call" /\ i = 1
    BY <2>3, <2>5
  <2>8. Alike(state.docs, state'.docs)
    BY <2>4 DEF Alike
  <2>9. \A i \in 1..Len(<<one>>) : <<one>>[i].is \in {"call", "open"} /\ (<<one>>[i].is = "call" => i = 1)
    BY <2>7
  <2> QED
    BY <2>1, <2>2, <2>5, <2>6, <2>8, <2>9 DEF Sends, history
<1> QED
  BY <1>1, <1>2, <1>3, <1>4

\* A note opened by main, and one closed from the menu.
LEMMA MainOpensTyped ==
  ASSUME ITyped, MainOpens
  PROVE  ITyped' /\ UNCHANGED <<unsaved, toMain, call, windowVars, crossed, asked, lost>> /\ \E n \in Notes : Bring(n)
<1>1. PICK n \in Notes : Bring(n)
  BY DEF MainOpens
<1>2. UNCHANGED <<unsaved, toMain, call, windowVars, crossed, asked, lost>>
  BY DEF MainOpens
<1>3. MainTyped' /\ store' = store
  BY <1>1, BringTyped
<1> QED
  BY <1>1, <1>2, <1>3 DEF ITyped, MainTyped, windowVars, Framed, Known

\* A note closed from the menu is one main knows no unsaved edits of.
LEMMA CloseTabTyped ==
  ASSUME ITyped, front \in Range(open) \cup {NoNote}, CloseTab
  PROVE  /\ ITyped' /\ UNCHANGED <<unsaved, toMain, call, windowVars, crossed, lost>>
         /\ front \in Range(open) /\ unsaved[front] = 0 /\ Close(front)
<1>1. /\ UNCHANGED <<unsaved, toMain, call, windowVars, crossed, lost>>
      /\ front # NoNote /\ ~Unsaved(front) /\ Close(front)
  BY DEF CloseTab
<1>2. front \in Range(open)
  BY <1>1
<1>3. MainTyped' /\ store' = store /\ front \in Notes /\ asked' = [asked EXCEPT ![front] = unsaved[front]]
  BY <1>1, <1>2, CloseTyped
<1>4. unsaved[front] = 0
  <2>1. unsaved[front] \in Nat
    BY <1>3 DEF ITyped
  <2> QED
    BY <1>1, <2>1 DEF Unsaved
<1>5. asked' \in [Notes -> Nat]
  BY <1>3, <1>4 DEF ITyped
<1> QED
  BY <1>1, <1>2, <1>3, <1>4, <1>5 DEF ITyped, MainTyped, windowVars, Framed, Known

-----------------------------------------------------------------------------
(***************************************************************************)
(* What main will know of a note.                                          *)
(***************************************************************************)
\* Taking a call leaves main knowing what the list with it told.
LEMMA CleanShifts ==
  ASSUME ITyped, toMain # <<>>, toMain' = Tail(toMain),
         unsaved' = IF Head(toMain).is = "unsaved" THEN Head(toMain).notes ELSE unsaved,
         NEW n, NEW i \in 0..(Len(toMain) - 1), Clean(i + 1, n)
  PROVE  Clean(i, n)'
<1>1. /\ Len(toMain) \in Nat /\ Len(toMain) >= 1 /\ Head(toMain) = toMain[1] /\ Len(toMain') = Len(toMain) - 1
      /\ \A j \in 1..Len(toMain') : toMain'[j] = toMain[j + 1]
  BY DEF ITyped
<1> SUFFICES ASSUME NEW j \in 0..i, Tells(j)', \A k \in (j + 1)..i : ~Tells(k)'
             PROVE  List(j)'[n] = 0
  BY DEF Clean
<1>2. \A k \in 1..i : Tells(k)' <=> Tells(k + 1)
  <2> SUFFICES ASSUME NEW k \in 1..i
               PROVE  Tells(k)' <=> Tells(k + 1)
    OBVIOUS
  <2>1. k \in 1..Len(toMain') /\ k # 0 /\ k + 1 # 0
    BY <1>1
  <2> QED
    BY <1>1, <2>1 DEF Tells
<1>3. \A k \in (j + 2)..(i + 1) : ~Tells(k)
  <2> SUFFICES ASSUME NEW k \in (j + 2)..(i + 1)
               PROVE  ~Tells(k)
    OBVIOUS
  <2>1. k - 1 \in (j + 1)..i /\ k - 1 \in 1..i /\ (k - 1) + 1 = k
    OBVIOUS
  <2> QED
    BY <1>2, <2>1
<1>4. CASE j # 0
  <2>1. j \in 1..i /\ j + 1 \in 0..(i + 1) /\ j \in 1..Len(toMain') /\ (j + 1) + 1 = j + 2 /\ j + 1 # 0
    BY <1>1, <1>4
  <2>2. Tells(j + 1)
    BY <1>2, <2>1
  <2>3. List(j + 1)[n] = 0
    BY <1>3, <2>1, <2>2 DEF Clean
  <2>4. List(j)' = List(j + 1)
    BY <1>1, <1>4, <2>1 DEF List
  <2> QED
    BY <2>3, <2>4
<1>5. CASE j = 0 /\ toMain[1].is = "unsaved"
  <2>1. Tells(1) /\ 1 \in 0..(i + 1) /\ \A k \in (1 + 1)..(i + 1) : ~Tells(k)
    BY <1>3, <1>5 DEF Tells
  <2>2. List(1)[n] = 0
    BY <2>1 DEF Clean
  <2>3. List(j)' = unsaved' /\ unsaved' = toMain[1].notes /\ List(1) = toMain[1].notes
    BY <1>1, <1>5 DEF List
  <2> QED
    BY <2>2, <2>3
<1>6. CASE j = 0 /\ toMain[1].is # "unsaved"
  <2>1. ~Tells(1)
    BY <1>6 DEF Tells
  <2>2. \A k \in (0 + 1)..(i + 1) : ~Tells(k)
    <3> SUFFICES ASSUME NEW k \in 1..(i + 1)
                 PROVE  ~Tells(k)
      OBVIOUS
    <3>1. k = 1 \/ k \in (j + 2)..(i + 1)
      BY <1>6
    <3> QED
      BY <1>3, <2>1, <3>1
  <2>3. Tells(0) /\ 0 \in 0..(i + 1)
    BY DEF Tells
  <2>4. List(0)[n] = 0
    BY <2>2, <2>3 DEF Clean
  <2>5. List(j)' = unsaved' /\ unsaved' = unsaved /\ List(0) = unsaved
    BY <1>1, <1>6 DEF List
  <2> QED
    BY <2>4, <2>5
<1> QED
  BY <1>4, <1>5, <1>6

\* Calls sent behind leave what those before them tell; calls that tell nothing
\* leave main knowing it.
LEMMA CleanStays ==
  ASSUME ITyped, NEW ext \in Seq(Sent), toMain' = toMain \o ext, unsaved' = unsaved,
         NEW n, NEW i \in 0..Len(toMain), Clean(i, n)
  PROVE  Clean(i, n)'
<1>1. /\ Len(toMain) \in Nat /\ \A j \in 1..Len(toMain) : toMain'[j] = toMain[j]
  BY SentIsSent, LenProperties DEF ITyped
<1>2. \A j \in 0..i : (Tells(j)' <=> Tells(j)) /\ List(j)' = List(j)
  BY <1>1 DEF Tells, List
<1> SUFFICES ASSUME NEW j \in 0..i, Tells(j)', \A k \in (j + 1)..i : ~Tells(k)'
             PROVE  List(j)'[n] = 0
  BY DEF Clean
<1>3. \A k \in (j + 1)..i : ~Tells(k)
  <2> SUFFICES ASSUME NEW k \in (j + 1)..i
               PROVE  ~Tells(k)
    OBVIOUS
  <2>1. k \in 0..i
    OBVIOUS
  <2> QED
    BY <1>2, <2>1
<1> QED
  BY <1>2, <1>3 DEF Clean

\* Calls that tell nothing leave main knowing what it was told.
LEMMA CleanGrows ==
  ASSUME ITyped, NEW ext \in Seq(Sent), toMain' = toMain \o ext, unsaved' = unsaved,
         NEW n, NEW i \in 0..Len(ext), \A k \in 1..i : ext[k].is # "unsaved",
         Clean(Len(toMain), n), NEW last, last = Len(toMain) + i
  PROVE  Clean(last, n)'
<1> DEFINE l == Len(toMain)
<1>1. /\ l \in Nat /\ (\A j \in 1..l : toMain'[j] = toMain[j])
      /\ \A j \in 1..Len(ext) : toMain'[l + j] = ext[j]
  BY SentIsSent, LenProperties DEF ITyped
<1>2. \A k \in (l + 1)..(l + i) : ~Tells(k)'
  <2> SUFFICES ASSUME NEW k \in (l + 1)..(l + i)
               PROVE  ~Tells(k)'
    OBVIOUS
  <2> DEFINE q == k - l
  <2>1. q \in 1..i /\ q \in 1..Len(ext) /\ l + q = k /\ k # 0
    BY <1>1
  <2> HIDE DEF q
  <2>2. toMain'[k] = ext[q]
    BY <1>1, <2>1
  <2> QED
    BY <2>1, <2>2 DEF Tells
<1>3. \A j \in 0..l : (Tells(j)' <=> Tells(j)) /\ List(j)' = List(j)
  <2> SUFFICES ASSUME NEW j \in 0..l
               PROVE  (Tells(j)' <=> Tells(j)) /\ List(j)' = List(j)
    OBVIOUS
  <2>1. j # 0 => toMain'[j] = toMain[j]
    BY <1>1
  <2> QED
    BY <2>1 DEF Tells, List
<1>4. \A j \in 0..(l + i) : Tells(j)' /\ (\A k \in (j + 1)..(l + i) : ~Tells(k)') => List(j)'[n] = 0
  <2> SUFFICES ASSUME NEW j \in 0..(l + i), Tells(j)', \A k \in (j + 1)..(l + i) : ~Tells(k)'
               PROVE  List(j)'[n] = 0
    OBVIOUS
  <2>1. j \in 0..l
    <3>1. j <= l \/ j \in (l + 1)..(l + i)
      BY <1>1
    <3> QED
      BY <1>1, <1>2, <3>1
  <2>2. \A k \in (j + 1)..l : ~Tells(k)
    <3> SUFFICES ASSUME NEW k \in (j + 1)..l
                 PROVE  ~Tells(k)
      OBVIOUS
    <3>1. k \in 0..l /\ k \in (j + 1)..(l + i)
      BY <1>1, <2>1
    <3> QED
      BY <1>3, <3>1
  <2> QED
    BY <1>3, <2>1, <2>2 DEF Clean, l
<1> QED
  <2>1. \A j \in 0..last : Tells(j)' /\ (\A k \in (j + 1)..last : ~Tells(k)') => List(j)'[n] = 0
    BY <1>4 DEF l
  <2> QED
    BY <2>1 DEF Clean

\* The same of all notes, and of the notes on their way to be let go.
LEMMA ToldStays ==
  ASSUME ITold, UNCHANGED <<told, shown, toMain, unsaved, asked>>
  PROVE  ITold'
BY DEF ITold, Clean, Tells, List, DirtyNotes, Nothing

\* What main is told, read off each note and each note let go.
LEMMA ToldIsSo ==
  ASSUME (told = DirtyNotes(shown))', (asked = Nothing)',
         \A n \in Notes \ told' : \A k : k = Len(toMain') => Clean(k, n)',
         \A i \in DOMAIN toMain' : \A k, n : toMain'[i].is = "release" /\ k = i - 1 /\ n = toMain'[i].note => Clean(k, n)'
  PROVE  ITold'
<1>1. \A n \in Notes \ told' : Clean(Len(toMain), n)'
  BY DEF Clean
<1>2. \A i \in DOMAIN toMain' : toMain'[i].is = "release" => Clean(i - 1, toMain[i].note)'
  BY DEF Clean
<1> QED
  BY <1>1, <1>2 DEF ITold

\* A call taken leaves it.
LEMMA ToldShifts ==
  ASSUME ITyped, ITold, toMain # <<>>, toMain' = Tail(toMain),
         unsaved' = IF Head(toMain).is = "unsaved" THEN Head(toMain).notes ELSE unsaved,
         UNCHANGED <<told, shown, asked>>
  PROVE  ITold'
<1>1. /\ Len(toMain) \in Nat /\ Len(toMain) >= 1 /\ Len(toMain') = Len(toMain) - 1
      /\ \A j \in 1..Len(toMain') : toMain'[j] = toMain[j + 1]
      /\ DOMAIN toMain = 1..Len(toMain) /\ DOMAIN toMain' = 1..Len(toMain')
  BY DEF ITyped
<1>2. \A i \in 0..(Len(toMain) - 1) : \A n : Clean(i + 1, n) => Clean(i, n)'
  BY CleanShifts
<1>3. ASSUME NEW n \in Notes \ told', NEW k, k = Len(toMain')
      PROVE  Clean(k, n)'
  <2>1. k \in 0..(Len(toMain) - 1) /\ k + 1 = Len(toMain)
    BY <1>1, <1>3
  <2>2. Clean(Len(toMain), n)
    BY <1>3 DEF ITold
  <2>3. Clean(k + 1, n)
    BY <2>1, <2>2
  <2> QED
    BY <1>2, <2>1, <2>3
<1>4. ASSUME NEW i \in DOMAIN toMain', NEW k, NEW n, toMain'[i].is = "release", k = i - 1, n = toMain'[i].note
      PROVE  Clean(k, n)'
  <2>1. k \in 0..(Len(toMain) - 1) /\ k + 1 = (i + 1) - 1 /\ i + 1 \in DOMAIN toMain /\ toMain'[i] = toMain[i + 1]
    BY <1>1, <1>4
  <2>2. Clean((i + 1) - 1, toMain[i + 1].note)
    BY <1>4, <2>1 DEF ITold
  <2>3. Clean(k + 1, n)
    BY <1>4, <2>1, <2>2
  <2> QED
    BY <1>2, <2>1, <2>3
<1>5. (told = DirtyNotes(shown))' /\ (asked = Nothing)'
  BY DEF ITold, DirtyNotes, Nothing
<1> QED
  BY <1>3, <1>4, <1>5, ToldIsSo

\* Calls sent that tell nothing leave it.
LEMMA ToldGrows ==
  ASSUME ITyped, ITold, NEW ext \in Seq(Sent), toMain' = toMain \o ext,
         \A i \in 1..Len(ext) : ext[i].is # "unsaved" /\ (ext[i].is = "release" => ext[i].note \in Notes \ told),
         UNCHANGED <<told, shown, unsaved, asked>>
  PROVE  ITold'
<1>1. /\ Len(toMain) \in Nat /\ Len(ext) \in Nat /\ Len(toMain') = Len(toMain) + Len(ext)
      /\ (\A i \in 1..Len(toMain) : toMain'[i] = toMain[i])
      /\ (\A i \in 1..Len(ext) : toMain'[Len(toMain) + i] = ext[i])
      /\ DOMAIN toMain = 1..Len(toMain) /\ DOMAIN toMain' = 1..Len(toMain')
  BY SentIsSent, LenProperties DEF ITyped
<1>2. \A i \in 0..Len(toMain) : \A n : Clean(i, n) => Clean(i, n)'
  BY CleanStays
<1>3. ASSUME NEW n \in Notes \ told, NEW i \in 0..Len(ext), NEW last, last = Len(toMain) + i
      PROVE  Clean(last, n)'
  <2>1. Clean(Len(toMain), n)
    BY DEF ITold
  <2>2. \A k \in 1..i : ext[k].is # "unsaved"
    <3> SUFFICES ASSUME NEW k \in 1..i
                 PROVE  ext[k].is # "unsaved"
      OBVIOUS
    <3>1. k \in 1..Len(ext)
      BY <1>1
    <3> QED
      BY <3>1
  <2> QED
    BY <1>3, <2>1, <2>2, CleanGrows
<1>4. ASSUME NEW n \in Notes \ told', NEW k, k = Len(toMain')
      PROVE  Clean(k, n)'
  <2>1. Len(ext) \in 0..Len(ext)
    BY <1>1
  <2> QED
    BY <1>1, <1>3, <1>4, <2>1
<1>5. ASSUME NEW i \in DOMAIN toMain', NEW k, NEW n, toMain'[i].is = "release", k = i - 1, n = toMain'[i].note
      PROVE  Clean(k, n)'
  <2>1. CASE i \in 1..Len(toMain)
    <3>1. toMain'[i] = toMain[i] /\ k \in 0..Len(toMain)
      BY <1>1, <1>5, <2>1
    <3>2. Clean(i - 1, toMain[i].note)
      BY <1>1, <1>5, <2>1, <3>1 DEF ITold
    <3>3. Clean(k, n)
      BY <1>5, <3>1, <3>2
    <3> QED
      BY <1>2, <3>1, <3>3
  <2>2. CASE i \notin 1..Len(toMain)
    <3> DEFINE q == i - Len(toMain)
    <3>1. q \in 1..Len(ext) /\ Len(toMain) + q = i /\ q - 1 \in 0..Len(ext) /\ k = Len(toMain) + (q - 1)
      BY <1>1, <1>5, <2>2
    <3> HIDE DEF q
    <3>2. toMain'[i] = ext[q]
      BY <1>1, <3>1
    <3>3. n \in Notes \ told
      BY <1>5, <3>1, <3>2
    <3> QED
      BY <1>3, <3>1, <3>3
  <2> QED
    BY <2>1, <2>2
<1>6. (told = DirtyNotes(shown))' /\ (asked = Nothing)'
  BY DEF ITold, DirtyNotes, Nothing
<1> QED
  BY <1>4, <1>5, <1>6, ToldIsSo

\* A new list is clean of every note it does not name.
LEMMA ToldAnew ==
  ASSUME ITyped, ITold, told' = DirtyNotes(shown'), UNCHANGED <<unsaved, asked>>,
         NEW sent \in [Notes -> Nat], \A n \in Notes \ told' : sent[n] = 0,
         toMain' = Append(toMain, [is |-> "unsaved", notes |-> sent])
  PROVE  ITold'
<1> DEFINE one == [is |-> "unsaved", notes |-> sent]
           ext == <<one>>
<1>1. one \in Sent /\ one.is = "unsaved" /\ one.notes = sent
  BY DEF Sent
<1>2. toMain' = Append(toMain, one) /\ toMain \in Seq(Sent)
  BY DEF ITyped
<1> HIDE DEF one
<1>3. ext \in Seq(Sent) /\ toMain' = toMain \o ext
  BY <1>1, <1>2
<1>4. /\ Len(toMain) \in Nat /\ Len(toMain') = Len(toMain) + 1
      /\ (\A i \in 1..Len(toMain) : toMain'[i] = toMain[i])
      /\ toMain'[Len(toMain) + 1] = one
      /\ DOMAIN toMain = 1..Len(toMain) /\ DOMAIN toMain' = 1..Len(toMain')
  BY <1>1, <1>2
<1> HIDE DEF ext
<1>5. \A i \in 0..Len(toMain) : \A n : Clean(i, n) => Clean(i, n)'
  BY <1>3, CleanStays
<1>6. ASSUME NEW n \in Notes \ told', NEW k, k = Len(toMain')
      PROVE  Clean(k, n)'
  <2>1. k # 0 /\ k = Len(toMain) + 1 /\ k \in Nat
    BY <1>4, <1>6
  <2>2. Tells(k)' /\ List(k)' = sent
    BY <1>1, <1>4, <2>1 DEF Tells, List
  <2>3. ASSUME NEW j \in 0..k, \A q \in (j + 1)..k : ~Tells(q)'
        PROVE  List(j)'[n] = 0
    <3>1. k \notin (j + 1)..k
      BY <2>2, <2>3
    <3>2. j = k
      BY <2>1, <3>1
    <3> QED
      BY <2>2, <3>2
  <2> QED
    BY <2>3 DEF Clean
<1>7. ASSUME NEW i \in DOMAIN toMain', NEW k, NEW n, toMain'[i].is = "release", k = i - 1, n = toMain'[i].note
      PROVE  Clean(k, n)'
  <2>1. i # Len(toMain) + 1
    BY <1>1, <1>4, <1>7
  <2>2. i \in 1..Len(toMain) /\ k \in 0..Len(toMain)
    BY <1>4, <1>7, <2>1
  <2>3. toMain'[i] = toMain[i]
    BY <1>4, <2>2
  <2>4. Clean(i - 1, toMain[i].note)
    BY <1>4, <1>7, <2>2, <2>3 DEF ITold
  <2>5. Clean(k, n)
    BY <1>7, <2>3, <2>4
  <2> QED
    BY <1>5, <2>2, <2>5
<1>8. (told = DirtyNotes(shown))' /\ (asked = Nothing)'
  BY DEF ITold, DirtyNotes, Nothing
<1> QED
  BY <1>6, <1>7, <1>8, ToldIsSo

-----------------------------------------------------------------------------
(***************************************************************************)
(* News.                                                                   *)
(***************************************************************************)
\* News on its way stays right while main and the records do.
LEMMA NewsStay ==
  ASSUME INews, UNCHANGED <<open, front, seen, toWindow, shown>>, DOMAIN state'.docs = DOMAIN state.docs
  PROVE  INews'
BY DEF INews, Loaded

\* A note brought forward is open already, or nothing has been said of it.
LEMMA NewsBrings ==
  ASSUME ITyped, INews, NEW n \in Notes, Bring(n), UNCHANGED <<state, shown>>
  PROVE  INews'
<1> DEFINE new == News(TRUE, Range(open'), recent', n)
<1>1. /\ Range(open') = Range(open) \cup {n} /\ front' = n /\ seen' = seen \cup {n}
      /\ n \in Range(open) \/ n \notin seen
      /\ toWindow' = Append(toWindow, new)
      /\ new \in Published
  BY BringTyped
<1>2. new.notes = Range(open') /\ new.front = n
  BY DEF News
<1> HIDE DEF new
<1>3. /\ Len(toWindow) \in Nat /\ DOMAIN toWindow = 1..Len(toWindow)
      /\ DOMAIN toWindow' = 1..(Len(toWindow) + 1)
      /\ (\A k \in 1..Len(toWindow) : toWindow'[k] = toWindow[k]) /\ toWindow'[Len(toWindow) + 1] = new
  <2>1. toWindow \in Seq(Published)
    BY DEF ITyped
  <2> QED
    BY <1>1, <2>1
<1>4. Range(open) \subseteq seen /\ front \in Range(open) \cup {NoNote}
      /\ Loaded(state.docs) \subseteq seen /\ Loaded(shown.docs) \subseteq seen
      /\ Range(open) \cap Loaded(shown.docs) \subseteq Loaded(state.docs)
  BY DEF INews
<1>5. ASSUME NEW k \in DOMAIN toWindow'
      PROVE  /\ toWindow'[k].notes \subseteq seen'
             /\ toWindow'[k].brings => toWindow'[k].front \in toWindow'[k].notes \cup {NoNote}
             /\ \A m \in Range(open') \ toWindow'[k].notes :
                   m \notin Loaded(state.docs) /\ \A j \in 1..(k - 1) : m \notin toWindow'[j].notes
  <2>1. CASE k = Len(toWindow) + 1
    <3>1. toWindow'[k] = new
      BY <1>3, <2>1
    <3> QED
      BY <1>1, <1>2, <1>4, <3>1
  <2>2. CASE k # Len(toWindow) + 1
    <3>1. k \in 1..Len(toWindow) /\ toWindow'[k] = toWindow[k]
      BY <1>3, <2>2
    <3>2. \A j \in 1..(k - 1) : j \in DOMAIN toWindow /\ toWindow'[j] = toWindow[j]
      BY <1>3, <3>1
    <3>3. /\ toWindow[k].notes \subseteq seen
          /\ toWindow[k].brings => toWindow[k].front \in toWindow[k].notes \cup {NoNote}
          /\ \A m \in Range(open) \ toWindow[k].notes :
                m \notin Loaded(state.docs) /\ \A j \in 1..(k - 1) : m \notin toWindow[j].notes
      BY <1>3, <3>1 DEF INews
    <3>4. ASSUME NEW m \in Range(open') \ toWindow'[k].notes
          PROVE  m \notin Loaded(state.docs) /\ \A j \in 1..(k - 1) : m \notin toWindow'[j].notes
      <4>1. CASE m \in Range(open)
        BY <3>1, <3>2, <3>3, <3>4, <4>1
      <4>2. CASE m \notin Range(open)
        <5>1. m = n /\ m \notin seen
          BY <1>1, <3>4, <4>2
        <5>2. \A j \in DOMAIN toWindow : toWindow[j].notes \subseteq seen
          BY DEF INews
        <5> QED
          BY <1>4, <3>2, <5>1, <5>2
      <4> QED
        BY <4>1, <4>2
    <3> QED
      BY <1>1, <3>1, <3>3, <3>4
  <2> QED
    BY <2>1, <2>2
<1>6. Range(open') \cap Loaded(shown.docs) \subseteq Loaded(state.docs)
  BY <1>1, <1>4
<1> QED
  BY <1>1, <1>4, <1>5, <1>6 DEF INews, Loaded

\* A note closed is missing from what is said after.
LEMMA NewsCloses ==
  ASSUME ITyped, INews, NEW n, n \in Range(open), Close(n), UNCHANGED <<state, shown>>
  PROVE  INews'
<1> DEFINE new == News(front = n, Range(open'), recent', front')
<1>0. front \in Range(open) \cup {NoNote}
  BY DEF INews
<1>1. /\ Range(open') \subseteq Range(open) /\ front' \in Range(open') \cup {NoNote} /\ seen' = seen
      /\ toWindow' = Append(toWindow, new)
      /\ new \in Published
  BY <1>0, CloseTyped
<1>2. new.notes = Range(open') /\ new.front = front'
  BY DEF News
<1> HIDE DEF new
<1>3. /\ Len(toWindow) \in Nat /\ DOMAIN toWindow = 1..Len(toWindow)
      /\ DOMAIN toWindow' = 1..(Len(toWindow) + 1)
      /\ (\A k \in 1..Len(toWindow) : toWindow'[k] = toWindow[k]) /\ toWindow'[Len(toWindow) + 1] = new
  <2>1. toWindow \in Seq(Published)
    BY DEF ITyped
  <2> QED
    BY <1>1, <2>1
<1>4. Range(open) \subseteq seen
      /\ Loaded(state.docs) \subseteq seen /\ Loaded(shown.docs) \subseteq seen
      /\ Range(open) \cap Loaded(shown.docs) \subseteq Loaded(state.docs)
  BY DEF INews
<1>5. ASSUME NEW k \in DOMAIN toWindow'
      PROVE  /\ toWindow'[k].notes \subseteq seen'
             /\ toWindow'[k].brings => toWindow'[k].front \in toWindow'[k].notes \cup {NoNote}
             /\ \A m \in Range(open') \ toWindow'[k].notes :
                   m \notin Loaded(state.docs) /\ \A j \in 1..(k - 1) : m \notin toWindow'[j].notes
  <2>1. CASE k = Len(toWindow) + 1
    <3>1. toWindow'[k] = new
      BY <1>3, <2>1
    <3> QED
      BY <1>1, <1>2, <1>4, <3>1
  <2>2. CASE k # Len(toWindow) + 1
    <3>1. k \in 1..Len(toWindow) /\ toWindow'[k] = toWindow[k]
      BY <1>3, <2>2
    <3>2. \A j \in 1..(k - 1) : j \in DOMAIN toWindow /\ toWindow'[j] = toWindow[j]
      BY <1>3, <3>1
    <3>3. /\ toWindow[k].notes \subseteq seen
          /\ toWindow[k].brings => toWindow[k].front \in toWindow[k].notes \cup {NoNote}
          /\ \A m \in Range(open) \ toWindow[k].notes :
                m \notin Loaded(state.docs) /\ \A j \in 1..(k - 1) : m \notin toWindow[j].notes
      BY <1>3, <3>1 DEF INews
    <3> QED
      BY <1>1, <3>1, <3>2, <3>3
  <2> QED
    BY <2>1, <2>2
<1>6. Range(open') \cap Loaded(shown.docs) \subseteq Loaded(state.docs)
  BY <1>1, <1>4
<1> QED
  BY <1>1, <1>4, <1>5, <1>6 DEF INews, Loaded

\* What is received leaves only notes it names, and no later news names a note
\* that is open and not named by it.
LEMMA NewsReceived ==
  ASSUME ITyped, INews, Receive
  PROVE  INews'
<1> DEFINE news == Head(toWindow)
           new == IF news.brings /\ news.front # NoNote THEN {news.front} ELSE {}
<1>1. /\ toWindow # <<>> /\ toWindow' = Tail(toWindow) /\ UNCHANGED <<mainVars, shown>>
      /\ DOMAIN state'.docs = (DOMAIN state.docs \cup new) \cap news.notes
  BY ReceiveTyped
<1>2. /\ Len(toWindow) \in Nat /\ Len(toWindow) >= 1 /\ news = toWindow[1]
      /\ DOMAIN toWindow = 1..Len(toWindow) /\ DOMAIN toWindow' = 1..(Len(toWindow) - 1)
      /\ \A k \in 1..(Len(toWindow) - 1) : toWindow'[k] = toWindow[k + 1]
  BY <1>1 DEF ITyped
<1> HIDE DEF news, new
<1>3. 1 \in DOMAIN toWindow
  BY <1>2
<1>4. news.notes \subseteq seen /\ \A n \in Range(open) \ news.notes : n \notin DOMAIN state.docs
  BY <1>2, <1>3 DEF INews, Loaded
<1>5. DOMAIN state'.docs \subseteq news.notes
  BY <1>1
<1>6. ASSUME NEW k \in DOMAIN toWindow'
      PROVE  /\ toWindow'[k].notes \subseteq seen
             /\ toWindow'[k].brings => toWindow'[k].front \in toWindow'[k].notes \cup {NoNote}
             /\ \A n \in Range(open) \ toWindow'[k].notes :
                   n \notin DOMAIN state'.docs /\ \A j \in 1..(k - 1) : n \notin toWindow'[j].notes
  <2> DEFINE q == k + 1
  <2>1. q \in DOMAIN toWindow /\ toWindow'[k] = toWindow[q] /\ 1 \in 1..(q - 1)
    BY <1>2
  <2>2. \A j \in 1..(k - 1) : j + 1 \in 1..(q - 1) /\ toWindow'[j] = toWindow[j + 1]
    BY <1>2
  <2> HIDE DEF q
  <2>3. /\ toWindow[q].notes \subseteq seen
        /\ toWindow[q].brings => toWindow[q].front \in toWindow[q].notes \cup {NoNote}
        /\ \A n \in Range(open) \ toWindow[q].notes : \A j \in 1..(q - 1) : n \notin toWindow[j].notes
    BY <2>1 DEF INews
  <2>4. ASSUME NEW n \in Range(open) \ toWindow'[k].notes
        PROVE  n \notin DOMAIN state'.docs /\ \A j \in 1..(k - 1) : n \notin toWindow'[j].notes
    <3>1. \A j \in 1..(q - 1) : n \notin toWindow[j].notes
      BY <2>1, <2>3, <2>4
    <3>2. n \notin news.notes
      BY <1>2, <2>1, <3>1
    <3>3. \A j \in 1..(k - 1) : n \notin toWindow'[j].notes
      BY <2>2, <3>1
    <3> QED
      BY <1>5, <3>2, <3>3
  <2> QED
    BY <2>1, <2>3, <2>4
<1>7. Range(open) \cap DOMAIN shown.docs \subseteq DOMAIN state'.docs
  BY <1>1, <1>4 DEF INews, Loaded
<1>8. /\ Range(open) \subseteq seen /\ front \in Range(open) \cup {NoNote}
      /\ DOMAIN state'.docs \subseteq seen /\ DOMAIN shown.docs \subseteq seen
  BY <1>4, <1>5 DEF INews, Loaded
<1>9. open' = open /\ front' = front /\ seen' = seen /\ shown' = shown
  BY <1>1 DEF mainVars
<1> QED
  BY <1>6, <1>7, <1>8, <1>9 DEF INews, Loaded

-----------------------------------------------------------------------------
(***************************************************************************)
(* Calls.                                                                  *)
(***************************************************************************)
\* What is known of the call in flight stays while it and the stores do.
LEMMA CallsStay ==
  ASSUME ICall, UNCHANGED <<call, store>>, seen \subseteq seen'
  PROVE  ICall'
BY DEF ICall

\* Other calls sent leave the one there is.
LEMMA OneStays ==
  ASSUME ITyped, IOne, UNCHANGED call, NEW ext \in Seq(Sent), toMain' = toMain \o ext,
         \A i \in 1..Len(ext) : ext[i].is # "call"
  PROVE  IOne'
<1>1. /\ Len(toMain) \in Nat /\ Len(ext) \in Nat /\ Len(toMain') = Len(toMain) + Len(ext)
      /\ (\A i \in 1..Len(toMain) : toMain'[i] = toMain[i])
      /\ (\A i \in 1..Len(ext) : toMain'[Len(toMain) + i] = ext[i])
      /\ DOMAIN toMain = 1..Len(toMain) /\ DOMAIN toMain' = 1..Len(toMain')
  BY SentIsSent, LenProperties DEF ITyped
<1>2. ASSUME NEW i \in DOMAIN toMain', toMain'[i].is = "call"
      PROVE  i \in DOMAIN toMain /\ toMain'[i] = toMain[i]
  <2>1. CASE i \in 1..Len(toMain)
    BY <1>1, <2>1
  <2>2. CASE i \notin 1..Len(toMain)
    <3> DEFINE q == i - Len(toMain)
    <3>1. q \in 1..Len(ext) /\ Len(toMain) + q = i
      BY <1>1, <2>2
    <3> HIDE DEF q
    <3> QED
      BY <1>1, <1>2, <3>1
  <2> QED
    BY <2>1, <2>2
<1> QED
  BY <1>2 DEF IOne

\* A save or a recovery is sent while there is no call.
LEMMA CallsAreSent ==
  ASSUME ITyped, ICall, IOne, Sends
  PROVE  ICall' /\ IOne' /\ \A n \in Notes : ~Ahead(n)' => ~Ahead(n)
<1>1. store' = store /\ seen' = seen
  BY DEF Sends, mainVars
<1>2. PICK ext \in Seq(Sent) :
          /\ toMain' = toMain \o ext
          /\ \/ call' = call /\ \A i \in 1..Len(ext) : ext[i].is = "open"
             \/ /\ call = NoCall /\ call' \in Saving \cup Recovering /\ call'.phase = "sent" /\ call'.at = NoNote
                /\ \A i \in 1..Len(ext) : ext[i].is = "call" => i = 1
  BY DEF Sends
<1>3. CASE call' = call /\ \A i \in 1..Len(ext) : ext[i].is = "open"
  <2>1. ICall'
    BY <1>1, <1>3, CallsStay
  <2>2. \A i \in 1..Len(ext) : ext[i].is # "call"
    BY <1>3
  <2>3. IOne'
    BY <1>2, <1>3, <2>2, OneStays
  <2> QED
    BY <1>3, <2>1, <2>3 DEF Ahead
<1>4. CASE /\ call = NoCall /\ call' \in Saving \cup Recovering /\ call'.phase = "sent" /\ call'.at = NoNote
           /\ \A i \in 1..Len(ext) : ext[i].is = "call" => i = 1
  <2>1. ICall'
    BY <1>1, <1>4 DEF ICall
  <2>2. call'.kind # "none" /\ call.kind = "none"
    BY <1>4, CallIsOne DEF NoCall
  <2>3. \A i \in DOMAIN toMain : toMain[i].is # "call"
    BY <2>2 DEF IOne
  <2>4. /\ Len(toMain) \in Nat /\ Len(ext) \in Nat /\ Len(toMain') = Len(toMain) + Len(ext)
        /\ (\A i \in 1..Len(toMain) : toMain'[i] = toMain[i])
        /\ (\A i \in 1..Len(ext) : toMain'[Len(toMain) + i] = ext[i])
        /\ DOMAIN toMain = 1..Len(toMain) /\ DOMAIN toMain' = 1..Len(toMain')
    BY <1>2, SentIsSent, LenProperties DEF ITyped
  <2>5. ASSUME NEW i \in DOMAIN toMain', toMain'[i].is = "call"
        PROVE  i = Len(toMain) + 1
    <3> DEFINE q == i - Len(toMain)
    <3>1. i \notin 1..Len(toMain)
      BY <2>3, <2>4, <2>5
    <3>2. q \in 1..Len(ext) /\ Len(toMain) + q = i
      BY <2>4, <3>1
    <3> HIDE DEF q
    <3>3. q = 1
      BY <1>4, <2>4, <2>5, <3>2
    <3> QED
      BY <3>2, <3>3
  <2>6. IOne'
    BY <1>4, <2>2, <2>5 DEF IOne
  <2> QED
    BY <2>1, <2>2, <2>6 DEF Ahead
<1> QED
  BY <1>2, <1>3, <1>4

\* Main takes a call of another kind, and the call in flight.
LEMMA OneShifts ==
  ASSUME ITyped, IOne, toMain # <<>>, toMain' = Tail(toMain),
         Head(toMain).is = "call" \/ call' = call
  PROVE  IOne'
<1>1. /\ Len(toMain) \in Nat /\ Len(toMain) >= 1 /\ Head(toMain) = toMain[1]
      /\ DOMAIN toMain = 1..Len(toMain) /\ DOMAIN toMain' = 1..(Len(toMain) - 1)
      /\ \A i \in 1..(Len(toMain) - 1) : toMain'[i] = toMain[i + 1]
  BY DEF ITyped
<1>2. \A i \in DOMAIN toMain' : i + 1 \in DOMAIN toMain /\ i + 1 # 1 /\ toMain'[i] = toMain[i + 1]
  BY <1>1
<1>3. CASE toMain[1].is = "call"
  <2>1. 1 \in DOMAIN toMain
    BY <1>1
  <2>2. \A i \in DOMAIN toMain' : toMain'[i].is # "call"
    BY <1>2, <1>3, <2>1 DEF IOne
  <2> QED
    BY <2>2 DEF IOne
<1>4. CASE call' = call
  <2> SUFFICES ASSUME NEW i \in DOMAIN toMain', toMain'[i].is = "call"
               PROVE  /\ call'.kind # "none" /\ call'.phase = "sent"
                      /\ \A j \in DOMAIN toMain' : toMain'[j].is = "call" => j = i
    BY DEF IOne
  <2>1. call.kind # "none" /\ call.phase = "sent" /\ \A j \in DOMAIN toMain : toMain[j].is = "call" => j = i + 1
    BY <1>2 DEF IOne
  <2>2. \A j \in DOMAIN toMain' : toMain'[j].is = "call" => j + 1 = i + 1
    BY <1>2, <2>1
  <2>3. \A j \in DOMAIN toMain' : toMain'[j].is = "call" => j = i
    BY <1>1, <2>2
  <2> QED
    BY <1>4, <2>1, <2>3
<1> QED
  BY <1>1, <1>3, <1>4

-----------------------------------------------------------------------------
(***************************************************************************)
(* Revisions.                                                              *)
(***************************************************************************)
\* A record stays at home while nothing is filed.
LEMMA HomeStays ==
  ASSUME IHome, UNCHANGED shown, Alike(state.docs, state'.docs), DOMAIN editors' = DOMAIN editors
  PROVE  IHome'
BY DEF IHome, Own, Alike, Loaded

\* What fits goes on fitting: nothing is filed, and a note brought forward the
\* first time is as it was read.
LEMMA FitsStay ==
  ASSUME IFits, UNCHANGED <<store, shown>>, Alike(state.docs, state'.docs),
         DOMAIN editors' = DOMAIN editors, \A n \in DOMAIN editors : editors'[n].base = editors[n].base,
         \A n \in Range(open)' : ~Ahead(n)' =>
            \/ n \in Range(open) /\ ~Ahead(n)
            \/ store[n].rev = 0 /\ n \notin DOMAIN editors /\ n \notin DOMAIN state.docs
  PROVE  IFits'
<1>1. ASSUME NEW n \in Range(open)', ~Ahead(n)'
      PROVE  /\ n \in DOMAIN editors' => editors'[n].base = store'[n].rev
             /\ n \in DOMAIN state'.docs =>
                  state'.docs[n].rev = store'[n].rev /\ state'.docs[n].token = <<n, store'[n].rev>>
             /\ n \notin DOMAIN editors' => store'[n].rev = 0
  <2>1. CASE n \in Range(open) /\ ~Ahead(n)
    <3>1. /\ n \in DOMAIN editors => editors[n].base = store[n].rev
          /\ n \in DOMAIN state.docs => state.docs[n].rev = store[n].rev /\ state.docs[n].token = <<n, store[n].rev>>
          /\ n \notin DOMAIN editors => store[n].rev = 0
      BY <2>1 DEF IFits, Loaded
    <3> QED
      BY <3>1 DEF Alike
  <2>2. CASE store[n].rev = 0 /\ n \notin DOMAIN editors /\ n \notin DOMAIN state.docs
    BY <2>2 DEF Alike
  <2> QED
    BY <1>1, <2>1, <2>2
<1>2. \A n \in DOMAIN state'.docs \ DOMAIN editors' : state'.docs[n].rev = 0
  BY DEF IFits, Alike, Loaded
<1>3. \A n \in DOMAIN shown'.docs \ DOMAIN editors' : shown'.docs[n].rev = 0
  BY DEF IFits, Loaded
<1> QED
  BY <1>1, <1>2, <1>3 DEF IFits, Loaded

-----------------------------------------------------------------------------
(***************************************************************************)
(* The steps.                                                              *)
(***************************************************************************)
\* Where nothing is filed, the window keeps what it says of its notes.
LEMMA FilesStay ==
  ASSUME IWindow, UNCHANGED <<crossed, lost, shown, store>>, Alike(state.docs, state'.docs),
         DOMAIN editors' = DOMAIN editors, \A n \in DOMAIN editors : editors'[n].base = editors[n].base,
         ~crossed => \A n \in Range(open)' : ~Ahead(n)' =>
            \/ n \in Range(open) /\ ~Ahead(n)
            \/ store[n].rev = 0 /\ n \notin DOMAIN editors /\ n \notin DOMAIN state.docs
  PROVE  ~crossed' => IHome' /\ IFits' /\ IKept'
<1> SUFFICES ASSUME ~crossed
             PROVE  IHome' /\ IFits' /\ IKept'
  OBVIOUS
<1>1. IHome /\ IFits /\ IKept
  BY DEF IWindow
<1>2. IHome'
  BY <1>1, HomeStays
<1>3. IFits'
  BY <1>1, FitsStay
<1>4. IKept'
  BY <1>1 DEF IKept
<1> QED
  BY <1>2, <1>3, <1>4

\* A note main brings to the front.
LEMMA BringKeeps ==
  ASSUME IWindow, NEW n \in Notes, Bring(n), UNCHANGED <<call, windowVars, crossed, lost>>
  PROVE  INews' /\ ICall' /\ (~crossed' => IHome' /\ IFits' /\ IKept')
<1>1. /\ store' = store /\ Range(open') = Range(open) \cup {n} /\ seen' = seen \cup {n}
      /\ n \in Range(open) \/ n \notin seen
  BY BringTyped DEF IWindow
<1>2. UNCHANGED <<state, shown, editors>>
  BY DEF windowVars
<1>3. INews'
  BY <1>2, NewsBrings DEF IWindow
<1>4. ICall'
  BY <1>1, CallsStay DEF IWindow
<1>5. ASSUME ~crossed, NEW m \in Range(open)', ~Ahead(m)'
      PROVE  \/ m \in Range(open) /\ ~Ahead(m)
             \/ store[m].rev = 0 /\ m \notin DOMAIN editors /\ m \notin DOMAIN state.docs
  <2>1. ~Ahead(m)
    BY <1>5 DEF Ahead
  <2>2. CASE m \notin Range(open)
    <3>1. m = n /\ m \notin seen
      BY <1>1, <1>5, <2>2
    <3>2. DOMAIN editors \subseteq DOMAIN shown.docs
      BY <1>5 DEF IWindow, IHome, Loaded
    <3>3. DOMAIN shown.docs \subseteq seen /\ DOMAIN state.docs \subseteq seen
      BY DEF IWindow, INews, Loaded
    <3>4. store[m].rev = 0
      BY <3>1 DEF IWindow, ICall
    <3> QED
      BY <3>1, <3>2, <3>3, <3>4
  <2> QED
    BY <2>1, <2>2
<1>6. Alike(state.docs, state'.docs)
  BY <1>2 DEF Alike
<1>7. ~crossed' => IHome' /\ IFits' /\ IKept'
  BY <1>1, <1>2, <1>5, <1>6, FilesStay
<1> QED
  BY <1>3, <1>4, <1>7

\* A note main closes, of which it knows no unsaved edits.
LEMMA CloseKeeps ==
  ASSUME IWindow, NEW n, Close(n), n \in Range(open) => unsaved[n] = 0, UNCHANGED <<call, windowVars, crossed, lost>>
  PROVE  INews' /\ ICall' /\ asked' = asked /\ (~crossed' => IHome' /\ IFits' /\ IKept')
<1>1. UNCHANGED <<state, shown, editors>>
  BY DEF windowVars
<1>2. front \in Range(open) \cup {NoNote}
  BY DEF IWindow, INews
<1>3. CASE n \in Range(open)
  <2>1. /\ store' = store /\ seen' = seen /\ n \in Notes /\ Range(open') \subseteq Range(open)
        /\ asked' = [asked EXCEPT ![n] = unsaved[n]]
    BY <1>2, <1>3, CloseTyped DEF IWindow
  <2>2. asked' = asked
    <3>1. asked = [m \in Notes |-> 0]
      BY DEF IWindow, ITold, Nothing
    <3> QED
      BY <1>3, <2>1, <3>1
  <2>3. INews'
    BY <1>1, <1>3, NewsCloses DEF IWindow
  <2>4. ICall'
    BY <2>1, CallsStay DEF IWindow
  <2>5. \A m \in Range(open)' : ~Ahead(m)' => m \in Range(open) /\ ~Ahead(m)
    BY <2>1 DEF Ahead
  <2>6. Alike(state.docs, state'.docs)
    BY <1>1 DEF Alike
  <2>7. ~crossed' => IHome' /\ IFits' /\ IKept'
    BY <1>1, <2>1, <2>5, <2>6, FilesStay
  <2> QED
    BY <2>2, <2>3, <2>4, <2>7
<1>4. CASE n \notin Range(open)
  <2>1. UNCHANGED <<mainVars, toWindow, asked>>
    BY <1>4, CloseIdle
  <2>2. UNCHANGED <<open, front, seen, store, toWindow>>
    BY <2>1 DEF mainVars
  <2>3. INews'
    BY <1>1, <2>2, NewsStay DEF IWindow
  <2>4. ICall'
    BY <2>2, CallsStay DEF IWindow
  <2>5. \A m \in Range(open)' : ~Ahead(m)' => m \in Range(open) /\ ~Ahead(m)
    BY <2>2 DEF Ahead
  <2>6. Alike(state.docs, state'.docs)
    BY <1>1 DEF Alike
  <2>7. ~crossed' => IHome' /\ IFits' /\ IKept'
    BY <1>1, <2>2, <2>5, <2>6, FilesStay
  <2> QED
    BY <2>1, <2>3, <2>4, <2>7
<1> QED
  BY <1>3, <1>4

\* Main takes a call: it opens, lets go, is told, or starts the call in flight.
LEMMA HandleCallKeeps ==
  ASSUME IWindow, HandleCall
  PROVE  IWindow'
<1> DEFINE sent == Head(toMain)
<1>1. /\ toMain # <<>> /\ toMain' = Tail(toMain)
      /\ UNCHANGED <<windowVars, crossed, lost>>
      /\ \/ /\ sent.is = "open" /\ Bring(sent.note)
            /\ UNCHANGED <<unsaved, call, asked>>
         \/ /\ sent.is = "open"
            /\ UNCHANGED <<mainVars, toWindow, unsaved, call, asked>>
         \/ /\ sent.is = "release" /\ Close(sent.note)
            /\ UNCHANGED <<unsaved, call>>
         \/ /\ sent.is = "unsaved" /\ unsaved' = sent.notes
            /\ UNCHANGED <<mainVars, toWindow, call, asked>>
         \/ /\ sent.is = "call" /\ Start
            /\ UNCHANGED <<mainVars, toWindow, unsaved, asked>>
  BY DEF HandleCall
<1>2. ITyped'
  <2>1. front \in Range(open) \cup {NoNote}
    BY DEF IWindow, INews
  <2> QED
    BY <2>1, HandleCallTyped DEF IWindow
<1>3. sent \in Sent /\ sent = toMain[1] /\ 1 \in DOMAIN toMain
  BY <1>1 DEF IWindow, ITyped
<1> HIDE DEF sent
<1>4. unsaved' = IF sent.is = "unsaved" THEN sent.notes ELSE unsaved
  BY <1>1
<1>5. UNCHANGED <<told, shown, state, editors>>
  BY <1>1 DEF windowVars
<1>6. IOne'
  <2>1. sent.is = "call" \/ call' = call
    BY <1>1
  <2> QED
    BY <1>1, <2>1, OneShifts DEF IWindow, sent
<1>7. asked' = asked => ITold'
  BY <1>1, <1>4, <1>5, ToldShifts DEF IWindow, sent
<1>8. UNCHANGED mainVars => open' = open /\ front' = front /\ seen' = seen /\ store' = store
  BY DEF mainVars
<1>9. Alike(state.docs, state'.docs)
  BY <1>5 DEF Alike
<1>10. CASE sent.is = "open" /\ Bring(sent.note) /\ UNCHANGED <<unsaved, call, asked>>
  <2>1. sent.note \in Notes
    BY <1>3, <1>10 DEF Sent
  <2> DEFINE n == sent.note
  <2>2. n \in Notes /\ Bring(n)
    BY <1>10, <2>1
  <2> HIDE DEF n
  <2>3. INews' /\ ICall' /\ (~crossed' => IHome' /\ IFits' /\ IKept')
    BY <1>1, <1>10, <2>2, BringKeeps
  <2> QED
    BY <1>2, <1>6, <1>7, <1>10, <2>3 DEF IWindow
<1>11. CASE sent.is = "release" /\ Close(sent.note) /\ UNCHANGED <<unsaved, call>>
  <2> DEFINE n == sent.note
  <2>1. unsaved[n] = 0
    <3>1. Clean(1 - 1, toMain[1].note)
      BY <1>3, <1>11 DEF IWindow, ITold
    <3>2. Clean(0, n)
      BY <1>3, <3>1
    <3>3. Tells(0) /\ List(0) = unsaved /\ 0 \in 0..0 /\ \A k \in (0 + 1)..0 : ~Tells(k)
      BY DEF Tells, List
    <3> QED
      BY <3>2, <3>3 DEF Clean
  <2>2. Close(n)
    BY <1>11
  <2> HIDE DEF n
  <2>3. INews' /\ ICall' /\ asked' = asked /\ (~crossed' => IHome' /\ IFits' /\ IKept')
    BY <1>1, <1>11, <2>1, <2>2, CloseKeeps
  <2> QED
    BY <1>2, <1>6, <1>7, <2>3 DEF IWindow
<1>12. CASE UNCHANGED <<mainVars, toWindow, call, asked>>
  <2>1. INews'
    BY <1>5, <1>8, <1>12, NewsStay DEF IWindow
  <2>2. ICall'
    BY <1>8, <1>12, CallsStay DEF IWindow
  <2>3. \A m \in Range(open)' : ~Ahead(m)' => m \in Range(open) /\ ~Ahead(m)
    BY <1>8, <1>12 DEF Ahead
  <2>4. ~crossed' => IHome' /\ IFits' /\ IKept'
    BY <1>1, <1>5, <1>8, <1>9, <1>12, <2>3, FilesStay
  <2> QED
    BY <1>2, <1>6, <1>7, <1>12, <2>1, <2>2, <2>4 DEF IWindow
<1>13. CASE sent.is = "call" /\ Start /\ UNCHANGED <<mainVars, toWindow, unsaved, asked>>
  <2>1. call.kind # "none" /\ call.phase = "sent"
    BY <1>3, <1>13 DEF IWindow, IOne
  <2>2. call \in Saving \cup Recovering
    BY <2>1, CallIs DEF IWindow
  <2> DEFINE n == IF call.kind = "save" THEN call.of ELSE front
             at == IF n \in Range(open) THEN n ELSE NoNote
  <2>3. call' = [call EXCEPT !.phase = "running", !.at = at]
    BY <1>13 DEF Start
  <2>4. at \in seen \cup {NoNote} /\ at \in Ids
    BY DEF IWindow, INews, ITyped, Ids
  <2> HIDE DEF at
  <2>5. call' \in Saving \cup Recovering /\ call'.at = at /\ call'.phase = "running"
    <3>1. \A d : d = [call EXCEPT !.phase = "running", !.at = at] =>
                 d \in Saving \cup Recovering /\ d.at = at /\ d.phase = "running"
      BY <2>2, <2>4, CallStarts
    <3> QED
      BY <2>3, <3>1
  <2>6. ICall'
    BY <1>8, <1>13, <2>4, <2>5 DEF IWindow, ICall
  <2>7. INews'
    BY <1>5, <1>8, <1>13, NewsStay DEF IWindow
  <2>8. \A m \in Range(open)' : ~Ahead(m)' => m \in Range(open) /\ ~Ahead(m)
    BY <1>8, <1>13, <2>1 DEF Ahead
  <2>9. ~crossed' => IHome' /\ IFits' /\ IKept'
    BY <1>1, <1>5, <1>8, <1>9, <1>13, <2>8, FilesStay
  <2> QED
    BY <1>2, <1>6, <1>7, <1>13, <2>6, <2>7, <2>9 DEF IWindow
<1> QED
  BY <1>1, <1>10, <1>11, <1>12, <1>13

\* The store accepts, and its note has a revision the window has yet to hear of.
LEMMA EndCallKeeps ==
  ASSUME IWindow, EndCall
  PROVE  IWindow'
<1>1. /\ ITyped'
      /\ UNCHANGED <<open, recent, front, seen, unsaved, toMain, toWindow, windowVars, history>>
      /\ call.kind # "none" /\ call.phase = "running"
      /\ call'.kind # "none" /\ call'.phase = "answered" /\ call'.at = call.at
      /\ \/ /\ call.at # NoNote /\ call'.status = "saved"
            /\ store'[call.at].rev = call'.rev
            /\ \A n \in Notes \ {call.at} : store'[n] = store[n]
         \/ call'.status # "saved" /\ store' = store
  <2>1. UNCHANGED <<open, recent, front, seen, unsaved, toMain, toWindow, windowVars, history>>
    BY DEF EndCall
  <2>2. call.kind # "none" /\ call.phase = "running"
    BY DEF EndCall
  <2> QED
    BY <2>1, <2>2, EndCallTyped DEF IWindow
<1>2. UNCHANGED <<told, shown, state, editors, crossed, lost, asked>>
  BY <1>1 DEF windowVars, history
<1>3. ITold'
  BY <1>1, <1>2, ToldStays DEF IWindow
<1>4. INews'
  BY <1>1, <1>2, NewsStay DEF IWindow
<1>5. IOne'
  BY <1>1 DEF IWindow, IOne
<1>6. call.at \in seen \cup {NoNote} /\ seen \subseteq Notes
  BY <1>1 DEF IWindow, ICall, ITyped
<1>7. ICall'
  <2>1. \A n \in Notes \ seen : store'[n].rev = 0
    BY <1>1, <1>6, WindowNotesConstants DEF IWindow, ICall
  <2> QED
    BY <1>1, <1>6, <2>1 DEF ICall
<1>8. ASSUME ~crossed
      PROVE  IHome' /\ IFits' /\ IKept'
  <2>1. IHome /\ IFits /\ IKept
    BY <1>8 DEF IWindow
  <2>2. IHome' /\ IKept'
    BY <1>2, <2>1 DEF IHome, IKept, Own
  <2>3. ASSUME NEW n \in Range(open), ~Ahead(n)'
        PROVE  ~Ahead(n) /\ store'[n] = store[n]
    <3>1. ~Ahead(n)
      BY <1>1 DEF Ahead
    <3>2. n \in Notes
      <4>1. open \in Seq(Notes)
        BY DEF IWindow, ITyped
      <4> QED
        BY <4>1 DEF Range
    <3>3. ~(call'.status = "saved" /\ call.at = n)
      BY <1>1, <2>3 DEF Ahead
    <3> QED
      BY <1>1, <3>1, <3>2, <3>3
  <2>4. IFits'
    BY <1>1, <1>2, <2>1, <2>3 DEF IFits, Loaded
  <2> QED
    BY <2>2, <2>4
<1> QED
  BY <1>1, <1>2, <1>3, <1>4, <1>5, <1>7, <1>8 DEF IWindow

\* An answer is filed on its own note, or crossed.
LEMMA TakeAnswerKeeps ==
  ASSUME IWindow, TakeAnswer
  PROVE  IWindow'
<1>1. /\ ITyped'
      /\ UNCHANGED <<mainVars, unsaved, toMain, toWindow, shown, activeRef, editorRef, timer, watched,
                     told, releasing, edits, fronts, asked, lost>>
      /\ call.kind # "none" /\ call.phase = "answered" /\ call' = NoCall
      /\ (crossed => crossed') /\ DOMAIN state'.docs = DOMAIN state.docs
      /\ \/ /\ call.status # "saved" \/ call.at \notin Range(open)
            /\ Alike(state.docs, state'.docs) /\ editors' = editors
         \/ crossed'
         \/ /\ call.status = "saved" /\ call.at \in DOMAIN editors
            /\ Filed(call.at, call.at)
  BY TakeAnswerTyped DEF IWindow
<1>2. open' = open /\ front' = front /\ seen' = seen /\ store' = store
  BY <1>1 DEF mainVars
<1>4. ITold'
  BY <1>1, ToldStays DEF IWindow
<1>5. INews'
  BY <1>1, <1>2, NewsStay DEF IWindow
<1>6. ICall' /\ IOne'
  <2>1. \A i \in DOMAIN toMain : toMain[i].is # "call"
    BY <1>1 DEF IWindow, IOne
  <2> QED
    BY <1>1, <1>2, <2>1 DEF IWindow, ICall, IOne, NoCall
<1>7. ASSUME ~crossed'
      PROVE  IHome' /\ IFits' /\ IKept'
  <2>1. IHome /\ IFits /\ IKept /\ ICall
    BY <1>1, <1>7 DEF IWindow
  <2>2. IKept'
    BY <1>1, <2>1 DEF IKept
  <2>3. CASE /\ call.status # "saved" \/ call.at \notin Range(open)
             /\ Alike(state.docs, state'.docs) /\ editors' = editors
    <3>1. IHome'
      BY <1>1, <2>1, <2>3, HomeStays
    <3>2. \A n \in Range(open)' : ~Ahead(n)' => n \in Range(open) /\ ~Ahead(n)
      BY <1>2, <2>3 DEF Ahead
    <3>3. IFits'
      BY <1>1, <1>2, <2>1, <2>3, <3>2, FitsStay
    <3> QED
      BY <2>2, <3>1, <3>3
  <2>4. CASE call.status = "saved" /\ call.at \in DOMAIN editors /\ Filed(call.at, call.at)
    <3> DEFINE a == call.at
    <3>1. /\ DOMAIN editors' = DOMAIN editors /\ DOMAIN state'.docs = DOMAIN state.docs
          /\ \A m \in DOMAIN editors \ {a} : editors'[m] = editors[m]
          /\ a \in DOMAIN editors /\ editors'[a].base = call.rev
          /\ \A m \in DOMAIN state.docs \ {a} :
                /\ state'.docs[m].id = state.docs[m].id
                /\ state'.docs[m].rev = state.docs[m].rev /\ state'.docs[m].token = state.docs[m].token
          /\ a \in DOMAIN state.docs =>
                /\ state'.docs[a].id = a
                /\ state'.docs[a].rev = call.rev /\ state'.docs[a].token = <<a, call.rev>>
      BY <2>4 DEF Filed
    <3>2. call.rev = store[a].rev
      BY <1>1, <2>1, <2>4 DEF ICall
    <3>3. \A n : n # a => ~Ahead(n)
      BY DEF Ahead
    <3> HIDE DEF a
    <3>4. IHome'
      BY <1>1, <2>1, <3>1 DEF IHome, Own, Loaded
    <3>5. ASSUME NEW n \in Range(open)
          PROVE  /\ n \in DOMAIN editors' => editors'[n].base = store[n].rev
                 /\ n \in DOMAIN state'.docs =>
                      state'.docs[n].rev = store[n].rev /\ state'.docs[n].token = <<n, store[n].rev>>
                 /\ n \notin DOMAIN editors' => store[n].rev = 0
      <4>1. CASE n = a
        BY <3>1, <3>2, <4>1
      <4>2. CASE n # a
        <5>1. /\ n \in DOMAIN editors => editors[n].base = store[n].rev
              /\ n \in DOMAIN state.docs => state.docs[n].rev = store[n].rev /\ state.docs[n].token = <<n, store[n].rev>>
              /\ n \notin DOMAIN editors => store[n].rev = 0
          BY <2>1, <3>3, <4>2 DEF IFits, Loaded
        <5> QED
          BY <3>1, <4>2, <5>1
      <4> QED
        BY <4>1, <4>2
    <3>6. \A n \in DOMAIN state'.docs \ DOMAIN editors' : state'.docs[n].rev = 0
      BY <2>1, <3>1 DEF IFits, Loaded
    <3>7. \A n \in DOMAIN shown'.docs \ DOMAIN editors' : shown'.docs[n].rev = 0
      BY <1>1, <2>1, <3>1 DEF IFits, Loaded
    <3>8. IFits'
      BY <1>2, <3>5, <3>6, <3>7 DEF IFits, Loaded
    <3> QED
      BY <2>2, <3>4, <3>8
  <2> QED
    BY <1>1, <1>7, <2>3, <2>4
<1> QED
  BY <1>1, <1>4, <1>5, <1>6, <1>7 DEF IWindow

\* The editors a render drops are of notes that are no longer open, and main
\* knew of nothing in them when it closed them.
LEMMA RenderKeeps ==
  ASSUME IWindow, Render
  PROVE  IWindow'
<1>1. /\ ITyped'
      /\ shown' = state /\ told' = DirtyNotes(state)
      /\ UNCHANGED <<mainVars, unsaved, toWindow, call, state, releasing, crossed, asked>>
      /\ DOMAIN editors' = DOMAIN editors \cap Slots(state.docs)
      /\ \A n \in DOMAIN editors' : editors'[n] = editors[n]
      /\ \/ told' = told /\ toMain' = toMain
         \/ \E sent \in [Notes -> Nat] :
               /\ toMain' = Append(toMain, [is |-> "unsaved", notes |-> sent])
               /\ \A n \in Notes \ told' : sent[n] = 0
      /\ lost' = (lost \/ \E n \in DOMAIN editors \ Slots(state.docs) :
                     (IF n \in Range(open) THEN unsaved[n] ELSE asked[n]) > store[n].made)
  BY RenderTyped DEF IWindow
<1>2. open' = open /\ front' = front /\ seen' = seen /\ store' = store
  BY <1>1 DEF mainVars
<1>3. ITold' /\ IOne'
  <2>1. CASE told' = told /\ toMain' = toMain
    <3>1. told' = DirtyNotes(shown')
      BY <1>1
    <3>2. (told = DirtyNotes(shown))'
      BY <3>1 DEF DirtyNotes
    <3>3. ITold'
      BY <1>1, <2>1, <3>2 DEF IWindow, ITold, Clean, Tells, List, Nothing
    <3>4. IOne'
      BY <1>1, <2>1 DEF IWindow, IOne
    <3> QED
      BY <3>3, <3>4
  <2>2. CASE \E sent \in [Notes -> Nat] :
               /\ toMain' = Append(toMain, [is |-> "unsaved", notes |-> sent])
               /\ \A n \in Notes \ told' : sent[n] = 0
    <3>1. PICK sent \in [Notes -> Nat] :
               /\ toMain' = Append(toMain, [is |-> "unsaved", notes |-> sent])
               /\ \A n \in Notes \ told' : sent[n] = 0
      BY <2>2
    <3>2. told' = DirtyNotes(shown')
      BY <1>1
    <3>3. ITold'
      BY <1>1, <3>1, <3>2, ToldAnew DEF IWindow
    <3> DEFINE one == [is |-> "unsaved", notes |-> sent]
    <3>4. one \in Sent /\ one.is = "unsaved"
      BY DEF Sent
    <3>5. toMain \in Seq(Sent) /\ toMain' = Append(toMain, one)
      BY <3>1 DEF IWindow, ITyped
    <3> HIDE DEF one
    <3>6. <<one>> \in Seq(Sent) /\ toMain' = toMain \o <<one>> /\ \A i \in 1..Len(<<one>>) : <<one>>[i].is # "call"
      BY <3>4, <3>5
    <3>7. IOne'
      BY <1>1, <3>6, OneStays DEF IWindow
    <3> QED
      BY <3>3, <3>7
  <2> QED
    BY <1>1, <2>1, <2>2
<1>4. INews'
  BY <1>1, <1>2 DEF IWindow, INews, Loaded
<1>5. ICall'
  BY <1>1, <1>2, CallsStay DEF IWindow
<1>6. ASSUME ~crossed
      PROVE  IHome' /\ IFits' /\ IKept'
  <2>1. IHome /\ IFits /\ IKept /\ INews /\ ITold
    BY <1>6 DEF IWindow
  <2>2. Slots(state.docs) = DOMAIN state.docs
    BY <2>1 DEF Slots, Loaded, IHome, Own
  <2>3. IHome'
    BY <1>1, <2>1, <2>2 DEF IHome, Own, Loaded
  <2>4. \A n \in Range(open) : n \in DOMAIN editors => n \in DOMAIN editors'
    BY <1>1, <2>1, <2>2 DEF INews, IHome, Loaded
  <2>5. IFits'
    <3>1. \A n \in Range(open) : n \in DOMAIN editors' <=> n \in DOMAIN editors
      BY <1>1, <2>4
    <3>2. \A n \in DOMAIN state.docs : n \in DOMAIN editors' <=> n \in DOMAIN editors
      BY <1>1, <2>2
    <3>3. \A n : Ahead(n)' <=> Ahead(n)
      BY <1>1 DEF Ahead
    <3> QED
      BY <1>1, <1>2, <2>1, <3>1, <3>2, <3>3 DEF IFits, Loaded
  <2>6. \A n \in DOMAIN editors \ Slots(state.docs) :
            ~((IF n \in Range(open) THEN unsaved[n] ELSE asked[n]) > store[n].made)
    <3> SUFFICES ASSUME NEW n \in DOMAIN editors \ Slots(state.docs)
                 PROVE  ~((IF n \in Range(open) THEN unsaved[n] ELSE asked[n]) > store[n].made)
      OBVIOUS
    <3>1. n \notin Range(open)
      BY <1>1, <2>4
    <3>2. n \in Notes /\ store[n].made \in Nat
      BY DEF IWindow, ITyped
    <3>3. asked[n] = 0
      BY <2>1, <3>2 DEF ITold, Nothing
    <3> QED
      BY <3>1, <3>2, <3>3
  <2>7. IKept'
    BY <1>1, <2>1, <2>6 DEF IKept
  <2> QED
    BY <2>3, <2>5, <2>7
<1> QED
  BY <1>1, <1>3, <1>4, <1>5, <1>6 DEF IWindow

\* An editor is made of a note the store has not saved: one let go is not
\* shown again.
LEMMA ReadyKeeps ==
  ASSUME IWindow, NEW n \in Notes, Ready(n)
  PROVE  IWindow'
<1>1. /\ ITyped'
      /\ UNCHANGED <<mainVars, unsaved, toMain, toWindow, call, state, shown, told, releasing, crossed, asked, lost>>
      /\ n \in Slots(shown.docs) \ DOMAIN editors
      /\ DOMAIN editors' = DOMAIN editors \cup {n}
      /\ editors'[n].base = Rev(shown.docs, n)
      /\ \A m \in DOMAIN editors : editors'[m] = editors[m]
  BY ReadyTyped DEF IWindow
<1>2. open' = open /\ front' = front /\ seen' = seen /\ store' = store
  BY <1>1 DEF mainVars
<1>3. ITold'
  BY <1>1, ToldStays DEF IWindow
<1>4. INews'
  BY <1>1, <1>2, NewsStay DEF IWindow
<1>5. ICall' /\ IOne'
  BY <1>1, <1>2, CallsStay DEF IWindow, IOne
<1>6. ASSUME ~crossed
      PROVE  IHome' /\ IFits' /\ IKept'
  <2>1. IHome /\ IFits /\ IKept
    BY <1>6 DEF IWindow
  <2>2. n \in DOMAIN shown.docs \ DOMAIN editors
    BY <1>1, <2>1 DEF Slots, Loaded, IHome, Own
  <2>3. IHome' /\ IKept'
    BY <1>1, <2>1, <2>2 DEF IHome, Own, Loaded, IKept
  <2>4. editors'[n].base = 0
    BY <1>1, <2>1, <2>2 DEF IFits, Rev, Loaded
  <2>5. ASSUME NEW m \in Range(open), ~Ahead(m)'
        PROVE  /\ m \in DOMAIN editors' => editors'[m].base = store[m].rev
               /\ m \in DOMAIN state.docs => state.docs[m].rev = store[m].rev /\ state.docs[m].token = <<m, store[m].rev>>
               /\ m \notin DOMAIN editors' => store[m].rev = 0
    <3>1. ~Ahead(m)
      BY <1>1, <2>5 DEF Ahead
    <3>2. /\ m \in DOMAIN editors => editors[m].base = store[m].rev
          /\ m \in DOMAIN state.docs => state.docs[m].rev = store[m].rev /\ state.docs[m].token = <<m, store[m].rev>>
          /\ m \notin DOMAIN editors => store[m].rev = 0
      BY <2>1, <3>1 DEF IFits, Loaded
    <3> QED
      BY <1>1, <2>2, <2>4, <3>2
  <2>6. /\ \A m \in DOMAIN state.docs \ DOMAIN editors' : state.docs[m].rev = 0
        /\ \A m \in DOMAIN shown.docs \ DOMAIN editors' : shown.docs[m].rev = 0
    BY <1>1, <2>1 DEF IFits, Loaded
  <2>7. IFits'
    BY <1>1, <1>2, <2>5, <2>6 DEF IFits, Loaded
  <2> QED
    BY <2>3, <2>7
<1> QED
  BY <1>1, <1>3, <1>4, <1>5, <1>6 DEF IWindow

\* The record of a note brought for the first time is the one of the day it was
\* opened, and so is its store.
LEMMA ReceiveKeeps ==
  ASSUME IWindow, Receive
  PROVE  IWindow'
<1> DEFINE news == Head(toWindow)
           new == IF news.brings /\ news.front # NoNote THEN {news.front} ELSE {}
<1>1. /\ ITyped'
      /\ UNCHANGED <<mainVars, unsaved, call, shown, editors, told, crossed, asked, lost>>
      /\ DOMAIN state'.docs = (DOMAIN state.docs \cup new) \cap news.notes
      /\ \A m \in DOMAIN state'.docs :
            state'.docs[m] = IF m \in DOMAIN state.docs THEN state.docs[m] ELSE Record(m)
      /\ \E ext \in Seq(Sent) :
            /\ toMain' = toMain \o ext
            /\ \A i \in 1..Len(ext) : ext[i].is = "release" /\ ext[i].note \in Notes \ DirtyNotes(shown)
  BY ReceiveTyped DEF IWindow
<1> HIDE DEF news, new
<1>2. open' = open /\ front' = front /\ seen' = seen /\ store' = store
  BY <1>1 DEF mainVars
<1>3. PICK ext \in Seq(Sent) :
        /\ toMain' = toMain \o ext
        /\ \A i \in 1..Len(ext) : ext[i].is = "release" /\ ext[i].note \in Notes \ DirtyNotes(shown)
  BY <1>1
<1>4. ITold'
  <2>1. told = DirtyNotes(shown)
    BY DEF IWindow, ITold
  <2>2. \A i \in 1..Len(ext) : ext[i].is # "unsaved" /\ (ext[i].is = "release" => ext[i].note \in Notes \ told)
    BY <1>3, <2>1
  <2> QED
    BY <1>1, <1>3, <2>2, ToldGrows DEF IWindow
<1>5. IOne'
  <2>1. \A i \in 1..Len(ext) : ext[i].is # "call"
    BY <1>3
  <2> QED
    BY <1>1, <1>3, <2>1, OneStays DEF IWindow
<1>6. INews'
  BY NewsReceived DEF IWindow
<1>7. ICall'
  BY <1>1, <1>2, CallsStay DEF IWindow
<1>8. ASSUME ~crossed
      PROVE  IHome' /\ IFits' /\ IKept'
  <2>1. IHome /\ IFits /\ IKept /\ INews
    BY <1>8 DEF IWindow
  <2>2. \A m \in DOMAIN state'.docs \ DOMAIN state.docs :
           state'.docs[m].id = m /\ state'.docs[m].rev = 0 /\ state'.docs[m].token = <<m, 0>>
    <3>1. \A m \in DOMAIN state'.docs \ DOMAIN state.docs : state'.docs[m] = Record(m)
      BY <1>1
    <3>2. \A m : Record(m).id = m /\ Record(m).rev = 0 /\ Record(m).token = <<m, 0>>
      BY DEF Record
    <3> QED
      BY <3>1, <3>2
  <2>3. \A m \in DOMAIN state'.docs \cap DOMAIN state.docs : state'.docs[m] = state.docs[m]
    BY <1>1
  <2>4. IHome' /\ IKept'
    BY <1>1, <2>1, <2>2, <2>3 DEF IHome, Own, Loaded, IKept
  <2>5. ASSUME NEW n \in Range(open), ~Ahead(n)'
        PROVE  /\ n \in DOMAIN editors => editors[n].base = store[n].rev
               /\ n \in DOMAIN state'.docs =>
                    state'.docs[n].rev = store[n].rev /\ state'.docs[n].token = <<n, store[n].rev>>
               /\ n \notin DOMAIN editors => store[n].rev = 0
    <3>1. ~Ahead(n)
      BY <1>1, <2>5 DEF Ahead
    <3>2. /\ n \in DOMAIN editors => editors[n].base = store[n].rev
          /\ n \in DOMAIN state.docs => state.docs[n].rev = store[n].rev /\ state.docs[n].token = <<n, store[n].rev>>
          /\ n \notin DOMAIN editors => store[n].rev = 0
      BY <2>1, <3>1 DEF IFits, Loaded
    <3>3. CASE n \in DOMAIN state.docs
      BY <2>3, <3>2, <3>3
    <3>4. CASE n \notin DOMAIN state.docs
      <4>1. n \notin DOMAIN editors
        BY <2>1, <3>4 DEF INews, IHome, Loaded
      <4> QED
        BY <2>2, <3>2, <3>4, <4>1
    <3> QED
      BY <3>3, <3>4
  <2>6. \A n \in DOMAIN state'.docs \ DOMAIN editors : state'.docs[n].rev = 0
    BY <2>1, <2>2, <2>3 DEF IFits, Loaded
  <2>7. \A n \in DOMAIN shown'.docs \ DOMAIN editors : shown'.docs[n].rev = 0
    BY <1>1, <2>1 DEF IFits, Loaded
  <2>8. IFits'
    BY <1>1, <1>2, <2>5, <2>6, <2>7 DEF IFits, Loaded
  <2> QED
    BY <2>4, <2>8
<1> QED
  BY <1>1, <1>4, <1>5, <1>6, <1>7, <1>8 DEF IWindow

\* Typing files nothing.
LEMMA TypeKeeps ==
  ASSUME IWindow, Type
  PROVE  IWindow'
<1>1. /\ ITyped'
      /\ UNCHANGED <<mainVars, unsaved, toMain, toWindow, call, shown, told, releasing, crossed, asked, lost>>
      /\ Alike(state.docs, state'.docs)
      /\ DOMAIN editors' = DOMAIN editors
      /\ \A m \in DOMAIN editors : editors'[m].base = editors[m].base
  BY TypeTyped DEF IWindow
<1>2. open' = open /\ front' = front /\ seen' = seen /\ store' = store
  BY <1>1 DEF mainVars
<1>3. ITold'
  BY <1>1, ToldStays DEF IWindow
<1>4. INews'
  BY <1>1, <1>2, NewsStay DEF IWindow, Alike
<1>5. ICall' /\ IOne'
  BY <1>1, <1>2, CallsStay DEF IWindow, IOne
<1>6. \A n \in Range(open)' : ~Ahead(n)' => n \in Range(open) /\ ~Ahead(n)
  BY <1>1, <1>2 DEF Ahead
<1>7. ~crossed' => IHome' /\ IFits' /\ IKept'
  BY <1>1, <1>2, <1>6, FilesStay
<1> QED
  BY <1>1, <1>3, <1>4, <1>5, <1>7 DEF IWindow

\* What is sent files nothing.
LEMMA SendsKeep ==
  ASSUME IWindow, Save \/ AutoSave \/ OpenRow \/ Recover
  PROVE  IWindow'
<1>1. ITyped' /\ Sends
  BY SendsTyped DEF IWindow
<1>2. /\ UNCHANGED <<mainVars, unsaved, toWindow, shown, editors, told, releasing, crossed, asked, lost>>
      /\ Alike(state.docs, state'.docs)
  BY <1>1 DEF Sends
<1>3. open' = open /\ front' = front /\ seen' = seen /\ store' = store
  BY <1>2 DEF mainVars
<1>4. PICK ext \in Seq(Sent) : toMain' = toMain \o ext /\ \A i \in 1..Len(ext) : ext[i].is \in {"call", "open"}
  BY <1>1 DEF Sends
<1>5. ITold'
  <2>1. \A i \in 1..Len(ext) : ext[i].is # "unsaved" /\ (ext[i].is = "release" => ext[i].note \in Notes \ told)
    BY <1>4
  <2> QED
    BY <1>2, <1>4, <2>1, ToldGrows DEF IWindow
<1>6. INews'
  BY <1>2, <1>3, NewsStay DEF IWindow, Alike
<1>7. ICall' /\ IOne' /\ \A n \in Notes : ~Ahead(n)' => ~Ahead(n)
  BY <1>1, CallsAreSent DEF IWindow
<1>8. \A n \in Range(open)' : ~Ahead(n)' => n \in Range(open) /\ ~Ahead(n)
  <2>1. open \in Seq(Notes)
    BY DEF IWindow, ITyped
  <2>2. Range(open) \subseteq Notes
    BY <2>1 DEF Range
  <2> QED
    BY <1>3, <1>7, <2>2
<1>9. ~crossed' => IHome' /\ IFits' /\ IKept'
  BY <1>2, <1>3, <1>8, FilesStay
<1> QED
  BY <1>1, <1>5, <1>6, <1>7, <1>9 DEF IWindow

\* A note opened by main is brought to the front.
LEMMA MainOpensKeeps ==
  ASSUME IWindow, MainOpens
  PROVE  IWindow'
<1>1. ITyped' /\ UNCHANGED <<unsaved, toMain, call, windowVars, crossed, asked, lost>>
  BY MainOpensTyped DEF IWindow
<1>2. PICK n \in Notes : Bring(n)
  BY MainOpensTyped DEF IWindow
<1>3. INews' /\ ICall' /\ (~crossed' => IHome' /\ IFits' /\ IKept')
  BY <1>1, <1>2, BringKeeps
<1>4. ITold'
  BY <1>1, ToldStays DEF IWindow, windowVars
<1>5. IOne'
  BY <1>1 DEF IWindow, IOne
<1> QED
  BY <1>1, <1>3, <1>4, <1>5 DEF IWindow

\* A note closed from the menu is closed.
LEMMA CloseTabKeeps ==
  ASSUME IWindow, CloseTab
  PROVE  IWindow'
<1>0. front \in Range(open) \cup {NoNote}
  BY DEF IWindow, INews
<1>1. /\ ITyped' /\ UNCHANGED <<unsaved, toMain, call, windowVars, crossed, lost>>
      /\ unsaved[front] = 0 /\ Close(front)
  BY <1>0, CloseTabTyped DEF IWindow
<1>2. INews' /\ ICall' /\ asked' = asked /\ (~crossed' => IHome' /\ IFits' /\ IKept')
  BY <1>1, CloseKeeps
<1>3. ITold'
  BY <1>1, <1>2, ToldStays DEF IWindow, windowVars
<1>4. IOne'
  BY <1>1 DEF IWindow, IOne
<1> QED
  BY <1>1, <1>2, <1>3, <1>4 DEF IWindow

-----------------------------------------------------------------------------
(***************************************************************************)
(* The theorems.                                                           *)
(***************************************************************************)
\* The invariant holds of the window as it starts.
LEMMA InitWindow == Init => IWindow
<1> SUFFICES ASSUME Init
             PROVE  IWindow
  OBVIOUS
<1>1. ITyped
  BY InitTyped
<1>2. /\ open = <<First>> /\ front = First /\ seen = {First}
      /\ store = [n \in Notes |-> [rev |-> 0, made |-> 0, recovery |-> n \in Evidence]]
      /\ unsaved = [n \in Notes |-> 0] /\ toMain = <<>> /\ toWindow = <<>> /\ call.kind = "none"
      /\ DOMAIN state.docs = {First} /\ state.docs[First] = Record(First) /\ shown = state
      /\ DOMAIN editors = {First} /\ editors[First] = Editor(First, 0)
      /\ told = {} /\ asked = Nothing /\ lost = FALSE
  BY DEF Init, Nothing, NoCall
<1>3. Range(open) = {First} /\ First \in Notes
  BY <1>2, WindowNotesConstants DEF Range
<1>4. ITold
  <2>1. DirtyNotes(shown) = {}
    BY <1>2 DEF DirtyNotes, Loaded, Record
  <2>2. \A n \in Notes : Clean(0, n)
    BY <1>2 DEF Clean, Tells, List
  <2>3. Len(toMain) = 0 /\ DOMAIN toMain = {}
    BY <1>2
  <2> QED
    BY <1>2, <2>1, <2>2, <2>3 DEF ITold
<1>5. INews
  <2>1. DOMAIN toWindow = {}
    BY <1>2
  <2> QED
    BY <1>2, <1>3, <2>1 DEF INews, Loaded
<1>6. ICall
  BY <1>2 DEF ICall
<1>7. IOne
  <2>1. DOMAIN toMain = {}
    BY <1>2
  <2> QED
    BY <2>1 DEF IOne
<1>8. state.docs[First].id = First /\ state.docs[First].rev = 0 /\ state.docs[First].token = <<First, 0>>
      /\ editors[First].base = 0 /\ store[First].rev = 0
  BY <1>2, <1>3 DEF Record, Editor
<1>9. IHome
  BY <1>2, <1>8 DEF IHome, Own, Loaded
<1>10. IFits
  BY <1>2, <1>3, <1>8 DEF IFits, Loaded
<1>11. IKept
  BY <1>2 DEF IKept
<1> QED
  BY <1>1, <1>4, <1>5, <1>6, <1>7, <1>9, <1>10, <1>11 DEF IWindow

\* Every step keeps the invariant.
LEMMA NextWindow == IWindow /\ [Next]_vars => IWindow'
<1> SUFFICES ASSUME IWindow, [Next]_vars
             PROVE  IWindow'
  OBVIOUS
<1>1. CASE HandleCall
  BY <1>1, HandleCallKeeps
<1>2. CASE EndCall
  BY <1>2, EndCallKeeps
<1>3. CASE TakeAnswer
  BY <1>3, TakeAnswerKeeps
<1>4. CASE Render
  BY <1>4, RenderKeeps
<1>5. CASE \E n \in Notes : Ready(n)
  BY <1>5, ReadyKeeps
<1>6. CASE Receive
  BY <1>6, ReceiveKeeps
<1>7. CASE MainOpens
  BY <1>7, MainOpensKeeps
<1>8. CASE CloseTab
  BY <1>8, CloseTabKeeps
<1>9. CASE Type
  BY <1>9, TypeKeeps
<1>10. CASE Save \/ AutoSave \/ OpenRow \/ Recover
  BY <1>10, SendsKeep
<1>11. CASE UNCHANGED vars
  <2>1. /\ UNCHANGED <<open, recent, front, seen, store, unsaved, toMain, toWindow, call, state, shown, activeRef,
                       editorRef, editors, told, releasing, crossed, asked, lost>>
    BY <1>11 DEF vars, mainVars, windowVars, history
  <2>2. ITyped'
    BY <2>1 DEF IWindow, ITyped, Framed, Known
  <2>3. ITold'
    BY <2>1, ToldStays DEF IWindow
  <2>4. INews'
    BY <2>1, NewsStay DEF IWindow
  <2>5. ICall' /\ IOne'
    BY <2>1, CallsStay DEF IWindow, IOne
  <2>6. Alike(state.docs, state'.docs)
    BY <2>1 DEF Alike
  <2>7. \A n \in Range(open)' : ~Ahead(n)' => n \in Range(open) /\ ~Ahead(n)
    BY <2>1 DEF Ahead
  <2>8. ~crossed' => IHome' /\ IFits' /\ IKept'
    BY <2>1, <2>6, <2>7, FilesStay
  <2> QED
    BY <2>2, <2>3, <2>4, <2>5, <2>8 DEF IWindow
<1> QED
  BY <1>1, <1>2, <1>3, <1>4, <1>5, <1>6, <1>7, <1>8, <1>9, <1>10, <1>11 DEF Next, Runs

\* So it always holds.
LEMMA WindowHolds == Spec => []IWindow
<1> QED
  BY InitWindow, NextWindow, PTL DEF Spec

\* However many notes are opened, trimmed, closed and saved, no edits main
\* knows of are dropped without the reader being asked, unless an answer was
\* put on a note that is not its own (onTabsChanged, unsavedPaths).
THEOREM KnownEditsAreKept == Spec => []KnownIsKept
<1>1. IWindow => KnownIsKept
  BY DEF IWindow, IKept, KnownIsKept
<1> QED
  BY <1>1, WindowHolds, PTL

\* When no call is on its way, and none crossed, every note that is open and
\* drawn will have its next save accepted (save, present, saveLocked).
THEOREM NextSaveAlwaysFits == Spec => []NextSaveFits
<1>1. IWindow => NextSaveFits
  <2> SUFFICES ASSUME IWindow, shown = state, call = NoCall, ~crossed,
                      NEW n \in DOMAIN editors \cap Range(open) \cap Loaded(shown.docs)
               PROVE  Current(editors[n].base, shown.docs[n].token, n)
    BY DEF NextSaveFits, AtRest
  <2>1. ~Ahead(n)
    BY DEF Ahead, NoCall
  <2> QED
    BY <2>1 DEF IWindow, IFits, Current
<1> QED
  BY <1>1, WindowHolds, PTL

-----------------------------------------------------------------------------
(***************************************************************************)
(* What the panels ask of the folder (Searching).  A ticket is taken once, *)
(* so an answer with a panel's latest ticket is to what is in its field.   *)
(***************************************************************************)
\* A question main was asked: a scan, or one it answers in one go.
PanelCall(c) ==
    \/ c \in [panel : {"rail", "palette"}, id : Nat \ {0}, of : {c.of}, next : {c.next}, reading : {c.reading},
              found : {c.found}, unread : {c.unread}, late : {c.late}]
    \/ c \in [panel : {"links", "tags", "tagged"}, id : Nat \ {0}, of : {c.of}]

\* The questions of a panel with its latest ticket are of what is in its field,
TicketIs(cs, panel, ticket, of) == \A c \in cs : c.panel = panel /\ c.id = ticket => c.of = of

\* and so is what it draws: the sidebar,
RailSound(r, cs, n) ==
    /\ r \in [open : BOOLEAN, word : {r.word}, result : {r.result}, searching : BOOLEAN, latest : 0..n,
              timer : BOOLEAN]
    /\ r.timer => r.latest # 0
    /\ r.word # Empty => TicketIs(cs, "rail", r.latest, r.word)
    /\ r.word # Empty /\ ~r.searching => r.result.of = r.word

\* quick open,
PaletteSound(p, cs, n) ==
    /\ p \in [open : BOOLEAN, content : BOOLEAN, word : {p.word}, answer : {p.answer}, searching : BOOLEAN,
              current : 0..n, timer : BOOLEAN, missed : BOOLEAN]
    /\ p.timer => p.current # 0
    /\ TicketIs(cs, "palette", p.current, p.word)
    /\ p.open /\ p.content /\ p.word # Empty /\ ~p.searching /\ ~p.missed => p.answer.of = p.word

\* and the links of the note in front.
LinksSound(l, cs, n) ==
    /\ l \in [of : {l.of}, drawn : {l.drawn}, live : 0..n, loading : BOOLEAN]
    /\ TicketIs(cs, "links", l.live, l.of)
    /\ l.of # Empty /\ ~l.loading => l.drawn = l.of

IPanels ==
    /\ asks \in Nat
    /\ \A c \in calls : PanelCall(c) /\ c.id \in 1..asks
    /\ RailSound(rail, calls, asks) /\ PaletteSound(palette, calls, asks) /\ LinksSound(links, calls, asks)

\* A question is still the one asked of its panel, and with the same ticket.
StillAsked(ds, cs, panel) == \A d \in ds : d.panel = panel => \E c \in cs : c.panel = panel /\ c.id = d.id /\ c.of = d.of

\* A panel nobody touched stays sound while questions of its own only end and
\* tickets are taken by others.
LEMMA PanelsStay ==
  ASSUME NEW cs, NEW ds, NEW n \in Nat, NEW m \in Nat, n <= m
  PROVE  /\ \A r : RailSound(r, cs, n) /\ StillAsked(ds, cs, "rail") => RailSound(r, ds, m)
         /\ \A p : PaletteSound(p, cs, n) /\ StillAsked(ds, cs, "palette") => PaletteSound(p, ds, m)
         /\ \A l : LinksSound(l, cs, n) /\ StillAsked(ds, cs, "links") => LinksSound(l, ds, m)
<1>1. 0..n \subseteq 0..m
  OBVIOUS
<1>2. \A panel, ticket, of : StillAsked(ds, cs, panel) /\ TicketIs(cs, panel, ticket, of) => TicketIs(ds, panel, ticket, of)
  BY DEF StillAsked, TicketIs
<1>3. ASSUME NEW r, RailSound(r, cs, n), StillAsked(ds, cs, "rail") PROVE RailSound(r, ds, m)
  BY <1>1, <1>2, <1>3 DEF RailSound
<1>4. ASSUME NEW p, PaletteSound(p, cs, n), StillAsked(ds, cs, "palette") PROVE PaletteSound(p, ds, m)
  BY <1>1, <1>2, <1>4 DEF PaletteSound
<1>5. ASSUME NEW l, LinksSound(l, cs, n), StillAsked(ds, cs, "links") PROVE LinksSound(l, ds, m)
  BY <1>1, <1>2, <1>5 DEF LinksSound
<1> QED
  BY <1>3, <1>4, <1>5

\* Tickets are numbered.
LEMMA Tickets ==
  ASSUME IPanels
  PROVE  /\ asks \in Nat /\ asks + 1 \in Nat /\ asks <= asks /\ asks <= asks + 1
         /\ 0 \in 0..asks /\ asks + 1 \in 0..(asks + 1) /\ asks + 1 # 0 /\ asks + 1 \in 1..(asks + 1)
         /\ 0..asks \subseteq 0..(asks + 1) /\ 1..asks \subseteq 1..(asks + 1)
<1> QED
  BY DEF IPanels

\* No question asked so far has a ticket that is new, or none.
LEMMA NewTicket ==
  ASSUME IPanels
  PROVE  \A panel, of, ticket : ticket \in {0, asks + 1} => TicketIs(calls, panel, ticket, of)
<1> QED
  BY DEF IPanels, TicketIs

\* The sidebar's field changes: a new ticket, or an empty field.
LEMMA RailTypesKeeps == ASSUME IPanels, Panels!RailTypes PROVE IPanels'
<1>1. asks' \in {asks, asks + 1} /\ calls' = calls /\ palette' = palette /\ links' = links
  BY DEF Panels!RailTypes, Panels!Asked
<1>2. RailSound(rail', calls, asks')
  <2>1. CASE /\ rail' = [rail EXCEPT !.word = Empty, !.result = Panels!Nothing, !.searching = FALSE, !.timer = FALSE]
             /\ UNCHANGED asks
    <3>1. \A r : r = [rail EXCEPT !.word = Empty, !.result = Panels!Nothing, !.searching = FALSE, !.timer = FALSE]
                    => RailSound(r, calls, asks)
      BY ZenonT(60) DEF IPanels, RailSound
    <3> QED
      BY <2>1, <3>1
  <2>2. ASSUME NEW w, asks' = asks + 1,
               rail' = [rail EXCEPT !.word = w, !.searching = TRUE, !.latest = asks + 1, !.timer = TRUE]
        PROVE  RailSound(rail', calls, asks')
    <3>1. TicketIs(calls, "rail", asks + 1, w)
      BY NewTicket
    <3>2. \A r : r = [rail EXCEPT !.word = w, !.searching = TRUE, !.latest = asks + 1, !.timer = TRUE]
                    => RailSound(r, calls, asks + 1)
      BY <3>1, Tickets, ZenonT(60) DEF IPanels, RailSound
    <3> QED
      BY <2>2, <3>2
  <2> QED
    BY <2>1, <2>2 DEF Panels!RailTypes, Panels!Asked
<1>3. asks <= asks' /\ asks \in Nat /\ asks' \in Nat
  BY <1>1, Tickets
<1>4. PaletteSound(palette, calls, asks') /\ LinksSound(links, calls, asks')
  BY <1>3, PanelsStay DEF StillAsked, IPanels
<1>5. \A c \in calls : PanelCall(c) /\ c.id \in 1..asks'
  BY <1>1, Tickets DEF IPanels
<1> QED
  BY <1>1, <1>2, <1>3, <1>4, <1>5 DEF IPanels

\* A panel just opened, or not yet, has nothing in its field.
LEMMA FreshIsSound ==
  ASSUME NEW cs, NEW n \in Nat
  PROVE  \A r : r \in {Panels!FreshRail, [Panels!FreshRail EXCEPT !.open = FALSE]} => RailSound(r, cs, n)
<1>1. 0 \in 0..n
  OBVIOUS
<1>2. \A r : r = Panels!FreshRail => RailSound(r, cs, n)
  BY <1>1 DEF Panels!FreshRail, RailSound
<1>3. \A r : r = [Panels!FreshRail EXCEPT !.open = FALSE] => RailSound(r, cs, n)
  BY <1>1, ZenonT(60) DEF Panels!FreshRail, RailSound
<1> QED
  BY <1>2, <1>3

\* The panel comes and goes.
LEMMA RailOpensKeeps == ASSUME IPanels, Panels!RailOpens PROVE IPanels'
<1> USE DEF IPanels
<1>1. asks' = asks /\ calls' = calls /\ palette' = palette /\ links' = links
  BY DEF Panels!RailOpens
<1> QED
  BY <1>1, FreshIsSound DEF Panels!RailOpens

\* The timer of the sidebar fires: what is asked is in the field.
LEMMA RailAsksKeeps == ASSUME IPanels, Panels!RailAsks PROVE IPanels'
<1> USE DEF IPanels
<1> DEFINE c == Panels!Scan("rail", rail.latest, rail.word)
           r == [rail EXCEPT !.timer = FALSE]
<1>1. asks' = asks /\ calls' = calls \cup {c} /\ palette' = palette /\ links' = links /\ rail' = r
  BY DEF Panels!RailAsks
<1>2. rail.latest \in 1..asks
  BY DEF RailSound, Panels!RailAsks
<1>3. PanelCall(c) /\ c.id \in 1..asks /\ c.panel = "rail" /\ c.id = rail.latest /\ c.of = rail.word
  BY <1>2 DEF PanelCall, Panels!Scan
<1> HIDE DEF c
<1>4. TicketIs(calls, "rail", rail.latest, rail.word) => TicketIs(calls \cup {c}, "rail", rail.latest, rail.word)
  BY <1>3 DEF TicketIs
<1>5. RailSound(r, calls \cup {c}, asks)
  BY <1>4 DEF RailSound
<1>6. StillAsked(calls \cup {c}, calls, "palette") /\ StillAsked(calls \cup {c}, calls, "links")
  BY <1>3 DEF StillAsked
<1>7. PaletteSound(palette, calls \cup {c}, asks) /\ LinksSound(links, calls \cup {c}, asks)
  BY <1>6, PanelsStay
<1> HIDE DEF r
<1> QED
  BY <1>1, <1>3, <1>5, <1>7

\* Quick open's effect runs again: a new ticket, none, or an empty field.
LEMMA PaletteChangesKeeps == ASSUME IPanels, Panels!PaletteChanges PROVE IPanels'
<1> USE DEF IPanels
<1> DEFINE Shaped(p) == p \in [open : BOOLEAN, content : BOOLEAN, word : {p.word}, answer : {p.answer},
                               searching : BOOLEAN, current : 0..asks, timer : BOOLEAN, missed : BOOLEAN]
<1>1. calls' = calls /\ rail' = rail /\ links' = links
  BY DEF Panels!PaletteChanges
<1>2. ASSUME NEW p, Shaped(p), Panels!Rerun(p) PROVE asks' \in {asks, asks + 1} /\ PaletteSound(palette', calls, asks')
  <2> DEFINE off == [p EXCEPT !.current = 0, !.timer = FALSE]
  <2>1. CASE ~p.open \/ ~p.content
    <3>1. palette' = off /\ asks' = asks
      BY <1>2, <2>1 DEF Panels!Rerun
    <3>2. TicketIs(calls, "palette", 0, p.word)
      BY NewTicket
    <3>3. \A q : q = off => PaletteSound(q, calls, asks)
      BY <1>2, <2>1, <3>2, Tickets, ZenonT(60) DEF PaletteSound
    <3> QED
      BY <3>1, <3>3
  <2>2. CASE p.open /\ p.content /\ p.word = Empty
    <3>1. palette' = [off EXCEPT !.answer = Panels!Nothing, !.searching = FALSE, !.missed = FALSE] /\ asks' = asks
      BY <1>2, <2>2 DEF Panels!Rerun
    <3>2. TicketIs(calls, "palette", 0, p.word)
      BY NewTicket
    <3>3. \A q : q = [off EXCEPT !.answer = Panels!Nothing, !.searching = FALSE, !.missed = FALSE]
                    => PaletteSound(q, calls, asks)
      BY <1>2, <2>2, <3>2, Tickets, ZenonT(60) DEF PaletteSound
    <3> QED
      BY <3>1, <3>3
  <2>3. CASE p.open /\ p.content /\ p.word # Empty
    <3>1. palette' = [off EXCEPT !.current = asks + 1, !.timer = TRUE, !.searching = TRUE] /\ asks' = asks + 1
      BY <1>2, <2>3 DEF Panels!Rerun, Panels!Asked
    <3>2. TicketIs(calls, "palette", asks + 1, p.word)
      BY NewTicket
    <3>3. \A q : q = [off EXCEPT !.current = asks + 1, !.timer = TRUE, !.searching = TRUE]
                    => PaletteSound(q, calls, asks + 1)
      BY <1>2, <3>2, Tickets, ZenonT(60) DEF PaletteSound
    <3> QED
      BY <3>1, <3>3
  <2> QED
    BY <1>2, <2>1, <2>2, <2>3
<1>3. Shaped(palette)
  BY DEF PaletteSound
<1>4. /\ \A w : Shaped([palette EXCEPT !.word = w])
      /\ Shaped([palette EXCEPT !.content = ~@])
      /\ Shaped([palette EXCEPT !.open = FALSE])
      /\ \A content \in BOOLEAN : Shaped([palette EXCEPT !.open = TRUE, !.content = content, !.word = Empty])
  BY <1>3
<1> HIDE DEF Shaped
<1>5. asks' \in {asks, asks + 1} /\ PaletteSound(palette', calls, asks')
  BY <1>2, <1>3, <1>4 DEF Panels!PaletteChanges
<1>6. RailSound(rail, calls, asks') /\ LinksSound(links, calls, asks')
  BY <1>5, Tickets, PanelsStay DEF StillAsked
<1>7. asks' \in Nat /\ \A c \in calls : c.id \in 1..asks'
  BY <1>5, Tickets
<1> QED
  BY <1>1, <1>5, <1>6, <1>7

\* The timer of quick open fires: what is asked is in the field.
LEMMA PaletteAsksKeeps == ASSUME IPanels, Panels!PaletteAsks PROVE IPanels'
<1> USE DEF IPanels
<1> DEFINE c == Panels!Scan("palette", palette.current, palette.word)
           p == [palette EXCEPT !.timer = FALSE]
<1>1. asks' = asks /\ calls' = calls \cup {c} /\ rail' = rail /\ links' = links /\ palette' = p
  BY DEF Panels!PaletteAsks
<1>2. palette.current \in 1..asks
  BY DEF PaletteSound, Panels!PaletteAsks
<1>3. PanelCall(c) /\ c.id \in 1..asks /\ c.panel = "palette" /\ c.id = palette.current /\ c.of = palette.word
  BY <1>2 DEF PanelCall, Panels!Scan
<1> HIDE DEF c
<1>4. TicketIs(calls, "palette", palette.current, palette.word)
          => TicketIs(calls \cup {c}, "palette", palette.current, palette.word)
  BY <1>3 DEF TicketIs
<1>5. PaletteSound(p, calls \cup {c}, asks)
  BY <1>4 DEF PaletteSound
<1>6. StillAsked(calls \cup {c}, calls, "rail") /\ StillAsked(calls \cup {c}, calls, "links")
  BY <1>3 DEF StillAsked
<1>7. RailSound(rail, calls \cup {c}, asks) /\ LinksSound(links, calls \cup {c}, asks)
  BY <1>6, PanelsStay
<1> HIDE DEF p
<1> QED
  BY <1>1, <1>3, <1>5, <1>7

\* Another note comes to the front, and its links are asked for.
LEMMA LinksFollowKeeps == ASSUME IPanels, Panels!LinksFollow PROVE IPanels'
<1> USE DEF IPanels
<1>1. asks' = asks + 1 /\ rail' = rail /\ palette' = palette
  BY DEF Panels!LinksFollow, Panels!Asked
<1>2. CASE links' = [links EXCEPT !.of = Empty, !.drawn = Empty, !.live = 0] /\ UNCHANGED calls
  <2>1. TicketIs(calls, "links", 0, Empty)
    BY NewTicket
  <2>2. \A l : l = [links EXCEPT !.of = Empty, !.drawn = Empty, !.live = 0] => LinksSound(l, calls, asks + 1)
    BY <2>1, Tickets, ZenonT(60) DEF LinksSound
  <2>3. RailSound(rail, calls, asks + 1) /\ PaletteSound(palette, calls, asks + 1)
    BY Tickets, PanelsStay DEF StillAsked
  <2> QED
    BY <1>1, <1>2, <2>2, <2>3
<1>3. ASSUME NEW n, links' = [links EXCEPT !.of = n, !.live = asks + 1, !.loading = TRUE],
             calls' = calls \cup {Panels!Plain("links", asks + 1, n)}
      PROVE  IPanels'
  <2> DEFINE c == Panels!Plain("links", asks + 1, n)
  <2>1. PanelCall(c) /\ c.id = asks + 1 /\ c.panel = "links" /\ c.of = n
    BY DEF PanelCall, Panels!Plain
  <2>2. calls' = calls \cup {c}
    BY <1>3
  <2> HIDE DEF c
  <2>3. TicketIs(calls, "links", asks + 1, n)
    BY NewTicket
  <2>4. TicketIs(calls \cup {c}, "links", asks + 1, n)
    BY <2>1, <2>3 DEF TicketIs
  <2>5. \A l : l = [links EXCEPT !.of = n, !.live = asks + 1, !.loading = TRUE]
                  => LinksSound(l, calls \cup {c}, asks + 1)
    BY <2>4, Tickets, ZenonT(60) DEF LinksSound
  <2>6. StillAsked(calls \cup {c}, calls, "rail") /\ StillAsked(calls \cup {c}, calls, "palette")
    BY <2>1 DEF StillAsked
  <2>7. RailSound(rail, calls \cup {c}, asks + 1) /\ PaletteSound(palette, calls \cup {c}, asks + 1)
    BY <2>6, PanelsStay
  <2> QED
    BY <1>1, <1>3, <2>1, <2>2, <2>5, <2>7
<1> QED
  BY <1>2, <1>3 DEF Panels!LinksFollow

\* The tag browser asks, and takes no part in the rest.
LEMMA BrowseTagsKeeps == ASSUME IPanels, Panels!BrowseTags PROVE IPanels'
<1> USE DEF IPanels
<1>1. PICK tag : calls' = calls \cup {Panels!Plain("tags", asks + 1, tag)}
  BY DEF Panels!BrowseTags
<1> DEFINE c == Panels!Plain("tags", asks + 1, tag)
<1>2. asks' = asks + 1 /\ rail' = rail /\ palette' = palette /\ links' = links /\ calls' = calls \cup {c}
  BY <1>1 DEF Panels!BrowseTags, Panels!Asked
<1>3. PanelCall(c) /\ c.id = asks + 1 /\ c.panel = "tags"
  BY DEF PanelCall, Panels!Plain
<1> HIDE DEF c
<1>4. \A panel \in {"rail", "palette", "links"} : StillAsked(calls \cup {c}, calls, panel)
  BY <1>3 DEF StillAsked
<1>5. /\ RailSound(rail, calls \cup {c}, asks + 1) /\ PaletteSound(palette, calls \cup {c}, asks + 1)
      /\ LinksSound(links, calls \cup {c}, asks + 1)
  BY <1>4, PanelsStay
<1> QED
  BY <1>2, <1>3, <1>5

\* A question ends, or goes on as one with the same ticket that is no other panel's.
LEMMA QuestionsGo ==
  ASSUME IPanels, UNCHANGED asks,
         \A d \in calls' : PanelCall(d) /\ \E c \in calls : c.id = d.id /\ c.of = d.of /\ d.panel \in {c.panel, "tagged"}
  PROVE  /\ \A d \in calls' : PanelCall(d) /\ d.id \in 1..asks
         /\ RailSound(rail, calls', asks) /\ PaletteSound(palette, calls', asks) /\ LinksSound(links, calls', asks)
<1>1. \A panel \in {"rail", "palette", "links"} : StillAsked(calls', calls, panel)
  BY DEF StillAsked
<1> QED
  BY <1>1, PanelsStay DEF IPanels

\* The same scan, further on.
SameScan(d, c) ==
    PanelCall(d) /\ d.panel \in {"rail", "palette"} /\ d.id = c.id /\ d.of = c.of /\ d.panel = c.panel

LEMMA ScanAmended ==
  ASSUME NEW c, PanelCall(c), c.panel \in {"rail", "palette"}
  PROVE  \A v : /\ SameScan([c EXCEPT !.next = v], c) /\ SameScan([c EXCEPT !.reading = v], c)
                /\ SameScan([c EXCEPT !.found = v], c) /\ SameScan([c EXCEPT !.unread = v], c)
                /\ v \in BOOLEAN => SameScan([c EXCEPT !.late = v], c)
<1> QED
  BY DEF PanelCall, SameScan

\* Main reads on in a scan.
LEMMA ScanGoesOn ==
  ASSUME IPanels, NEW c \in calls, Panels!Take(c) \/ Panels!ReadEnds(c) PROVE IPanels'
<1>1. PanelCall(c) /\ c.panel \in {"rail", "palette"}
  BY DEF IPanels, Panels!Take, Panels!ReadEnds, Panels!Scanning
<1>2. \A d, e : SameScan(d, c) /\ SameScan(e, d) => SameScan(e, c)
  BY DEF SameScan
<1>3. \E d : Panels!Becomes(c, d) /\ SameScan(d, c)
  <2>1. CASE Panels!Take(c)
    <3> DEFINE on == [c EXCEPT !.next = @ + 1]
    <3>1. SameScan(on, c)
      BY <1>1, ScanAmended
    <3>2. PanelCall(on) /\ on.panel \in {"rail", "palette"}
      BY <3>1 DEF SameScan
    <3>3. \E d : Panels!Becomes(c, d) /\ (d = on \/ d = [on EXCEPT !.late = TRUE]
                                          \/ \E S : d = [on EXCEPT !.reading = S])
      BY <2>1 DEF Panels!Take
    <3> HIDE DEF on
    <3>4. SameScan([on EXCEPT !.late = TRUE], on) /\ \A S : SameScan([on EXCEPT !.reading = S], on)
      BY <3>2, ScanAmended
    <3> QED
      BY <1>2, <3>1, <3>3, <3>4
  <2>2. CASE Panels!ReadEnds(c)
    <3>1. PICK n \in c.reading :
              LET on == [c EXCEPT !.reading = @ \ {n}]
              IN \/ Panels!Becomes(c, [on EXCEPT !.unread = @ \cup {n}])
                 \/ Panels!Becomes(c, [on EXCEPT !.found = @ \cup ({n} \cap Holding[c.of])])
      BY <2>2 DEF Panels!ReadEnds
    <3> DEFINE on == [c EXCEPT !.reading = @ \ {n}]
    <3>2. SameScan(on, c)
      BY <1>1, ScanAmended
    <3>3. PanelCall(on) /\ on.panel \in {"rail", "palette"}
      BY <3>2 DEF SameScan
    <3>4. \E d : Panels!Becomes(c, d) /\ \E S : d = [on EXCEPT !.unread = S] \/ d = [on EXCEPT !.found = S]
      BY <3>1
    <3> HIDE DEF on
    <3>5. \A S : SameScan([on EXCEPT !.unread = S], on) /\ SameScan([on EXCEPT !.found = S], on)
      BY <3>3, ScanAmended
    <3> QED
      BY <1>2, <3>2, <3>4, <3>5
  <2> QED
    BY <2>1, <2>2
<1>4. PICK d : calls' = (calls \ {c}) \cup {d} /\ SameScan(d, c)
  BY <1>3 DEF Panels!Becomes
<1>5. UNCHANGED <<asks, rail, palette, links>>
  BY DEF Panels!Take, Panels!ReadEnds
<1>6. \A e \in calls' : PanelCall(e) /\ \E q \in calls : q.id = e.id /\ q.of = e.of /\ e.panel \in {q.panel, "tagged"}
  BY <1>4 DEF SameScan, IPanels
<1> QED
  BY <1>5, <1>6, QuestionsGo DEF IPanels

\* A scan ends or fails: its panel draws the answer if it still waits for it.
LEMMA ScanAnswers ==
  ASSUME IPanels, NEW c \in calls, Panels!ScanEnds(c) \/ Panels!ScanFails(c) PROVE IPanels'
<1>1. PanelCall(c) /\ c.panel \in {"rail", "palette"}
  BY DEF IPanels, Panels!ScanEnds, Panels!ScanFails, Panels!Scanning
<1>2. calls' = calls \ {c} /\ asks' = asks
  BY DEF Panels!ScanEnds, Panels!ScanFails
<1>3. PICK reply : reply.of = c.of /\ \E failed \in BOOLEAN : Panels!Answered(c, reply, failed)
  <2>1. CASE Panels!ScanEnds(c)
    BY <2>1 DEF Panels!ScanEnds, Panels!Reply
  <2>2. CASE Panels!ScanFails(c)
    BY <2>2 DEF Panels!ScanFails, Panels!Nothing
  <2> QED
    BY <2>1, <2>2
<1>4. /\ \A e \in calls' : PanelCall(e) /\ e.id \in 1..asks
      /\ RailSound(rail, calls', asks) /\ PaletteSound(palette, calls', asks) /\ LinksSound(links, calls', asks)
  <2>1. \A e \in calls' : PanelCall(e) /\ \E q \in calls : q.id = e.id /\ q.of = e.of /\ e.panel \in {q.panel, "tagged"}
    BY <1>2 DEF IPanels
  <2> QED
    BY <1>2, <2>1, QuestionsGo
<1>5. CASE c.panel = "rail"
  <2>1. rail' = (IF Panels!Expected(c.id) THEN [rail EXCEPT !.result = reply, !.searching = FALSE] ELSE rail)
        /\ palette' = palette /\ links' = links
    BY <1>3, <1>5 DEF Panels!Answered, Panels!RailAnswered
  <2>2. CASE Panels!Expected(c.id)
    <3>1. rail' = [rail EXCEPT !.result = reply, !.searching = FALSE]
      BY <2>1, <2>2
    <3>2. rail.word # Empty => reply.of = rail.word
      BY <1>3, <1>5, <2>2 DEF IPanels, RailSound, TicketIs, Panels!Expected
    <3>3. \A r : r = [rail EXCEPT !.result = reply, !.searching = FALSE] => RailSound(r, calls', asks)
      BY <1>4, <3>2 DEF RailSound
    <3> QED
      BY <1>2, <1>4, <2>1, <3>1, <3>3 DEF IPanels
  <2> QED
    BY <1>2, <1>4, <2>1, <2>2 DEF IPanels
<1>6. CASE c.panel = "palette"
  <2>0. PICK failed \in BOOLEAN : Panels!Answered(c, reply, failed)
    BY <1>3
  <2>1. palette' = (IF ~Panels!Current(c.id) THEN palette
                    ELSE [palette EXCEPT !.searching = FALSE, !.missed = failed,
                                         !.answer = IF failed THEN @ ELSE reply])
        /\ rail' = rail /\ links' = links
    BY <2>0, <1>6 DEF Panels!Answered, Panels!PaletteAnswered
  <2>2. CASE Panels!Current(c.id)
    <3> DEFINE answer == IF failed THEN palette.answer ELSE reply
    <3>1. palette' = [palette EXCEPT !.searching = FALSE, !.missed = failed, !.answer = answer]
      BY <2>1, <2>2
    <3>2. ~failed => answer.of = palette.word
      BY <1>3, <1>6, <2>2 DEF IPanels, PaletteSound, TicketIs, Panels!Current
    <3> HIDE DEF answer
    <3>3. \A p : p = [palette EXCEPT !.searching = FALSE, !.missed = failed, !.answer = answer]
                    => PaletteSound(p, calls', asks)
      BY <2>0, <1>4, <3>2 DEF PaletteSound
    <3> QED
      BY <1>2, <1>4, <2>1, <3>1, <3>3 DEF IPanels
  <2> QED
    BY <1>2, <1>4, <2>1, <2>2 DEF IPanels
<1> QED
  BY <1>1, <1>5, <1>6

\* A note's links come in.
LEMMA LinksArriveKeeps == ASSUME IPanels, NEW c \in calls, Panels!LinksArrive(c) PROVE IPanels'
<1>1. calls' = calls \ {c} /\ UNCHANGED <<asks, rail, palette>> /\ c.panel = "links"
  BY DEF Panels!LinksArrive
<1>2. \A e \in calls' : PanelCall(e) /\ \E q \in calls : q.id = e.id /\ q.of = e.of /\ e.panel \in {q.panel, "tagged"}
  BY <1>1 DEF IPanels
<1>3. /\ \A e \in calls' : PanelCall(e) /\ e.id \in 1..asks
      /\ RailSound(rail, calls', asks) /\ PaletteSound(palette, calls', asks) /\ LinksSound(links, calls', asks)
  BY <1>1, <1>2, QuestionsGo
<1>4. CASE Panels!Live(c.id)
  <2>1. links' = [links EXCEPT !.drawn = c.of, !.loading = FALSE]
    BY <1>4 DEF Panels!LinksArrive
  <2>2. c.of = links.of
    BY <1>1, <1>4 DEF IPanels, LinksSound, TicketIs, Panels!Live
  <2>3. \A l : l = [links EXCEPT !.drawn = c.of, !.loading = FALSE] => LinksSound(l, calls', asks)
    BY <1>3, <2>2 DEF LinksSound
  <2> QED
    BY <1>1, <1>3, <2>1, <2>3 DEF IPanels
<1>5. CASE ~Panels!Live(c.id)
  BY <1>1, <1>3, <1>5 DEF Panels!LinksArrive, IPanels
<1> QED
  BY <1>4, <1>5

\* The tags come in, or the notes of one are asked for next.
LEMMA TagsArriveKeeps == ASSUME IPanels, NEW c \in calls, Panels!TagsArrive(c) PROVE IPanels'
<1> DEFINE d == [c EXCEPT !.panel = "tagged"]
<1>1. UNCHANGED <<asks, rail, palette, links>> /\ c.panel \in {"tags", "tagged"}
  BY DEF Panels!TagsArrive
<1>2. PanelCall(c)
  BY DEF IPanels
<1>3. PanelCall(d) /\ d.id = c.id /\ d.of = c.of /\ d.panel = "tagged"
  BY <1>1, <1>2 DEF PanelCall
<1>4. calls' \in {calls \ {c}, (calls \ {c}) \cup {d}}
  BY DEF Panels!TagsArrive, Panels!Becomes
<1> HIDE DEF d
<1>5. \A e \in calls' : PanelCall(e) /\ \E q \in calls : q.id = e.id /\ q.of = e.of /\ e.panel \in {q.panel, "tagged"}
  BY <1>3, <1>4 DEF IPanels
<1> QED
  BY <1>1, <1>5, QuestionsGo DEF IPanels

\* However fast the reader types, moves and closes, and in whatever order main
\* answers, a panel that says it is done draws the answer to what is in its
\* field (RailSearch.tsx:59, QuickOpen.tsx:150, RailLinks.tsx:65).
THEOREM PanelsDrawTheirAnswers == Panels!Spec => []AnswersBelong
<1>1. Panels!Init => IPanels
  <2> SUFFICES ASSUME Panels!Init PROVE IPanels
    OBVIOUS
  <2>1. RailSound(rail, calls, asks)
    BY FreshIsSound DEF Panels!Init
  <2>2. PaletteSound(palette, calls, asks)
    BY DEF Panels!Init, PaletteSound, TicketIs
  <2>3. LinksSound(links, calls, asks)
    BY DEF Panels!Init, LinksSound, TicketIs
  <2> QED
    BY <2>1, <2>2, <2>3 DEF Panels!Init, IPanels
<1>2. IPanels /\ [Panels!Next]_(Panels!vars) => IPanels'
  <2> SUFFICES ASSUME IPanels, [Panels!Next]_(Panels!vars) PROVE IPanels'
    OBVIOUS
  <2>1. CASE Panels!RailTypes \/ Panels!RailOpens \/ Panels!RailAsks
    BY <2>1, RailTypesKeeps, RailOpensKeeps, RailAsksKeeps
  <2>2. CASE Panels!PaletteChanges \/ Panels!PaletteAsks
    BY <2>2, PaletteChangesKeeps, PaletteAsksKeeps
  <2>3. CASE Panels!LinksFollow \/ Panels!BrowseTags
    BY <2>3, LinksFollowKeeps, BrowseTagsKeeps
  <2>4. ASSUME NEW c \in calls, \/ Panels!Take(c) \/ Panels!ReadEnds(c) \/ Panels!ScanEnds(c) \/ Panels!ScanFails(c)
                                \/ Panels!LinksArrive(c) \/ Panels!TagsArrive(c)
        PROVE  IPanels'
    BY <2>4, ScanGoesOn, ScanAnswers, LinksArriveKeeps, TagsArriveKeeps
  <2>5. CASE Panels!TagsClose \/ UNCHANGED Panels!vars
    BY <2>5 DEF Panels!TagsClose, Panels!vars, IPanels
  <2> QED
    BY <2>1, <2>2, <2>3, <2>4, <2>5 DEF Panels!Next, Panels!Goes
<1>3. IPanels => AnswersBelong
  BY DEF IPanels, RailSound, PaletteSound, LinksSound, AnswersBelong, Panels!AnswersBelong
<1> QED
  BY <1>1, <1>2, <1>3, PTL DEF Panels!Spec
=============================================================================
