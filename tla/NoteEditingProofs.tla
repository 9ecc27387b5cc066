-------------------------- MODULE NoteEditingProofs -------------------------
(***************************************************************************)
(* What NoteEditing promises of the window and the store, for any texts    *)
(* and any bounds, with any number of requests and answers on their way:   *)
(* the token names the base, and an answered save is honest.  And what     *)
(* Enrichment promises of a note's stand-ins: swapping them is no edit.    *)
(* And what SparseView promises of a long note's page: it adds up.         *)
(*                                                                         *)
(* Neither of the first two is inductive, for the two sides meet only      *)
(* through the channels.  The first needs what each answer still on its    *)
(* way will leave: a text Stands where it is the base once so many answers *)
(* are taken.  The second follows a capture from the request through the   *)
(* store to the answer.                                                    *)
(***************************************************************************)
EXTENDS NoteEditing, NoteStandIns, MC_SparseView, SequenceTheorems, WellFoundedInduction, TLAPS

(***************************************************************************)
(* The token names the base.                                               *)
(***************************************************************************)
\* An answer that makes the editor's base the text it names.
Rebases(m) == m.kind = "reloaded" \/ (m.kind = "outcome" /\ m.status \in Accepts)

\* The text an answer leaves as the base.
BaseAfter(base, m) == IF Rebases(m) THEN m.token.doc ELSE base

\* A text is the base once the window has taken the first n answers of a queue.
Stands(base, queue, n, text) ==
    \/ base = text /\ \A j \in 1..n : ~Rebases(queue[j])
    \/ \E j \in 1..n : /\ Rebases(queue[j]) /\ queue[j].token.doc = text
                       /\ \A k \in (j + 1)..n : ~Rebases(queue[k])

\* A token sent on its own names the base it will find, and the store's text
\* is the base once everything sent is taken.
IBase ==
    /\ TokenNamesBase
    /\ \A i \in 1..Len(toPage) :
        toPage[i].kind = "rebased" => Stands(ed.base, toPage, i - 1, toPage[i].token.doc)
    /\ Stands(ed.base, toPage, Len(toPage), doc)

(***************************************************************************)
(* A save is honest.                                                       *)
(***************************************************************************)
\* The capture is one that was taken, and its text is on screen unless
\* something moved since.
Vouched(e, saves, capture, text) ==
    /\ capture \in 1..saves
    /\ capture \in e.captures \ e.overtaken => e.text = text

IsSave(request) == request.kind = "save"

\* An acceptance that names the capture it is of.
Attests(m) == Rebases(m) /\ m.kind = "outcome" /\ m.capture # None

\* Wherever a capture has got to: on its way, in the store or answered.
IHonest ==
    /\ ed.overtaken \subseteq ed.captures /\ ed.captures \subseteq 1..spent.saves
    /\ \A i \in 1..Len(toMain) : IsSave(toMain[i]) =>
           Vouched(ed, spent.saves, toMain[i].capture, toMain[i].text)
    /\ txn # None /\ IsSave(txn) => Vouched(ed, spent.saves, txn.capture, txn.text)
    /\ \A i \in 1..Len(toPage) :
        Attests(toPage[i]) =>
            Vouched(ed, spent.saves, toPage[i].capture, toPage[i].token.doc)

\* A recovery runs for a record.
IRecord == txn # None /\ txn.kind = "recover" => record # None

-----------------------------------------------------------------------------
(***************************************************************************)
(* Types.                                                                  *)
(***************************************************************************)
\* The store's token after a step is a token.
LEMMA TokenIsToken == TypeOK' => CurrentToken' \in Token
BY DEF TypeOK, CurrentToken, Token, Version

\* A refusal is a message.
LEMMA OutcomeIsMessage ==
  ASSUME NEW request \in Request, NEW status \in Refusals
  PROVE  Outcome(request, status) \in Message
<1>1. (record' # None) \in BOOLEAN
  OBVIOUS
<1>2. request.kind = "save" => request.capture \in Nat
  BY DEF Request
<1> QED
  BY <1>1, <1>2 DEF Outcome, Message

\* An acceptance is a message.
LEMMA AcceptedIsMessage ==
  ASSUME NEW request \in Request, NEW status \in Accepts, CurrentToken' \in Token
  PROVE  AcceptedOutcome(request, status) \in Message
<1>1. (status = "cleanup-failed") \in BOOLEAN
  OBVIOUS
<1>2. request.kind = "save" => request.capture \in Nat
  BY DEF Request
<1> QED
  BY <1>1, <1>2 DEF AcceptedOutcome, Message

\* What each kind of answer carries.
LEMMA MessageFields ==
  ASSUME NEW m \in Message
  PROVE  /\ m.kind = "outcome" =>
              /\ m.capture \in Nat \cup {None} /\ m.barrier \in BOOLEAN
              /\ m.status \in Refusals \cup Accepts
              /\ m.status \in Accepts => m.token \in Token
         /\ m.kind = "reloaded" => m.token \in Token
         /\ m.kind = "rebased" => m.token \in Token
BY DEF Message, Refusals, Accepts

\* A change of the document leaves an editor.
LEMMA ChangedIsEditor ==
  ASSUME NEW e \in Editor, NEW text \in Texts
  PROVE  Changed(e, text) \in Editor
BY DEF Changed, Editor

\* A commit leaves an editor.
LEMMA CommittedIsEditor ==
  ASSUME NEW e \in Editor, NEW text \in Texts, NEW capture \in Nat \cup {None}
  PROVE  Committed(e, text, capture) \in Editor
<1>1. MovedSince(e, capture) \in BOOLEAN
  BY DEF MovedSince
<1> HIDE DEF MovedSince
<1> QED
  BY <1>1, ZenonT(30) DEF Committed, Editor

\* So does a save given up.
LEMMA AbandonedIsEditor ==
  ASSUME NEW e \in Editor, NEW capture \in Nat
  PROVE  Abandoned(e, capture) \in Editor
BY DEF Abandoned, Editor

\* A report of dirt leaves a record.
LEMMA ReportedIsPage ==
  ASSUME NEW p \in Page, NEW dirty \in BOOLEAN
  PROVE  Reported(p, dirty) \in Page
BY DEF Reported, Page, States

\* So does an outcome presented.
LEMMA PresentedIsPage ==
  ASSUME NEW p \in Page, NEW m \in Message, m.kind = "outcome"
  PROVE  Presented(p, m) \in Page
<1>1. m.barrier \in BOOLEAN
  BY MessageFields
<1>2. Shown(m.status) \in States
  BY DEF Shown, States
<1> QED
  BY <1>1, <1>2 DEF Presented, Page

\* Every budget is spent one at a time.
LEMMA SpendIsBudget ==
  ASSUME NEW s \in Budget
  PROVE  /\ [s EXCEPT !.edits = @ + 1] \in Budget
         /\ [s EXCEPT !.saves = @ + 1] \in Budget
         /\ [s EXCEPT !.foreign = @ + 1] \in Budget
         /\ [s EXCEPT !.faults = @ + 1] \in Budget
         /\ [s EXCEPT !.reloads = @ + 1] \in Budget
         /\ [s EXCEPT !.recoveries = @ + 1] \in Budget
<1>1. {s.edits + 1, s.saves + 1, s.foreign + 1, s.faults + 1, s.reloads + 1, s.recoveries + 1}
      \subseteq Nat
  BY DEF Budget
<1> QED
  BY <1>1 DEF Budget

\* The note is opened from what is on disk.
LEMMA TypeInit == Init => TypeOK
<1> SUFFICES ASSUME Init PROVE TypeOK
  OBVIOUS
<1> USE ConstantsAssumption
<1>1. disk \in Version /\ accepted \in Version /\ nextId \in Nat
  BY DEF Init, Version
<1>2. ed \in Editor
  BY DEF Init, Editor
<1>3. CurrentToken \in Token
  BY DEF Init, CurrentToken, Token
<1>4. page \in Page
  BY <1>3 DEF Init, Page, States
<1>5. spent \in Budget
  BY DEF Init, Budget
<1>6. toMain \in Seq(Request) /\ toPage \in Seq(Message)
  BY DEF Init
<1> QED
  BY <1>1, <1>2, <1>4, <1>5, <1>6 DEF Init, TypeOK

\* Every step keeps the types.
LEMMA TypeStep == TypeOK /\ IRecord /\ [Next]_vars => TypeOK'
<1> SUFFICES ASSUME TypeOK, IRecord, [Next]_vars PROVE TypeOK'
  OBVIOUS
<1> USE ConstantsAssumption DEF fileVars, storeVars
<1>1. ASSUME NEW text \in Texts, Edit(text) PROVE TypeOK'
  <2>1. ed' \in Editor
    BY <1>1, ChangedIsEditor DEF Edit, TypeOK
  <2>2. page' \in Page
    BY <1>1, <2>1, ReportedIsPage DEF Edit, TypeOK, Editor
  <2> QED
    BY <1>1, <2>1, <2>2, SpendIsBudget DEF Edit, TypeOK
<1>2. CASE Save
  <2>1. spent.saves + 1 \in Nat
    BY DEF TypeOK, Budget
  <2>2. ed' \in Editor
    BY <1>2, <2>1 DEF Save, TypeOK, Editor
  <2>3. [kind |-> "save", token |-> page.token, base |-> ed.base, text |-> ed.text,
         capture |-> spent.saves + 1] \in Request
    BY <2>1 DEF TypeOK, Editor, Page, Request
  <2>4. toMain' \in Seq(Request)
    BY <1>2, <2>3, AppendProperties DEF Save, Ask, TypeOK
  <2>5. page' \in Page
    BY <1>2 DEF Save, TypeOK, Page, States
  <2> QED
    BY <1>2, <2>1, <2>2, <2>4, <2>5 DEF Save, TypeOK, Budget
<1>3. CASE AskReload
  <2>1. [kind |-> "reload", confirmed |-> page.dirty] \in Request
    BY DEF TypeOK, Page, Request
  <2>2. toMain' \in Seq(Request)
    BY <1>3, <2>1, AppendProperties DEF AskReload, Ask, TypeOK
  <2> QED
    BY <1>3, <2>2, SpendIsBudget DEF AskReload, TypeOK
<1>4. CASE AskRecovery
  <2>1. [kind |-> "recover"] \in Request
    BY DEF Request
  <2>2. toMain' \in Seq(Request)
    BY <1>4, <2>1, AppendProperties DEF AskRecovery, Ask, TypeOK
  <2>3. page' \in Page
    BY <1>4 DEF AskRecovery, TypeOK, Page
  <2> QED
    BY <1>4, <2>2, <2>3, SpendIsBudget DEF AskRecovery, TypeOK
<1>5. CASE Take
  <2>1. Head(toMain) \in Request /\ toMain' \in Seq(Request)
    BY <1>5, HeadTailProperties DEF Take, TypeOK
  <2>2. [kind |-> "refused"] \in Message
    BY DEF Message
  <2>3. txn' \in Request \cup {None} /\ toPage' \in Seq(Message)
    <3> DEFINE request == Head(toMain)
    <3> HIDE DEF request
    <3>1. \A status \in Refusals : Outcome(request, status) \in Message
      BY <2>1, OutcomeIsMessage DEF request
    <3>2. \/ txn' = request /\ UNCHANGED toPage
          \/ UNCHANGED txn /\ \E m \in Message : Send(m)
      BY <1>5, <2>2, <3>1 DEF Take, Refusals, request
    <3>3. txn \in Request \cup {None} /\ toPage \in Seq(Message) /\ request \in Request
      BY <2>1 DEF TypeOK, request
    <3>4. ASSUME NEW m \in Message, Send(m) PROVE toPage' \in Seq(Message)
      BY <3>3, <3>4, AppendProperties DEF Send
    <3> QED
      BY <3>2, <3>3, <3>4
  <2> QED
    BY <1>5, <2>1, <2>3 DEF Take, TypeOK
<1>6. CASE EndSave
  <2>1. /\ disk' \in Version /\ nextId' \in Nat /\ accepted' \in Version /\ doc' \in Texts
        /\ rev' \in Nat /\ record' \in Record \cup {None} /\ spent' \in Budget
    <3>1. txn.text \in Texts /\ [text |-> txn.text, over |-> accepted.id] \in Record
      BY <1>6 DEF EndSave, TypeOK, Request, Version, Record
    <3>2. nextId \in Nat /\ nextId + 1 \in Nat /\ rev + 1 \in Nat
      BY DEF TypeOK
    <3>3. [id |-> nextId, text |-> txn.text] \in Version
      BY <3>1, <3>2 DEF Version
    <3>4. spent' \in Budget
      BY <1>6, SpendIsBudget DEF EndSave, Fail, TypeOK
    <3> QED
      BY <1>6, <3>1, <3>2, <3>3, <3>4 DEF EndSave, Accept, TypeOK
  <2>2. CurrentToken' \in Token
    BY <2>1 DEF CurrentToken, Token, Version
  <2>3. \E m \in Message : Send(m)
    <3>1. txn \in Request
      BY <1>6 DEF EndSave, TypeOK
    <3>2. \A status \in Refusals : Outcome(txn, status) \in Message
      BY <3>1, OutcomeIsMessage
    <3>3. \A status \in Accepts : AcceptedOutcome(txn, status) \in Message
      BY <2>2, <3>1, AcceptedIsMessage
    <3> QED
      BY <1>6, <3>2, <3>3 DEF EndSave, Refusals, Accepts
  <2>4. toPage' \in Seq(Message)
    BY <2>3, AppendProperties DEF Send, TypeOK
  <2> QED
    BY <1>6, <2>1, <2>4 DEF EndSave, TypeOK
<1>7. CASE EndRecovery
  <2>1. /\ disk' \in Version /\ nextId' \in Nat /\ accepted' \in Version /\ doc' \in Texts
        /\ rev' \in Nat /\ record' \in Record \cup {None} /\ spent' \in Budget
    <3>1. record \in Record /\ record.text \in Texts
      BY <1>7 DEF EndRecovery, IRecord, TypeOK, Record
    <3>2. nextId \in Nat /\ nextId + 1 \in Nat /\ rev + 1 \in Nat
      BY DEF TypeOK
    <3>3. [id |-> nextId, text |-> record.text] \in Version
      BY <3>1, <3>2 DEF Version
    <3>4. spent' \in Budget
      BY <1>7, SpendIsBudget DEF EndRecovery, Fail, TypeOK
    <3> QED
      BY <1>7, <3>1, <3>2, <3>3, <3>4 DEF EndRecovery, Accept, TypeOK
  <2>2. CurrentToken' \in Token
    BY <2>1 DEF CurrentToken, Token, Version
  <2>3. \E m \in Message : Send(m)
    <3>1. txn \in Request
      BY <1>7 DEF EndRecovery, TypeOK
    <3>2. \A status \in Refusals : Outcome(txn, status) \in Message
      BY <3>1, OutcomeIsMessage
    <3>3. \A status \in Accepts : AcceptedOutcome(txn, status) \in Message
      BY <2>2, <3>1, AcceptedIsMessage
    <3> QED
      BY <1>7, <3>2, <3>3 DEF EndRecovery, Refusals, Accepts
  <2>4. toPage' \in Seq(Message)
    BY <2>3, AppendProperties DEF Send, TypeOK
  <2> QED
    BY <1>7, <2>1, <2>4 DEF EndRecovery, TypeOK
<1>8. CASE EndReload
  <2>1. accepted' \in Version /\ doc' \in Texts /\ rev' \in Nat /\ txn.confirmed \in BOOLEAN
    BY <1>8 DEF EndReload, TypeOK, Version, Request
  <2>2. CurrentToken' \in Token
    BY <2>1 DEF CurrentToken, Token, Version
  <2>3. \E m \in Message : Send(m)
    BY <1>8, <2>1, <2>2 DEF EndReload, Message
  <2>4. toPage' \in Seq(Message)
    BY <2>3, AppendProperties DEF Send, TypeOK
  <2> QED
    BY <1>8, <2>1, <2>4 DEF EndReload, TypeOK
<1>9. CASE Check
  <2>1. accepted' \in Version /\ told' \in Nat
    BY <1>9 DEF Check, TypeOK, Version
  <2>2. CurrentToken' \in Token
    BY <1>9, <2>1 DEF Check, CurrentToken, Token, Version, TypeOK
  <2>3. \E m \in Message : Send(m)
    BY <1>9, <2>2 DEF Check, Message
  <2>4. toPage' \in Seq(Message)
    BY <2>3, AppendProperties DEF Send, TypeOK
  <2> QED
    BY <1>9, <2>1, <2>4 DEF Check, TypeOK
<1>10. ASSUME NEW text \in Texts, ForeignWrite(text) PROVE TypeOK'
  <2>1. nextId \in Nat /\ nextId + 1 \in Nat /\ disk' \in Version
    BY <1>10 DEF ForeignWrite, TypeOK, Version
  <2> QED
    BY <1>10, <2>1, SpendIsBudget DEF ForeignWrite, TypeOK
<1>11. CASE Receive
  <2> DEFINE message == Head(toPage)
  <2>1. message \in Message /\ toPage' \in Seq(Message)
    BY <1>11, HeadTailProperties DEF Receive, TypeOK
  <2>2. ed \in Editor /\ page \in Page /\ ed.base \in Texts /\ ed.dirty \in BOOLEAN
    BY DEF TypeOK, Editor
  <2> HIDE DEF message
  <2>3. ASSUME NEW text \in Texts PROVE Committed(Changed(ed, text), text, None) \in Editor
    BY <2>2, ChangedIsEditor, CommittedIsEditor
  <2>4. CASE message.kind = "outcome"
    <3>1. TakeOutcome(message) /\ UNCHANGED <<toMain, discarded>>
      BY <1>11, <2>4 DEF Receive, message
    <3>2. Presented(page, message) \in Page
      BY <2>1, <2>2, <2>4, PresentedIsPage
    <3>3. CASE message.status \in Accepts
      <4>1. /\ message.token \in Token /\ message.token.doc \in Texts
            /\ message.capture \in Nat \cup {None}
        BY <2>1, <2>4, <3>3, MessageFields DEF Token
      <4>2. ed' \in Editor
        BY <2>2, <3>1, <3>3, <4>1, CommittedIsEditor DEF TakeOutcome
      <4>3. [Presented(page, message) EXCEPT !.token = message.token, !.clean = "Saved"] \in Page
        BY <3>2, <4>1 DEF Page
      <4>4. ed'.dirty \in BOOLEAN
        BY <4>2 DEF Editor
      <4>5. page' \in Page
        BY <3>1, <3>3, <4>3, <4>4, ReportedIsPage DEF TakeOutcome, AfterCommit
      <4> QED
        BY <1>11, <2>1, <3>1, <4>2, <4>5 DEF Receive, TypeOK
    <3>4. CASE message.status \notin Accepts
      <4>1. message.capture \in Nat \cup {None}
        BY <2>1, <2>4, MessageFields
      <4>2. ed' \in Editor /\ page' \in Page
        BY <2>2, <3>1, <3>2, <3>4, <4>1, AbandonedIsEditor DEF TakeOutcome
      <4> QED
        BY <1>11, <2>1, <3>1, <4>2 DEF Receive, TypeOK
    <3> QED
      BY <3>3, <3>4
  <2>5. CASE message.kind = "reloaded"
    <3>1. TakeReloaded(message) /\ UNCHANGED toMain
      BY <1>11, <2>5 DEF Receive, message
    <3>2. message.token \in Token /\ message.token.doc \in Texts
      BY <2>1, <2>5, MessageFields DEF Token
    <3>3. ed' \in Editor /\ discarded' \in BOOLEAN
      BY <2>3, <3>1, <3>2 DEF TakeReloaded, Replaced, TypeOK
    <3>4. page' \in Page
      BY <2>2, <3>1, <3>2 DEF TakeReloaded, Page, States
    <3> QED
      BY <1>11, <2>1, <3>1, <3>3, <3>4 DEF Receive, TypeOK
  <2>6. CASE message.kind = "unchanged"
    <3>1. TakeUnchanged /\ UNCHANGED toMain
      BY <1>11, <2>6 DEF Receive, message
    <3>2. ed' \in Editor /\ discarded' \in BOOLEAN
      BY <2>2, <2>3, <3>1 DEF TakeUnchanged, Replaced, TypeOK
    <3>3. page' \in Page
      BY <2>2, <3>1 DEF TakeUnchanged, Page, States
    <3> QED
      BY <1>11, <2>1, <3>1, <3>2, <3>3 DEF Receive, TypeOK
  <2>7. CASE message.kind = "refused"
    BY <1>11, <2>1, <2>7 DEF Receive, TypeOK, message
  <2>8. CASE message.kind = "rebased"
    <3>1. TakeRebased(message) /\ UNCHANGED <<toMain, ed, discarded>>
      BY <1>11, <2>8 DEF Receive, message
    <3>2. page' \in Page
      BY <2>1, <2>2, <2>8, <3>1, MessageFields DEF TakeRebased, Page, States
    <3> QED
      BY <1>11, <2>1, <3>1, <3>2 DEF Receive, TypeOK
  <2>9. CASE message.kind = "changed"
    <3>1. TakeChanged /\ UNCHANGED <<ed, discarded>>
      BY <1>11, <2>9 DEF Receive, message
    <3>2. [kind |-> "reload", confirmed |-> FALSE] \in Request
      BY DEF Request
    <3>3. toMain' \in Seq(Request)
      <4>1. toMain \in Seq(Request)
        BY DEF TypeOK
      <4>2. \/ toMain' = Append(toMain, [kind |-> "reload", confirmed |-> FALSE])
            \/ toMain' = toMain
        BY <3>1 DEF TakeChanged, Ask
      <4> QED
        BY <3>2, <4>1, <4>2, AppendProperties, SMTT(30)
    <3>4. page' \in Page
      BY <2>2, <3>1 DEF TakeChanged, Page, States
    <3> QED
      BY <1>11, <2>1, <3>1, <3>3, <3>4 DEF Receive, TypeOK
  <2> QED
    BY <1>11, <2>4, <2>5, <2>6, <2>7, <2>8, <2>9 DEF Receive, message
<1>12. CASE UNCHANGED vars
  BY <1>12 DEF vars, TypeOK
<1> QED
  BY <1>1, <1>2, <1>3, <1>4, <1>5, <1>6, <1>7, <1>8, <1>9, <1>10, <1>11, <1>12 DEF Next

-----------------------------------------------------------------------------
(***************************************************************************)
(* What the answers on their way leave.                                    *)
(***************************************************************************)
\* A later answer changes nothing of what the earlier ones leave as the base.
LEMMA StandsAppend ==
  ASSUME NEW q \in Seq(Message), NEW m \in Message, NEW base, NEW text,
         NEW n \in 0..Len(q), Stands(base, q, n, text)
  PROVE  Stands(base, Append(q, m), n, text)
<1>1. \A j \in 1..n : Append(q, m)[j] = q[j]
  BY AppendProperties
<1> QED
  BY <1>1 DEF Stands

\* The last answer sent leaves the base it names, if it names one.
LEMMA StandsLast ==
  ASSUME NEW q \in Seq(Message), NEW m \in Message, NEW base, NEW text,
         Stands(base, q, Len(q), text)
  PROVE  Stands(base, Append(q, m), Len(Append(q, m)), BaseAfter(text, m))
<1>1. /\ Len(q) \in Nat /\ Len(Append(q, m)) = Len(q) + 1
      /\ Append(q, m)[Len(q) + 1] = m
      /\ \A j \in 1..Len(q) : Append(q, m)[j] = q[j]
  BY AppendProperties, LenProperties
<1> HIDE DEF Rebases
<1>2. CASE Rebases(m)
  BY <1>1, <1>2 DEF Stands, BaseAfter
<1>3. CASE ~Rebases(m)
  <2>1. BaseAfter(text, m) = text
    BY <1>3 DEF BaseAfter
  <2>2. \A j \in 1..(Len(q) + 1) : j \in 1..Len(q) \/ j = Len(q) + 1
    BY <1>1
  <2> QED
    BY <1>1, <1>3, <2>1, <2>2 DEF Stands
<1> QED
  BY <1>2, <1>3

\* Taking the first answer moves every claim about the queue one place on.
LEMMA StandsTail ==
  ASSUME NEW q \in Seq(Message), q # <<>>, NEW base, NEW text,
         NEW n \in 1..Len(q), Stands(base, q, n, text)
  PROVE  Stands(BaseAfter(base, Head(q)), Tail(q), n - 1, text)
<1>1. /\ Len(q) \in Nat /\ Len(Tail(q)) = Len(q) - 1 /\ Head(q) = q[1]
      /\ \A i \in 1..Len(Tail(q)) : Tail(q)[i] = q[i + 1]
  BY HeadTailProperties, LenProperties
<1>2. \A j \in 1..(n - 1) : j + 1 \in 2..n /\ Tail(q)[j] = q[j + 1]
  BY <1>1
<1>3. \A j \in 2..n : j - 1 \in 1..(n - 1) /\ Tail(q)[j - 1] = q[j]
  BY <1>1
<1>4. CASE base = text /\ \A j \in 1..n : ~Rebases(q[j])
  BY <1>1, <1>2, <1>4 DEF Stands, BaseAfter
<1>5. ASSUME NEW j \in 1..n, Rebases(q[j]), q[j].token.doc = text,
             \A k \in (j + 1)..n : ~Rebases(q[k])
      PROVE  Stands(BaseAfter(base, Head(q)), Tail(q), n - 1, text)
  <2>1. CASE j = 1
    <3>1. \A k \in 1..(n - 1) : ~Rebases(Tail(q)[k])
      BY <1>2, <1>5, <2>1
    <3> QED
      BY <1>1, <1>5, <2>1, <3>1 DEF Stands, BaseAfter
  <2>2. CASE j # 1
    <3>1. j - 1 \in 1..(n - 1) /\ Tail(q)[j - 1] = q[j]
      BY <1>3, <2>2
    <3>2. \A k \in ((j - 1) + 1)..(n - 1) : ~Rebases(Tail(q)[k])
      BY <1>2, <1>5
    <3> QED
      BY <1>5, <3>1, <3>2 DEF Stands
  <2> QED
    BY <2>1, <2>2
<1> QED
  BY <1>4, <1>5 DEF Stands

\* One answer is sent: it names the store's text if it names one, and it is
\* about a capture only if that capture's save ran.
Answers(m) ==
    /\ toPage' = Append(toPage, m)
    /\ doc' = BaseAfter(doc, m)
    /\ m.kind = "rebased" => m.token.doc = doc
    /\ Attests(m) =>
           txn # None /\ IsSave(txn) /\ m.capture = txn.capture /\ m.token.doc = txn.text

StoreStep == Take \/ EndSave \/ EndRecovery \/ EndReload \/ Check

\* A step of the store sends one answer at most, and changes its text only
\* with one that names it.
LEMMA StoreAnswers ==
  ASSUME TypeOK, TypeOK', StoreStep
  PROVE  UNCHANGED <<toPage, doc>> \/ \E m \in Message : Answers(m)
<1>1. CASE Take
  <2>1. Head(toMain) \in Request /\ doc' = doc
    BY <1>1, HeadTailProperties DEF Take, TypeOK, storeVars
  <2>2. [kind |-> "refused"] \in Message
    BY DEF Message
  <2> DEFINE request == Head(toMain)
  <2> HIDE DEF request
  <2>3. \A status \in Refusals : Outcome(request, status) \in Message
    BY <2>1, OutcomeIsMessage DEF request
  <2>4. \/ UNCHANGED toPage
        \/ \E m \in {Outcome(request, status) : status \in Refusals} \cup {[kind |-> "refused"]} :
               toPage' = Append(toPage, m)
    BY <1>1 DEF Take, Send, Refusals, request
  <2>5. \A m \in {Outcome(request, status) : status \in Refusals} \cup {[kind |-> "refused"]} :
            m.kind # "rebased" /\ ~Rebases(m)
    BY DEF Outcome, Rebases, Refusals, Accepts
  <2> QED
    BY <2>1, <2>2, <2>3, <2>4, <2>5 DEF Answers, BaseAfter, Attests
<1>2. CASE EndSave
  <2>1. txn \in Request /\ txn.kind = "save" /\ CurrentToken' \in Token
    BY <1>2, TokenIsToken DEF EndSave, TypeOK
  <2>2. CASE \E status \in Accepts : doc' = txn.text /\ Send(AcceptedOutcome(txn, status))
    <3>1. PICK status \in Accepts : doc' = txn.text /\ Send(AcceptedOutcome(txn, status))
      BY <2>2
    <3>2. AcceptedOutcome(txn, status) \in Message
      BY <2>1, AcceptedIsMessage
    <3>3. txn # None
      BY <1>2 DEF EndSave
    <3>4. Answers(AcceptedOutcome(txn, status))
      BY <2>1, <3>1, <3>3
         DEF Answers, Send, AcceptedOutcome, BaseAfter, Rebases, Attests, CurrentToken, IsSave,
             Accepts
    <3> QED
      BY <3>2, <3>4
  <2>3. CASE \E status \in Refusals : doc' = doc /\ Send(Outcome(txn, status))
    <3>1. PICK status \in Refusals : doc' = doc /\ Send(Outcome(txn, status))
      BY <2>3
    <3>2. Outcome(txn, status) \in Message
      BY <2>1, OutcomeIsMessage
    <3>3. Answers(Outcome(txn, status))
      BY <3>1 DEF Answers, Send, Outcome, BaseAfter, Rebases, Attests, Refusals, Accepts
    <3> QED
      BY <3>2, <3>3
  <2> QED
    BY <1>2, <2>2, <2>3 DEF EndSave, Accept, storeVars, Accepts, Refusals
<1>3. CASE EndRecovery
  <2>1. txn \in Request /\ txn.kind = "recover" /\ CurrentToken' \in Token
    BY <1>3, TokenIsToken DEF EndRecovery, TypeOK
  <2>2. CASE Send(AcceptedOutcome(txn, "saved"))
    <3>1. AcceptedOutcome(txn, "saved") \in Message
      BY <2>1, AcceptedIsMessage DEF Accepts
    <3>2. Answers(AcceptedOutcome(txn, "saved"))
      BY <2>1, <2>2
         DEF Answers, Send, AcceptedOutcome, BaseAfter, Rebases, Attests, CurrentToken, Accepts
    <3> QED
      BY <3>1, <3>2
  <2>3. CASE \E status \in Refusals : doc' = doc /\ Send(Outcome(txn, status))
    <3>1. PICK status \in Refusals : doc' = doc /\ Send(Outcome(txn, status))
      BY <2>3
    <3>2. Outcome(txn, status) \in Message
      BY <2>1, OutcomeIsMessage
    <3>3. Answers(Outcome(txn, status))
      BY <3>1 DEF Answers, Send, Outcome, BaseAfter, Rebases, Attests, Refusals, Accepts
    <3> QED
      BY <3>2, <3>3
  <2> QED
    BY <1>3, <2>2, <2>3 DEF EndRecovery, storeVars, Refusals
<1>4. CASE EndReload
  <2>1. CurrentToken' \in Token /\ txn.confirmed \in BOOLEAN
    BY <1>4, TokenIsToken DEF EndReload, TypeOK, Request
  <2>2. CASE doc' = doc /\ Send([kind |-> "unchanged", confirmed |-> txn.confirmed])
    <3>1. [kind |-> "unchanged", confirmed |-> txn.confirmed] \in Message
      BY <2>1 DEF Message
    <3>2. Answers([kind |-> "unchanged", confirmed |-> txn.confirmed])
      BY <2>2 DEF Answers, Send, BaseAfter, Rebases, Attests
    <3> QED
      BY <3>1, <3>2
  <2>3. CASE Send([kind |-> "reloaded", token |-> CurrentToken', confirmed |-> txn.confirmed])
    <3>1. [kind |-> "reloaded", token |-> CurrentToken', confirmed |-> txn.confirmed] \in Message
      BY <2>1 DEF Message
    <3>2. Answers([kind |-> "reloaded", token |-> CurrentToken', confirmed |-> txn.confirmed])
      BY <2>3 DEF Answers, Send, BaseAfter, Rebases, Attests, CurrentToken
    <3> QED
      BY <3>1, <3>2
  <2> QED
    BY <1>4, <2>2, <2>3 DEF EndReload
<1>5. CASE Check
  <2>1. CurrentToken' \in Token /\ doc' = doc
    BY <1>5, TokenIsToken DEF Check
  <2>2. CASE Send([kind |-> "rebased", token |-> CurrentToken'])
    <3>1. [kind |-> "rebased", token |-> CurrentToken'] \in Message
      BY <2>1 DEF Message
    <3>2. Answers([kind |-> "rebased", token |-> CurrentToken'])
      BY <2>1, <2>2 DEF Answers, Send, BaseAfter, Rebases, Attests, CurrentToken
    <3> QED
      BY <3>1, <3>2
  <2>3. CASE Send([kind |-> "changed"])
    <3>1. [kind |-> "changed"] \in Message
      BY DEF Message
    <3>2. Answers([kind |-> "changed"])
      BY <2>1, <2>3 DEF Answers, Send, BaseAfter, Rebases, Attests
    <3> QED
      BY <3>1, <3>2
  <2> QED
    BY <1>5, <2>2, <2>3 DEF Check
<1> QED
  BY <1>1, <1>2, <1>3, <1>4, <1>5 DEF StoreStep

\* What a step of the window leaves as the editor's base.
LEMMA WindowTakes ==
  ASSUME TypeOK, Receive
  PROVE  ed'.base = BaseAfter(ed.base, Head(toPage))
<1> DEFINE message == Head(toPage)
<1>1. message \in Message /\ ed \in Editor
  BY HeadTailProperties DEF Receive, TypeOK
<1> HIDE DEF message
<1>2. \A e \in Editor, text \in Texts : Changed(e, text).base = e.base
  BY DEF Changed, Editor
<1>3. \A e \in Editor : \A text, capture : Committed(e, text, capture).base = text
  BY DEF Committed, Editor
<1>4. \A e \in Editor : \A capture : Abandoned(e, capture).base = e.base
  BY DEF Abandoned, Editor
<1>5. message.kind = "reloaded" => message.token.doc \in Texts
  BY <1>1, MessageFields DEF Token
<1>6. CASE message.kind = "outcome"
  BY <1>1, <1>3, <1>4, <1>6 DEF Receive, TakeOutcome, BaseAfter, Rebases, message
<1>7. CASE message.kind = "reloaded"
  <2>1. Changed(ed, message.token.doc) \in Editor
    BY <1>1, <1>5, <1>7, ChangedIsEditor
  <2> QED
    BY <1>3, <1>7, <2>1 DEF Receive, TakeReloaded, Replaced, BaseAfter, Rebases, message
<1>8. CASE message.kind = "unchanged"
  <2>1. ed.base \in Texts
    BY <1>1 DEF Editor
  <2>2. Changed(ed, ed.base) \in Editor
    BY <1>1, <2>1, ChangedIsEditor
  <2>3. ~Rebases(message)
    BY <1>8 DEF Rebases
  <2> QED
    BY <1>3, <1>8, <2>2, <2>3 DEF Receive, TakeUnchanged, Replaced, BaseAfter, message
<1>9. CASE message.kind \in {"refused", "rebased", "changed"}
  <2>1. ~Rebases(message) /\ UNCHANGED ed
    BY <1>9 DEF Receive, Rebases, message
  <2> QED
    BY <2>1 DEF BaseAfter, message
<1> QED
  BY <1>6, <1>7, <1>8, <1>9 DEF Receive, message

\* At first the base is the token's, and no answer is on its way.
LEMMA BaseInit == Init => IBase
BY ConstantsAssumption DEF Init, IBase, TokenNamesBase, CurrentToken, Stands

\* Every step keeps the token, the base and the answers in line.
LEMMA BaseStep == TypeOK /\ TypeOK' /\ IBase /\ [Next]_vars => IBase'
<1> SUFFICES ASSUME TypeOK, TypeOK', IBase, [Next]_vars PROVE IBase'
  OBVIOUS
<1>a. toPage \in Seq(Message) /\ Len(toPage) \in Nat
  BY LenProperties DEF TypeOK
<1>1. CASE UNCHANGED <<ed.base, page.token, toPage, doc>>
  BY <1>1 DEF IBase, TokenNamesBase
<1>2. ASSUME NEW m \in Message, Answers(m), UNCHANGED <<ed, page>> PROVE IBase'
  <2>1. /\ Len(toPage') = Len(toPage) + 1 /\ toPage'[Len(toPage) + 1] = m
        /\ \A i \in 1..Len(toPage) : toPage'[i] = toPage[i]
    BY <1>2, <1>a, AppendProperties DEF Answers
  <2>2. Stands(ed.base, toPage', Len(toPage'), doc')
    BY <1>2, <1>a, StandsLast DEF Answers, IBase
  <2>3. ASSUME NEW i \in 1..Len(toPage'), toPage'[i].kind = "rebased"
        PROVE  Stands(ed.base, toPage', i - 1, toPage'[i].token.doc)
    <3>1. CASE i \in 1..Len(toPage)
      <4>1. Stands(ed.base, toPage, i - 1, toPage[i].token.doc)
        BY <2>1, <2>3, <3>1 DEF IBase
      <4>2. i - 1 \in 0..Len(toPage)
        BY <1>a, <3>1
      <4> QED
        BY <1>2, <1>a, <2>1, <3>1, <4>1, <4>2, StandsAppend DEF Answers
    <3>2. CASE i = Len(toPage) + 1
      <4>1. toPage'[i].token.doc = doc /\ i - 1 = Len(toPage)
        BY <1>2, <1>a, <2>1, <2>3, <3>2 DEF Answers
      <4>2. Len(toPage) \in 0..Len(toPage)
        BY <1>a
      <4> QED
        BY <1>2, <1>a, <4>1, <4>2, StandsAppend DEF Answers, IBase
    <3> QED
      BY <1>a, <2>1, <3>1, <3>2
  <2> QED
    BY <1>2, <2>2, <2>3 DEF IBase, TokenNamesBase
<1>3. CASE Receive
  <2> DEFINE message == Head(toPage)
  <2>1. /\ message \in Message /\ toPage # <<>> /\ toPage' = Tail(toPage) /\ doc' = doc
        /\ Len(toPage') = Len(toPage) - 1 /\ message = toPage[1]
        /\ \A i \in 1..Len(toPage') : toPage'[i] = toPage[i + 1]
    BY <1>3, <1>a, HeadTailProperties DEF Receive, storeVars
  <2>2. ed'.base = BaseAfter(ed.base, message)
    BY <1>3, WindowTakes
  <2>3. ASSUME NEW n \in 1..Len(toPage), NEW text, Stands(ed.base, toPage, n, text)
        PROVE  Stands(ed'.base, toPage', n - 1, text)
    BY <1>a, <2>1, <2>2, <2>3, StandsTail
  <2>4. Len(toPage) \in 1..Len(toPage)
    BY <1>a, <2>1, LenProperties, EmptySeq
  <2>5. Stands(ed'.base, toPage', Len(toPage'), doc')
    BY <2>1, <2>3, <2>4 DEF IBase
  <2>6. ASSUME NEW i \in 1..Len(toPage'), toPage'[i].kind = "rebased"
        PROVE  Stands(ed'.base, toPage', i - 1, toPage'[i].token.doc)
    <3>1. i + 1 \in 1..Len(toPage) /\ i \in 1..Len(toPage) /\ toPage'[i] = toPage[i + 1]
      BY <1>a, <2>1
    <3>2. Stands(ed.base, toPage, i, toPage[i + 1].token.doc)
      BY <2>6, <3>1 DEF IBase
    <3> QED
      BY <2>3, <3>1, <3>2
  <2>7. TokenNamesBase'
    <3> HIDE DEF message
    <3>1. page.token.doc = ed.base /\ page \in Page
      BY DEF IBase, TokenNamesBase, TypeOK
    <3>2. \A p \in Page : \A d : Reported(p, d).token = p.token
      BY DEF Reported, Page
    <3>3. CASE message.kind = "outcome"
      <4>1. Presented(page, message) \in Page /\ Presented(page, message).token = page.token
        <5>1. Presented(page, message) \in Page
          BY <2>1, <3>1, <3>3, PresentedIsPage
        <5> QED
          BY <3>1, <5>1 DEF Presented, Page
      <4>2. TakeOutcome(message)
        BY <1>3, <3>3 DEF Receive, message
      <4>3. CASE message.status \in Accepts
        <5> DEFINE p == [Presented(page, message) EXCEPT !.token = message.token, !.clean = "Saved"]
        <5>1. message.token \in Token
          BY <2>1, <3>3, <4>3, MessageFields
        <5>2. p \in Page /\ p.token = message.token
          BY <4>1, <5>1 DEF Page
        <5>3. page' = AfterCommit(p, ed, ed')
          BY <4>2, <4>3 DEF TakeOutcome
        <5>4. page'.token = message.token
          <6> HIDE DEF p
          <6> QED
            BY <3>2, <5>2, <5>3 DEF AfterCommit
        <5> QED
          BY <2>2, <3>3, <4>3, <5>4 DEF TokenNamesBase, BaseAfter, Rebases
      <4>4. CASE message.status \notin Accepts
        BY <2>2, <3>1, <3>3, <4>1, <4>2, <4>4 DEF TakeOutcome, TokenNamesBase, BaseAfter, Rebases
      <4> QED
        BY <4>3, <4>4
    <3>4. CASE message.kind = "reloaded"
      <4>1. page'.token = message.token
        BY <1>3, <3>1, <3>4 DEF Receive, TakeReloaded, Page, message
      <4> QED
        BY <2>2, <3>4, <4>1 DEF TokenNamesBase, BaseAfter, Rebases
    <3>5. CASE message.kind = "rebased"
      <4>1. page'.token = message.token
        BY <1>3, <3>1, <3>5 DEF Receive, TakeRebased, Page, message
      <4>2. Stands(ed.base, toPage, 0, message.token.doc)
        BY <1>a, <2>1, <2>4, <3>5 DEF IBase, message
      <4>3. message.token.doc = ed.base
        BY <4>2 DEF Stands
      <4> QED
        BY <2>2, <3>5, <4>1, <4>3 DEF TokenNamesBase, BaseAfter, Rebases
    <3>6. CASE message.kind \in {"unchanged", "refused", "changed"}
      <4>1. page'.token = page.token
        BY <1>3, <3>1, <3>6 DEF Receive, TakeUnchanged, TakeChanged, Page, message
      <4> QED
        BY <2>2, <3>1, <3>6, <4>1 DEF TokenNamesBase, BaseAfter, Rebases
    <3> QED
      BY <1>3, <3>3, <3>4, <3>5, <3>6 DEF Receive, message
  <2> QED
    BY <2>5, <2>6, <2>7 DEF IBase
<1>4. ASSUME NEW text \in Texts, Edit(text) PROVE IBase'
  <2>1. ed'.base = ed.base
    BY <1>4 DEF Edit, Changed, TypeOK, Editor
  <2>2. page'.token = page.token
    BY <1>4 DEF Edit, Reported, TypeOK, Page
  <2> QED
    BY <1>1, <1>4, <2>1, <2>2 DEF Edit, storeVars
<1>5. CASE Save \/ AskReload \/ AskRecovery
  <2>1. ed'.base = ed.base /\ page'.token = page.token
    BY <1>5 DEF Save, AskReload, AskRecovery, TypeOK, Editor, Page
  <2> QED
    BY <1>1, <1>5, <2>1 DEF Save, AskReload, AskRecovery, storeVars
<1>6. CASE StoreStep
  <2>1. UNCHANGED <<ed, page>>
    BY <1>6 DEF StoreStep, Take, EndSave, EndRecovery, EndReload, Check
  <2> QED
    BY <1>1, <1>2, <1>6, <2>1, StoreAnswers
<1>7. CASE (\E text \in Texts : ForeignWrite(text)) \/ UNCHANGED vars
  BY <1>1, <1>7 DEF ForeignWrite, storeVars, vars
<1> QED
  BY <1>3, <1>4, <1>5, <1>6, <1>7 DEF Next, StoreStep

-----------------------------------------------------------------------------
(***************************************************************************)
(* Captures.                                                               *)
(***************************************************************************)
\* What each change to the editor leaves of the captures: none is vouched for
\* that was not, and a changed text vouches for none.
Trusts(e) == e.captures \ e.overtaken

KeepsTrust(e, f) == Trusts(f) \subseteq Trusts(e) /\ (f.text = e.text \/ Trusts(f) = {})

\* A capture that is vouched for stays so under a change that keeps the trust.
LEMMA TrustIsKept ==
  ASSUME NEW e, NEW f, NEW capture, NEW text, NEW saves,
         KeepsTrust(e, f), Vouched(e, saves, capture, text)
  PROVE  Vouched(f, saves, capture, text)
BY DEF KeepsTrust, Trusts, Vouched

\* The editor's captures are among those taken, the overtaken among them.
Numbered(e, saves) == e.overtaken \subseteq e.captures /\ e.captures \subseteq 1..saves

\* A change of the document overtakes every capture.
LEMMA ChangedTrust ==
  ASSUME NEW e \in Editor, NEW text \in Texts, NEW saves, Numbered(e, saves)
  PROVE  KeepsTrust(e, Changed(e, text)) /\ Numbered(Changed(e, text), saves)
BY DEF Changed, Editor, KeepsTrust, Trusts, Numbered

\* A commit leaves the text, and vouches for no capture it did not before.
LEMMA CommittedTrust ==
  ASSUME NEW e \in Editor, NEW text \in Texts, NEW capture, NEW saves, Numbered(e, saves)
  PROVE  KeepsTrust(e, Committed(e, text, capture)) /\ Numbered(Committed(e, text, capture), saves)
<1>1. /\ Committed(e, text, capture).text = e.text
      /\ Committed(e, text, capture).captures \subseteq e.captures
      /\ Committed(e, text, capture).overtaken
           = e.overtaken \cap Committed(e, text, capture).captures
  BY DEF Committed, Editor
<1> HIDE DEF Committed
<1> QED
  BY <1>1 DEF KeepsTrust, Trusts, Numbered

\* A save given up vouches for one capture less.
LEMMA AbandonedTrust ==
  ASSUME NEW e \in Editor, NEW capture, NEW saves, Numbered(e, saves)
  PROVE  KeepsTrust(e, Abandoned(e, capture)) /\ Numbered(Abandoned(e, capture), saves)
BY DEF Abandoned, Editor, KeepsTrust, Trusts, Numbered

\* The window's handling of an answer keeps the trust.
LEMMA WindowTrust ==
  ASSUME TypeOK, Receive, Numbered(ed, spent.saves)
  PROVE  KeepsTrust(ed, ed') /\ Numbered(ed', spent.saves)
<1> DEFINE message == Head(toPage)
<1>1. message \in Message /\ ed \in Editor /\ ed.base \in Texts
  BY HeadTailProperties DEF Receive, TypeOK, Editor
<1> HIDE DEF message
<1>2. ASSUME NEW text \in Texts, ed' = Committed(Changed(ed, text), text, None)
      PROVE  KeepsTrust(ed, ed') /\ Numbered(ed', spent.saves)
  <2> DEFINE e == Changed(ed, text)
  <2>1. e \in Editor /\ KeepsTrust(ed, e) /\ Numbered(e, spent.saves)
    BY <1>1, ChangedIsEditor, ChangedTrust
  <2> HIDE DEF e
  <2>2. ed' = Committed(e, text, None)
    BY <1>2 DEF e
  <2>3. KeepsTrust(e, ed') /\ Numbered(ed', spent.saves)
    BY <2>1, <2>2, CommittedTrust
  <2> QED
    BY <2>1, <2>3 DEF KeepsTrust
<1>3. CASE message.kind = "outcome"
  <2>1. message.status \in Accepts => message.token.doc \in Texts
    BY <1>1, <1>3, MessageFields DEF Token
  <2>2. TakeOutcome(message)
    BY <1>3 DEF Receive, message
  <2> QED
    BY <1>1, <2>1, <2>2, CommittedTrust, AbandonedTrust DEF TakeOutcome, KeepsTrust
<1>4. CASE message.kind = "reloaded"
  <2>1. message.token.doc \in Texts
    BY <1>1, <1>4, MessageFields DEF Token
  <2> QED
    BY <1>2, <1>4, <2>1 DEF Receive, TakeReloaded, Replaced, message
<1>5. CASE message.kind = "unchanged"
  BY <1>1, <1>2, <1>5 DEF Receive, TakeUnchanged, Replaced, KeepsTrust, message
<1>6. CASE message.kind \in {"refused", "rebased", "changed"}
  BY <1>6 DEF Receive, KeepsTrust, message
<1> QED
  BY <1>3, <1>4, <1>5, <1>6 DEF Receive, message

\* At first there are no captures.
LEMMA HonestInit == Init => IHonest
BY ConstantsAssumption DEF Init, IHonest

\* Every step keeps what requests and answers say of their captures.
LEMMA HonestStep == TypeOK /\ TypeOK' /\ IHonest /\ [Next]_vars => IHonest'
<1> SUFFICES ASSUME TypeOK, TypeOK', IHonest, [Next]_vars PROVE IHonest'
  OBVIOUS
<1>a. /\ toPage \in Seq(Message) /\ Len(toPage) \in Nat
      /\ toMain \in Seq(Request) /\ Len(toMain) \in Nat
      /\ ed \in Editor /\ spent.saves \in Nat
      /\ Numbered(ed, spent.saves)
  BY LenProperties DEF TypeOK, Budget, IHonest, Numbered
\* Requests in order, those in hand and answers keep what they say of the
\* captures, if the editor keeps the trust.
<1>b. ASSUME KeepsTrust(ed, ed'), Numbered(ed', spent.saves), spent'.saves = spent.saves,
             \A i \in 1..Len(toMain') :
                 \/ \E j \in 1..Len(toMain) : toMain'[i] = toMain[j]
                 \/ ~IsSave(toMain'[i]),
             \/ txn' = txn \/ txn' = None
             \/ (Len(toMain) > 0 /\ txn' = toMain[1]),
             \A i \in 1..Len(toPage') :
                 \/ \E j \in 1..Len(toPage) : toPage'[i] = toPage[j]
                 \/ ~Attests(toPage'[i])
                 \/ txn # None /\ IsSave(txn) /\ toPage'[i].capture = txn.capture
                        /\ toPage'[i].token.doc = txn.text
      PROVE  IHonest'
  <2>1. ASSUME NEW capture, NEW text, Vouched(ed, spent.saves, capture, text)
        PROVE  Vouched(ed', spent'.saves, capture, text)
    BY <1>b, <2>1, TrustIsKept
  <2>2. ASSUME NEW i \in 1..Len(toMain'), IsSave(toMain'[i])
        PROVE  Vouched(ed', spent'.saves, toMain'[i].capture, toMain'[i].text)
    BY <1>b, <2>1, <2>2 DEF IHonest
  <2>3. txn' # None /\ IsSave(txn') => Vouched(ed', spent'.saves, txn'.capture, txn'.text)
    BY <1>a, <1>b, <2>1, SMTT(30) DEF IHonest
  <2>4. ASSUME NEW i \in 1..Len(toPage'), Rebases(toPage'[i]), toPage'[i].kind = "outcome",
               toPage'[i].capture # None
        PROVE  Vouched(ed', spent'.saves, toPage'[i].capture, toPage'[i].token.doc)
    BY <1>b, <2>1, <2>4 DEF IHonest, Attests
  <2> QED
    BY <1>b, <2>2, <2>3, <2>4 DEF IHonest, Numbered, Attests
<1>c. UNCHANGED ed => KeepsTrust(ed, ed') /\ Numbered(ed', spent.saves)
  BY <1>a DEF KeepsTrust
<1>1. CASE StoreStep
  <2>1. /\ UNCHANGED <<ed>> /\ spent'.saves = spent.saves
        /\ \/ UNCHANGED toMain
           \/ toMain # <<>> /\ toMain' = Tail(toMain)
        /\ txn' \in {txn, None} \/ (toMain # <<>> /\ txn' = Head(toMain))
    BY <1>1 DEF StoreStep, Take, EndSave, EndRecovery, EndReload, Check, Fail, TypeOK, Budget
  <2>2. \A i \in 1..Len(toMain') : \E j \in 1..Len(toMain) : toMain'[i] = toMain[j]
    <3>1. CASE UNCHANGED toMain
      BY <3>1
    <3>2. CASE toMain # <<>> /\ toMain' = Tail(toMain)
      <4>1. /\ Len(toMain') = Len(toMain) - 1
            /\ \A i \in 1..Len(toMain') : toMain'[i] = toMain[i + 1]
        BY <1>a, <3>2, HeadTailProperties
      <4>2. Len(toMain) \in Nat
        BY <1>a, LenProperties
      <4>3. \A i \in 1..Len(toMain') : i + 1 \in 1..Len(toMain)
        BY <4>1, <4>2
      <4> QED
        BY <4>1, <4>3
    <3> QED
      BY <2>1, <3>1, <3>2
  <2>3. txn' \in {txn, None} \/ (Len(toMain) > 0 /\ txn' = toMain[1])
    BY <1>a, <2>1, EmptySeq, HeadTailProperties
  <2>4. \A i \in 1..Len(toPage') :
                 \/ \E j \in 1..Len(toPage) : toPage'[i] = toPage[j]
                 \/ ~Attests(toPage'[i])
                 \/ txn # None /\ IsSave(txn) /\ toPage'[i].capture = txn.capture
                        /\ toPage'[i].token.doc = txn.text
    <3>1. CASE UNCHANGED toPage
      BY <3>1
    <3>2. ASSUME NEW m \in Message, Answers(m)
          PROVE  \A i \in 1..Len(toPage') :
                   \/ \E j \in 1..Len(toPage) : toPage'[i] = toPage[j]
                   \/ ~Attests(toPage'[i])
                   \/ txn # None /\ IsSave(txn) /\ toPage'[i].capture = txn.capture
                          /\ toPage'[i].token.doc = txn.text
      <4>1. /\ Len(toPage') = Len(toPage) + 1 /\ toPage'[Len(toPage) + 1] = m
            /\ \A i \in 1..Len(toPage) : toPage'[i] = toPage[i]
        BY <1>a, <3>2, AppendProperties DEF Answers
      <4>2. \A i \in 1..Len(toPage') : i \in 1..Len(toPage) \/ i = Len(toPage) + 1
        BY <1>a, <4>1
      <4> QED
        BY <3>2, <4>1, <4>2 DEF Answers
    <3> QED
      BY <1>1, <3>1, <3>2, StoreAnswers
  <2> QED
    BY <1>b, <1>c, <2>1, <2>2, <2>3, <2>4
<1>2. CASE Receive
  <2>1. KeepsTrust(ed, ed') /\ Numbered(ed', spent.saves)
    BY <1>2, <1>a, WindowTrust
  <2>2. /\ Len(toPage') = Len(toPage) - 1
        /\ \A i \in 1..Len(toPage') : toPage'[i] = toPage[i + 1]
    BY <1>2, <1>a, HeadTailProperties DEF Receive
  <2>3. \A i \in 1..Len(toPage') : \E j \in 1..Len(toPage) : toPage'[i] = toPage[j]
    BY <1>a, <2>2
  <2>4. txn' = txn /\ spent' = spent
    BY <1>2 DEF Receive
  <2>5. \/ toMain' = toMain
        \/ toMain' = Append(toMain, [kind |-> "reload", confirmed |-> FALSE])
    BY <1>2 DEF Receive, TakeChanged, Ask
  <2>6. \A i \in 1..Len(toMain') :
                 \/ \E j \in 1..Len(toMain) : toMain'[i] = toMain[j]
                 \/ ~IsSave(toMain'[i])
    <3>1. CASE toMain' = toMain
      BY <3>1
    <3>2. CASE toMain' = Append(toMain, [kind |-> "reload", confirmed |-> FALSE])
      <4>1. [kind |-> "reload", confirmed |-> FALSE] \in Request
        BY DEF Request
      <4>2. /\ Len(toMain') = Len(toMain) + 1
            /\ toMain'[Len(toMain) + 1] = [kind |-> "reload", confirmed |-> FALSE]
            /\ \A i \in 1..Len(toMain) : toMain'[i] = toMain[i]
        BY <1>a, <3>2, <4>1, AppendProperties
      <4>3. \A i \in 1..Len(toMain') : i \in 1..Len(toMain) \/ i = Len(toMain) + 1
        BY <1>a, <4>2
      <4> QED
        BY <4>2, <4>3 DEF IsSave
    <3> QED
      BY <2>5, <3>1, <3>2
  <2> QED
    BY <1>b, <2>1, <2>3, <2>4, <2>6
<1>3. ASSUME NEW text \in Texts, Edit(text) PROVE IHonest'
  <2>1. KeepsTrust(ed, ed') /\ Numbered(ed', spent.saves)
    BY <1>3, <1>a, ChangedTrust DEF Edit
  <2>2. spent'.saves = spent.saves /\ UNCHANGED <<txn, toMain, toPage>>
    BY <1>3 DEF Edit, TypeOK, Budget
  <2> QED
    BY <1>b, <2>1, <2>2
<1>4. CASE Save
  <2> DEFINE n == spent.saves + 1
  <2>1. /\ spent'.saves = n /\ n \in Nat /\ n \notin 1..spent.saves /\ n \in 1..n
        /\ 1..spent.saves \subseteq 1..n
    <3>1. spent'.saves = n
      BY <1>4 DEF Save, TypeOK, Budget
    <3>2. n \in Nat /\ n \notin 1..spent.saves /\ n \in 1..n /\ 1..spent.saves \subseteq 1..n
      BY <1>a
    <3> QED
      BY <3>1, <3>2
  <2>2. /\ ed'.captures = ed.captures \cup {n} /\ ed'.overtaken = ed.overtaken
        /\ ed'.text = ed.text
        /\ UNCHANGED <<txn, toPage>>
    BY <1>4, <1>a DEF Save, Editor
  <2> HIDE DEF n
  <2>3. ASSUME NEW capture, NEW text, Vouched(ed, spent.saves, capture, text)
        PROVE  Vouched(ed', spent'.saves, capture, text)
    BY <2>1, <2>2, <2>3 DEF Vouched
  <2> DEFINE request == [kind |-> "save", token |-> page.token, base |-> ed.base,
                         text |-> ed.text, capture |-> n]
  <2>4. request \in Request
    BY <1>a, <2>1 DEF TypeOK, Editor, Page, Request
  <2>5. toMain' = Append(toMain, request)
    BY <1>4 DEF Save, Ask, n
  <2>6. request.capture = n /\ request.text = ed.text
    OBVIOUS
  <2> HIDE DEF request
  <2>7. /\ Len(toMain') = Len(toMain) + 1 /\ toMain'[Len(toMain) + 1] = request
        /\ \A i \in 1..Len(toMain) : toMain'[i] = toMain[i]
    BY <1>a, <2>4, <2>5, AppendProperties
  <2>8. \A i \in 1..Len(toMain') : i \in 1..Len(toMain) \/ i = Len(toMain) + 1
    BY <1>a, <2>7
  <2>9. Vouched(ed', spent'.saves, n, ed.text)
    BY <2>1, <2>2 DEF Vouched
  <2>10. ASSUME NEW i \in 1..Len(toMain'), IsSave(toMain'[i])
         PROVE  Vouched(ed', spent'.saves, toMain'[i].capture, toMain'[i].text)
    BY <2>3, <2>6, <2>7, <2>8, <2>9, <2>10 DEF IHonest
  <2>11. ed'.overtaken \subseteq ed'.captures /\ ed'.captures \subseteq 1..spent'.saves
    BY <1>a, <2>1, <2>2 DEF Numbered
  <2>12. txn' # None /\ IsSave(txn') => Vouched(ed', spent'.saves, txn'.capture, txn'.text)
    BY <2>2, <2>3 DEF IHonest
  <2>13. \A i \in 1..Len(toPage') :
        Attests(toPage'[i]) =>
            Vouched(ed', spent'.saves, toPage'[i].capture, toPage'[i].token.doc)
    BY <2>2, <2>3 DEF IHonest
  <2> QED
    BY <2>10, <2>11, <2>12, <2>13 DEF IHonest
<1>5. CASE AskReload \/ AskRecovery
  <2>1. /\ UNCHANGED <<ed, txn, toPage>> /\ spent'.saves = spent.saves
        /\ \E m \in Request : toMain' = Append(toMain, m) /\ ~IsSave(m)
    <3>1. /\ [kind |-> "reload", confirmed |-> page.dirty] \in Request
          /\ [kind |-> "recover"] \in Request
      BY DEF TypeOK, Page, Request
    <3> QED
      BY <1>5, <3>1 DEF AskReload, AskRecovery, Ask, TypeOK, Budget, IsSave
  <2>2. PICK m \in Request : toMain' = Append(toMain, m) /\ ~IsSave(m)
    BY <2>1
  <2>3. /\ Len(toMain') = Len(toMain) + 1 /\ toMain'[Len(toMain) + 1] = m
        /\ \A i \in 1..Len(toMain) : toMain'[i] = toMain[i]
    BY <1>a, <2>2, AppendProperties
  <2>4. \A i \in 1..Len(toMain') : i \in 1..Len(toMain) \/ i = Len(toMain) + 1
    BY <1>a, <2>3
  <2> QED
    BY <1>b, <1>c, <2>1, <2>2, <2>3, <2>4
<1>6. CASE (\E text \in Texts : ForeignWrite(text)) \/ UNCHANGED vars
  <2>1. UNCHANGED <<ed, txn, toMain, toPage>> /\ spent'.saves = spent.saves
    BY <1>6 DEF ForeignWrite, vars, TypeOK, Budget
  <2> QED
    BY <1>b, <1>c, <2>1
<1> QED
  BY <1>1, <1>2, <1>3, <1>4, <1>5, <1>6 DEF Next, StoreStep

\* A record stays while a recovery runs for it.
LEMMA RecordStep == IRecord /\ [Next]_vars => IRecord'
BY ConstantsAssumption
   DEF IRecord, Next, vars, storeVars, Edit, Save, AskReload, AskRecovery, Take, EndSave,
       EndRecovery, EndReload, Check, ForeignWrite, Receive

-----------------------------------------------------------------------------
INoteEditing == TypeOK /\ IRecord /\ IBase /\ IHonest

\* Together they are inductive.
LEMMA EditingInvariant == Spec => []INoteEditing
<1>1. Init => INoteEditing
  <2>1. Init => IRecord
    BY DEF Init, IRecord
  <2> QED
    BY <2>1, TypeInit, BaseInit, HonestInit DEF INoteEditing
<1>2. INoteEditing /\ [Next]_vars => INoteEditing'
  BY TypeStep, RecordStep, BaseStep, HonestStep DEF INoteEditing
<1> QED
  BY <1>1, <1>2, PTL DEF Spec

\* Every message of the two channels is one the other side knows, and editor,
\* record and store keep to their declarations.
THEOREM TypesHold == Spec => []TypeOK
<1>1. INoteEditing => TypeOK
  BY DEF INoteEditing
<1> QED
  BY <1>1, EditingInvariant, PTL

\* In whatever order answers and events come in, the token the next save names
\* (App.tsx, onExternalChange and present) and the base the editor was rebased
\* on (NotoEditor.ts, commit) are of the same revision.
THEOREM TokenAlwaysNamesBase == Spec => []TokenNamesBase
<1>1. INoteEditing => TokenNamesBase
  BY DEF INoteEditing, IBase
<1> QED
  BY <1>1, EditingInvariant, PTL

\* An answered save (NotoEditor.ts, commit) calls the buffer clean only if it
\* holds what was saved.
THEOREM SavesAreHonest == Spec => SaveIsHonest
<1>1. INoteEditing /\ [Next]_vars =>
        [OutcomeTaken /\ Head(toPage).capture # None /\ ed.dirty /\ ~ed'.dirty
         => ed'.text = ed'.base]_vars
  <2> SUFFICES ASSUME INoteEditing, [Next]_vars,
                      OutcomeTaken, Head(toPage).capture # None, ed.dirty, ~ed'.dirty
               PROVE  ed'.text = ed'.base
    OBVIOUS
  <2> DEFINE message == Head(toPage)
  <2>1. /\ toPage \in Seq(Message) /\ toPage # <<>> /\ toPage' = Tail(toPage)
        /\ message.kind = "outcome" /\ ed \in Editor
    BY DEF INoteEditing, TypeOK, OutcomeTaken
  <2>2. /\ message \in Message /\ Len(toPage) \in Nat \ {0} /\ Len(toPage') = Len(toPage) - 1
        /\ message = toPage[1]
    BY <2>1, HeadTailProperties, LenProperties, EmptySeq
  <2>3. Receive
    <3>1. toPage' # toPage /\ Len(toPage') # Len(toPage) + 1
      BY <2>2
    <3>2. ASSUME StoreStep PROVE FALSE
      BY <2>1, <3>2 DEF StoreStep, Take, EndSave, EndRecovery, EndReload, Check
    <3> QED
      BY <3>1, <3>2 DEF Next, StoreStep, Edit, Save, AskReload, AskRecovery, ForeignWrite, vars
  <2> HIDE DEF message
  <2>4. TakeOutcome(message)
    BY <2>1, <2>3 DEF Receive, message
  <2>5. message.status \in Accepts
    <3>1. ASSUME message.status \notin Accepts PROVE FALSE
      BY <2>1, <2>4, <3>1 DEF TakeOutcome, Abandoned, Editor
    <3> QED
      BY <3>1
  <2>6. ed' = Committed(ed, message.token.doc, message.capture)
    BY <2>4, <2>5 DEF TakeOutcome
  <2>7. /\ ed'.text = ed.text /\ ed'.base = message.token.doc
        /\ ~MovedSince(ed, message.capture)
    BY <2>1, <2>6 DEF Committed, Editor
  <2>8. message.capture \in ed.captures \ ed.overtaken
    BY <2>7 DEF MovedSince, message
  <2>9. Vouched(ed, spent.saves, message.capture, message.token.doc)
    BY <2>1, <2>2, <2>5, 1 \in 1..Len(toPage) DEF INoteEditing, IHonest, Rebases, Attests, message
  <2> QED
    BY <2>7, <2>8, <2>9 DEF Vouched
<1> QED
  BY <1>1, EditingInvariant, PTL DEF Spec, SaveIsHonest


(***************************************************************************)
(* The stand-ins of a note (Enrichment).                                   *)
(***************************************************************************)
Blocks == StandIns!Blocks
BlockState == [here : BOOLEAN, text : Nat, same : BOOLEAN, real : BOOLEAN]
Written == [Blocks -> {<<>>} \cup {<<t>> : t \in Nat}]

Memory == [texts : Written, sel : Blocks \X Blocks]
History == Seq(Memory)

\* What the undo history keeps is a note the caret was in, of texts typed by now.
Remembered(was, n) ==
    /\ was \in Memory
    /\ was.texts[was.sel[1]] # <<>>
    /\ \A i \in Blocks : \A t \in Nat : was.texts[i] = <<t>> => t <= n

IStandIns ==
    /\ note \in [Blocks -> BlockState] /\ cleanNote \in [Blocks -> BlockState]
    /\ changes \in Nat /\ \A i \in Blocks : note[i].text <= changes
    /\ isDirty \in BOOLEAN /\ slipped \in BOOLEAN
    /\ sel \in Blocks \X Blocks /\ note[sel[1]].here
    /\ past \in History
    /\ \A k \in 1..Len(past) : Remembered(past[k], changes)
    \* The baseline is no newer than the note, and has the same stand-ins,
    /\ \A i \in Blocks : note[i].same => cleanNote[i].same
    /\ \A i \in Blocks : cleanNote[i].here => note[i].real = cleanNote[i].real
    \* and it is what was saved, unless it slipped.
    /\ ~slipped => saved = StandIns!Texts(cleanNote)
    /\ DirtyMeansEdited

\* The texts of two notes are the same when each block is there in both or in
\* neither, with the same text.
LEMMA SameTexts ==
  ASSUME NEW d \in [Blocks -> BlockState], NEW e \in [Blocks -> BlockState]
  PROVE  StandIns!Texts(d) = StandIns!Texts(e)
            <=> \A i \in Blocks : d[i].here = e[i].here /\ (d[i].here => d[i].text = e[i].text)
<1>1. \A i \in Blocks : /\ StandIns!Texts(d)[i] = IF d[i].here THEN <<d[i].text>> ELSE <<>>
                        /\ StandIns!Texts(e)[i] = IF e[i].here THEN <<e[i].text>> ELSE <<>>
  BY DEF StandIns!Texts, Blocks
<1>2. \A i \in Blocks : d[i].here \in BOOLEAN /\ e[i].here \in BOOLEAN
  BY DEF BlockState
<1>3. \A s, t : <<s>> # <<>> /\ (<<s>> = <<t>> => s = t)
  OBVIOUS
<1>4. ASSUME StandIns!Texts(d) = StandIns!Texts(e), NEW i \in Blocks
      PROVE  d[i].here = e[i].here /\ (d[i].here => d[i].text = e[i].text)
  <2>1. (IF d[i].here THEN <<d[i].text>> ELSE <<>>) = (IF e[i].here THEN <<e[i].text>> ELSE <<>>)
    BY <1>1, <1>4
  <2>2. CASE d[i].here
    BY <1>3, <2>1, <2>2, <1>2
  <2>3. CASE ~d[i].here
    BY <1>3, <2>1, <2>3, <1>2
  <2> QED
    BY <2>2, <2>3
<1>5. ASSUME \A i \in Blocks : d[i].here = e[i].here /\ (d[i].here => d[i].text = e[i].text)
      PROVE  StandIns!Texts(d) = StandIns!Texts(e)
  BY <1>5 DEF StandIns!Texts, Blocks
<1> QED
  BY <1>4, <1>5

\* One note is another with some blocks made real.
Swapped(r, d, which) ==
    /\ r \in [Blocks -> BlockState]
    /\ \A i \in Blocks : r[i].here = d[i].here /\ r[i].text = d[i].text /\ r[i].same = d[i].same
    /\ \A i \in Blocks \cap which : r[i].real = TRUE
    /\ \A i \in Blocks \ which : r[i].real = d[i].real
    /\ StandIns!Texts(r) = StandIns!Texts(d)

LEMMA RealSwaps ==
  ASSUME NEW d \in [Blocks -> BlockState], NEW which PROVE Swapped(StandIns!Real(d, which), d, which)
<1> DEFINE r == StandIns!Real(d, which)
<1>1. r = [i \in Blocks |-> IF i \in which THEN [d[i] EXCEPT !.real = TRUE] ELSE d[i]]
  BY DEF StandIns!Real, Blocks
<1>2. \A i \in Blocks : d[i] \in BlockState
  OBVIOUS
<1>3. \A b \in BlockState : \A c : c = [b EXCEPT !.real = TRUE]
          => c \in BlockState /\ c.here = b.here /\ c.text = b.text /\ c.same = b.same /\ c.real = TRUE
  BY DEF BlockState
<1>4. r \in [Blocks -> BlockState]
  BY <1>1, <1>2, <1>3
<1>5. ASSUME NEW i \in Blocks
      PROVE  /\ r[i].here = d[i].here /\ r[i].text = d[i].text /\ r[i].same = d[i].same
             /\ i \in which => r[i].real = TRUE
             /\ i \notin which => r[i].real = d[i].real
  <2>1. CASE i \in which
    <3>1. r[i] = [d[i] EXCEPT !.real = TRUE]
      BY <1>1, <2>1
    <3> HIDE DEF r
    <3> QED
      BY <1>2, <1>3, <2>1, <3>1
  <2>2. CASE i \notin which
    BY <1>1, <2>2
  <2> QED
    BY <2>1, <2>2
<1> HIDE DEF r
<1>6. StandIns!Texts(r) = StandIns!Texts(d)
  BY <1>4, <1>5, SameTexts
<1> QED
  BY <1>4, <1>5, <1>6 DEF r, Swapped

\* The baseline has the stand-ins the note has, after stand-ins of it were
\* swapped that the note was opened with.
LEMMA RebasedAgrees ==
  ASSUME IStandIns, NEW d \in [Blocks -> BlockState], NEW which,
         \A i \in Blocks : d[i].real = note[i].real /\ (d[i].same => note[i].same),
         \A i \in which : i \in Blocks => d[i].same
  PROVE  LET b == StandIns!Rebased(d, which)
             r == StandIns!Real(d, which)
         IN /\ b \in [Blocks -> BlockState]
            /\ \A i \in Blocks : r[i].same => b[i].same
            /\ \A i \in Blocks : b[i].here => r[i].real = b[i].real
            /\ StandIns!Texts(b) = StandIns!Texts(IF isDirty THEN cleanNote ELSE d)
<1> DEFINE b == StandIns!Rebased(d, which)
           r == StandIns!Real(d, which)
           kept == {i \in which : cleanNote[i].here /\ cleanNote[i].same}
<1>1. CASE isDirty
  <2>1. b = StandIns!Real(cleanNote, kept)
    BY <1>1 DEF StandIns!Rebased
  <2>2. cleanNote \in [Blocks -> BlockState]
    BY DEF IStandIns
  <2> HIDE DEF kept, b, r
  <2>3. Swapped(b, cleanNote, kept)
    BY <2>1, <2>2, RealSwaps
  <2>4. Swapped(r, d, which)
    BY RealSwaps DEF r
  <2>5. \A i \in Blocks : i \in which /\ cleanNote[i].here => i \in kept
    BY DEF IStandIns, kept
  <2>6. \A i \in kept : i \in which
    BY DEF kept
  <2>7. \A i \in Blocks : r[i].same => b[i].same
    BY <2>3, <2>4 DEF IStandIns, Swapped
  <2>8. ASSUME NEW i \in Blocks, b[i].here PROVE r[i].real = b[i].real
    <3>1. cleanNote[i].here /\ note[i].real = cleanNote[i].real /\ d[i].real = note[i].real
      BY <2>3, <2>8 DEF IStandIns, Swapped
    <3>2. i \in which <=> i \in kept
      BY <2>5, <2>6, <3>1
    <3>3. CASE i \in which
      BY <2>3, <2>4, <3>2, <3>3 DEF Swapped
    <3>4. CASE i \notin which
      BY <2>3, <2>4, <3>1, <3>2, <3>4 DEF Swapped
    <3> QED
      BY <3>3, <3>4
  <2>9. b \in [Blocks -> BlockState] /\ StandIns!Texts(b) = StandIns!Texts(cleanNote)
    BY <2>3 DEF Swapped
  <2> QED
    BY <1>1, <2>7, <2>8, <2>9 DEF b, r
<1>2. CASE ~isDirty
  <2>1. b = r
    BY <1>2 DEF StandIns!Rebased
  <2>2. r \in [Blocks -> BlockState] /\ StandIns!Texts(r) = StandIns!Texts(d)
    BY RealSwaps DEF Swapped
  <2> QED
    BY <1>2, <2>1, <2>2
<1> QED
  BY <1>1, <1>2

\* Two notes with the same stand-ins are the same to the editor when their
\* texts are.
LEMMA EqualIsTexts ==
  ASSUME NEW d \in [Blocks -> BlockState], NEW b \in [Blocks -> BlockState],
         \A i \in Blocks : b[i].here => d[i].real = b[i].real
  PROVE  StandIns!Equal(d, b) <=> StandIns!Texts(d) = StandIns!Texts(b)
<1>1. \A i \in Blocks : d[i].here \in BOOLEAN /\ b[i].here \in BOOLEAN
  BY DEF BlockState
<1>2. StandIns!Equal(d, b) <=> \A i \in Blocks : d[i].here = b[i].here /\ (d[i].here => d[i].text = b[i].text)
  BY <1>1 DEF StandIns!Equal, Blocks
<1> QED
  BY <1>2, SameTexts

\* The history is remembered when more has been typed.
LEMMA RememberedLater ==
  ASSUME NEW n \in Nat, NEW m \in Nat, n <= m, NEW was, Remembered(was, n) PROVE Remembered(was, m)
<1> QED
  BY DEF Remembered

\* A transaction that keeps the stand-ins and makes no new node the old one, and
\* changes a text if it changes anything, with what its selection enriches.
LEMMA ApplyKeeps ==
  ASSUME IStandIns, NEW d \in [Blocks -> BlockState], NEW s \in Blocks \X Blocks, StandIns!Apply(d, s),
         d[s[1]].here,
         \A i \in Blocks : d[i].real = note[i].real /\ (d[i].same => note[i].same),
         d # note => StandIns!Texts(d) # StandIns!Texts(note),
         changes' \in Nat, \A i \in Blocks : d[i].text <= changes',
         past' \in History, \A k \in 1..Len(past') : Remembered(past'[k], changes'),
         saved' = saved
  PROVE  IStandIns'
<1> DEFINE now == IF composing THEN {} ELSE StandIns!AtSelection(d, s)
           changed == d # note
<1>1. /\ note' = StandIns!Real(d, now)
      /\ cleanNote' = IF now = {} THEN cleanNote ELSE StandIns!Rebased(d, now)
      /\ sel' = s
      /\ isDirty' = IF ~changed THEN isDirty ELSE ~isDirty \/ ~StandIns!Equal(note', cleanNote')
      /\ slipped' = (slipped \/ (changed /\ now # {} /\ ~isDirty))
  BY DEF StandIns!Apply
<1>2. \A i \in now : d[i].same
  BY DEF StandIns!AtSelection
<1> HIDE DEF now
<1>3. Swapped(note', d, now)
  BY <1>1, RealSwaps
<1>4. /\ cleanNote' \in [Blocks -> BlockState]
      /\ \A i \in Blocks : note'[i].same => cleanNote'[i].same
      /\ \A i \in Blocks : cleanNote'[i].here => note'[i].real = cleanNote'[i].real
      /\ now = {} \/ isDirty => StandIns!Texts(cleanNote') = StandIns!Texts(cleanNote)
      /\ now # {} /\ ~isDirty => StandIns!Texts(cleanNote') = StandIns!Texts(d)
  <2>1. CASE now = {}
    <3>1. cleanNote' = cleanNote
      BY <1>1, <2>1
    <3>2. \A i \in Blocks : note'[i].real = note[i].real /\ (note'[i].same => note[i].same)
      BY <1>3, <2>1 DEF Swapped
    <3> QED
      BY <2>1, <3>1, <3>2 DEF IStandIns
  <2>2. CASE now # {}
    <3>1. cleanNote' = StandIns!Rebased(d, now)
      BY <1>1, <2>2
    <3> QED
      BY <1>1, <1>2, <2>2, <3>1, RebasedAgrees
  <2> QED
    BY <2>1, <2>2
<1>5. isDirty' \in BOOLEAN /\ slipped' \in BOOLEAN
  BY <1>1 DEF IStandIns
<1>6. ASSUME ~slipped'
      PROVE  /\ saved' = StandIns!Texts(cleanNote')
             /\ isDirty' <=> StandIns!Texts(note') # saved'
  <2>1. /\ ~slipped /\ (changed => now = {} \/ isDirty)
        /\ saved = StandIns!Texts(cleanNote) /\ (isDirty <=> StandIns!Texts(note) # saved)
    BY <1>1, <1>6 DEF IStandIns, DirtyMeansEdited, StandIns!DirtyMeansEdited
  <2>2. StandIns!Equal(note', cleanNote') <=> StandIns!Texts(note') = StandIns!Texts(cleanNote')
    BY <1>3, <1>4, EqualIsTexts DEF Swapped
  <2>3. CASE isDirty
    BY <1>1, <1>3, <1>4, <2>1, <2>2, <2>3 DEF Swapped
  <2>4. CASE ~isDirty
    <3>1. CASE changed
      BY <1>1, <1>3, <1>4, <2>1, <2>4, <3>1 DEF Swapped
    <3>2. CASE ~changed
      BY <1>1, <1>3, <1>4, <2>1, <2>4, <3>2 DEF Swapped
    <3> QED
      BY <3>1, <3>2
  <2> QED
    BY <2>3, <2>4
<1>7. \A i \in Blocks : note'[i].text <= changes'
  BY <1>3 DEF Swapped
<1>8. note' \in [Blocks -> BlockState] /\ sel' \in Blocks \X Blocks /\ note'[sel'[1]].here
  BY <1>1, <1>3 DEF Swapped
<1> QED
  BY <1>4, <1>5, <1>6, <1>7, <1>8 DEF IStandIns, History, DirtyMeansEdited, StandIns!DirtyMeansEdited, Blocks, StandIns!Blocks

\* Stand-ins swapped in a frame, in idle time, or by find.
LEMMA EnrichKeeps ==
  ASSUME IStandIns, NEW window, StandIns!Enrich(note, window),
         UNCHANGED <<sel, isDirty, past, changes, saved, slipped>>
  PROVE  IStandIns'
<1> DEFINE which == StandIns!Intact(note, IF composing THEN {} ELSE window)
<1>1. note' = StandIns!Real(note, which) /\ cleanNote' = StandIns!Rebased(note, which)
  BY DEF StandIns!Enrich
<1>2. \A i \in which : note[i].same
  BY DEF StandIns!Intact
<1> HIDE DEF which
<1>3. note \in [Blocks -> BlockState]
  BY DEF IStandIns
<1>4. /\ note' \in [Blocks -> BlockState]
      /\ \A i \in Blocks : note'[i].here = note[i].here /\ note'[i].text = note[i].text
      /\ StandIns!Texts(note') = StandIns!Texts(note)
  BY <1>1, <1>3, RealSwaps DEF Swapped
<1>5. /\ cleanNote' \in [Blocks -> BlockState]
      /\ \A i \in Blocks : note'[i].same => cleanNote'[i].same
      /\ \A i \in Blocks : cleanNote'[i].here => note'[i].real = cleanNote'[i].real
      /\ StandIns!Texts(cleanNote') = StandIns!Texts(IF isDirty THEN cleanNote ELSE note)
  BY <1>1, <1>2, <1>3, RebasedAgrees
<1>6. ASSUME ~slipped
      PROVE  /\ saved = StandIns!Texts(cleanNote')
             /\ isDirty <=> StandIns!Texts(note') # saved
  BY <1>4, <1>5, <1>6 DEF IStandIns, DirtyMeansEdited, StandIns!DirtyMeansEdited
<1>7. \A i \in Blocks : note'[i].text <= changes
  BY <1>4 DEF IStandIns
<1>8. sel \in Blocks \X Blocks /\ note'[sel[1]].here
  BY <1>4 DEF IStandIns
<1> QED
  BY <1>4, <1>5, <1>6, <1>7, <1>8 DEF IStandIns, DirtyMeansEdited, StandIns!DirtyMeansEdited

\* Typing in some blocks leaves the others, and every block where it is; what
\* is typed is new.
LEMMA TypedInKeeps ==
  ASSUME IStandIns, NEW d \in [Blocks -> BlockState], NEW which,
         \A i \in Blocks : d[i].text <= changes
  PROVE  \A r : r = StandIns!TypedIn(d, which) =>
            /\ r \in [Blocks -> BlockState]
            /\ \A i \in Blocks : /\ r[i].here = d[i].here
                                 /\ r[i].real = d[i].real
                                 /\ r[i].same => d[i].same
                                 /\ r[i].text <= changes + 1
            /\ \A i \in Blocks \cap which : d[i].here => StandIns!Texts(r) # StandIns!Texts(note)
<1> SUFFICES ASSUME NEW r, r = StandIns!TypedIn(d, which)
             PROVE  /\ r \in [Blocks -> BlockState]
                    /\ \A i \in Blocks : /\ r[i].here = d[i].here
                                         /\ r[i].real = d[i].real
                                         /\ r[i].same => d[i].same
                                         /\ r[i].text <= changes + 1
                    /\ \A i \in Blocks \cap which : d[i].here => StandIns!Texts(r) # StandIns!Texts(note)
  OBVIOUS
<1>1. r = [i \in Blocks |-> IF i \in which THEN [d[i] EXCEPT !.text = changes + 1, !.same = FALSE] ELSE d[i]]
  BY DEF StandIns!TypedIn, Blocks
<1>2. changes \in Nat /\ changes + 1 \in Nat /\ note \in [Blocks -> BlockState]
  BY DEF IStandIns
<1>3. \A b \in BlockState : \A c : c = [b EXCEPT !.text = changes + 1, !.same = FALSE]
          => c \in BlockState /\ c.here = b.here /\ c.text = changes + 1 /\ c.same = FALSE /\ c.real = b.real
  BY <1>2 DEF BlockState
<1>4. ASSUME NEW i \in Blocks
      PROVE  /\ r[i] \in BlockState /\ r[i].here = d[i].here /\ r[i].real = d[i].real
             /\ r[i].same => d[i].same
             /\ r[i].text <= changes + 1
             /\ i \in which => r[i].text = changes + 1
  <2>0. d[i] \in BlockState /\ d[i].text <= changes + 1
    BY <1>2 DEF BlockState
  <2>1. CASE i \in which
    <3>1. r[i] = [d[i] EXCEPT !.text = changes + 1, !.same = FALSE]
      BY <1>1, <2>1
    <3>2. /\ r[i] \in BlockState /\ r[i].here = d[i].here /\ r[i].text = changes + 1 /\ r[i].same = FALSE
          /\ r[i].real = d[i].real
      BY <1>3, <2>0, <3>1
    <3> QED
      BY <1>2, <3>2
  <2>2. CASE i \notin which
    BY <1>1, <2>0, <2>2
  <2> QED
    BY <2>1, <2>2
<1>5. r \in [Blocks -> BlockState]
  BY <1>1, <1>4
<1>6. ASSUME NEW i \in Blocks \cap which, d[i].here PROVE StandIns!Texts(r) # StandIns!Texts(note)
  <2>1. r[i].here /\ r[i].text = changes + 1
    BY <1>4, <1>6
  <2>2. note[i].text <= changes /\ note[i].text \in Nat
    BY DEF IStandIns, BlockState
  <2>3. r[i].text # note[i].text
    BY <1>2, <2>1, <2>2
  <2> QED
    BY <1>2, <1>5, <2>1, <2>3, SameTexts
<1> QED
  BY <1>4, <1>5, <1>6

\* The undo history takes the note as it is.
LEMMA PastGrows ==
  ASSUME IStandIns, changes' = changes + 1,
         past' = Append(past, [texts |-> StandIns!Texts(note), sel |-> sel])
  PROVE  past' \in History /\ \A k \in 1..Len(past') : Remembered(past'[k], changes')
<1> DEFINE was == [texts |-> StandIns!Texts(note), sel |-> sel]
<1>1. note \in [Blocks -> BlockState] /\ sel \in Blocks \X Blocks /\ note[sel[1]].here /\ changes \in Nat
  BY DEF IStandIns
<1>2. StandIns!Texts(note) = [i \in Blocks |-> IF note[i].here THEN <<note[i].text>> ELSE <<>>]
  BY DEF StandIns!Texts, Blocks
<1>3. \A i \in Blocks : note[i].text \in Nat /\ note[i].text <= changes
  BY <1>1 DEF IStandIns, BlockState
<1>4. StandIns!Texts(note) \in Written
  BY <1>2, <1>3 DEF Written
<1>5. \A t, u : <<t>> # <<>> /\ (<<t>> = <<u>> => t = u)
  OBVIOUS
<1>6. sel[1] \in Blocks
  BY <1>1
<1>7. StandIns!Texts(note)[sel[1]] # <<>>
  BY <1>1, <1>2, <1>5, <1>6
<1>8. ASSUME NEW i \in Blocks, NEW t \in Nat, StandIns!Texts(note)[i] = <<t>> PROVE t <= changes + 1
  <2>1. note[i].here /\ note[i].text = t
    BY <1>2, <1>5, <1>8
  <2> QED
    BY <1>1, <1>3, <2>1
<1>9. was \in Memory /\ was.texts = StandIns!Texts(note) /\ was.sel = sel
  BY <1>1, <1>4 DEF Memory
<1> HIDE DEF was
<1>10. Remembered(was, changes + 1)
  BY <1>7, <1>8, <1>9 DEF Remembered
<1>11. past \in History /\ \A k \in 1..Len(past) : Remembered(past[k], changes + 1)
  BY <1>1, RememberedLater DEF IStandIns, History
<1>12. past' = Append(past, was)
  BY DEF was
<1>13. past' \in History /\ Len(past') = Len(past) + 1 /\ Len(past) \in Nat
       /\ \A k \in 1..Len(past') : past'[k] = IF k = Len(past) + 1 THEN was ELSE past[k]
  BY <1>9, <1>11, <1>12 DEF History
<1>14. ASSUME NEW k \in 1..Len(past') PROVE Remembered(past'[k], changes + 1)
  <2>1. CASE k = Len(past) + 1
    BY <1>10, <1>13, <2>1
  <2>2. CASE k # Len(past) + 1
    BY <1>11, <1>13, <2>2
  <2> QED
    BY <2>1, <2>2
<1> QED
  BY <1>13, <1>14

\* An edit keeps what is known of the stand-ins.
LEMMA EditsKeep ==
  ASSUME IStandIns, NEW how, NEW which, NEW d \in [Blocks -> BlockState], NEW s \in Blocks \X Blocks,
         StandIns!Edits(how, which, d, s), d[s[1]].here,
         \A i \in Blocks : d[i].real = note[i].real /\ (d[i].same => note[i].same) /\ d[i].text <= changes + 1,
         d # note => StandIns!Texts(d) # StandIns!Texts(note)
  PROVE  IStandIns'
<1>1. /\ changes' = changes + 1 /\ saved' = saved /\ StandIns!Apply(d, s)
      /\ past' = Append(past, [texts |-> StandIns!Texts(note), sel |-> sel])
  BY DEF StandIns!Edits
<1>2. changes' \in Nat
  BY <1>1 DEF IStandIns
<1> QED
  BY <1>1, <1>2, PastGrows, ApplyKeeps

LEMMA TypeKeeps == ASSUME IStandIns, StandIns!Type PROVE IStandIns'
<1> DEFINE d == StandIns!TypedIn(note, {sel[1]})
<1>1. note \in [Blocks -> BlockState] /\ sel \in Blocks \X Blocks /\ note[sel[1]].here /\ sel[1] \in Blocks
      /\ \A i \in Blocks : note[i].text <= changes
  BY DEF IStandIns
<1>2. /\ d \in [Blocks -> BlockState]
      /\ \A i \in Blocks : d[i].here = note[i].here /\ d[i].real = note[i].real /\ (d[i].same => note[i].same)
                           /\ d[i].text <= changes + 1
      /\ StandIns!Texts(d) # StandIns!Texts(note)
  BY <1>1, TypedInKeeps
<1>3. StandIns!Edits("caret", {sel[1]}, d, sel)
  BY DEF StandIns!Type
<1> HIDE DEF d
<1> QED
  BY <1>1, <1>2, <1>3, EditsKeep

LEMMA MarkKeeps == ASSUME IStandIns, StandIns!Mark PROVE IStandIns'
<1> DEFINE over == {i \in sel[1]..sel[2] : note[i].here}
           d == StandIns!TypedIn(note, over)
<1>1. note \in [Blocks -> BlockState] /\ sel \in Blocks \X Blocks /\ note[sel[1]].here /\ sel[1] \in Blocks
      /\ \A i \in Blocks : note[i].text <= changes
  BY DEF IStandIns
<1>2. sel[1] \in over
  BY <1>1, StandInConstants DEF StandIns!Mark, Blocks, StandIns!Blocks
<1>3. StandIns!Edits("marks", over, d, sel)
  BY DEF StandIns!Mark
<1> HIDE DEF over
<1>4. /\ d \in [Blocks -> BlockState]
      /\ \A i \in Blocks : d[i].here = note[i].here /\ d[i].real = note[i].real /\ (d[i].same => note[i].same)
                           /\ d[i].text <= changes + 1
      /\ StandIns!Texts(d) # StandIns!Texts(note)
  BY <1>1, <1>2, TypedInKeeps
<1> HIDE DEF d
<1> QED
  BY <1>1, <1>3, <1>4, EditsKeep

\* The note without some of its blocks.
Without(d, gone) ==
    /\ d \in [Blocks -> BlockState]
    /\ \A i \in Blocks : d[i].real = note[i].real /\ (d[i].same => note[i].same) /\ d[i].text <= changes
    /\ \A i \in Blocks \cap gone : d[i].here = FALSE
    /\ \A i \in Blocks \ gone : d[i].here = note[i].here

LEMMA TakenOut ==
  ASSUME IStandIns, NEW gone
  PROVE  Without([i \in Blocks |-> IF i \in gone THEN [note[i] EXCEPT !.here = FALSE] ELSE note[i]], gone)
<1> DEFINE d == [i \in Blocks |-> IF i \in gone THEN [note[i] EXCEPT !.here = FALSE] ELSE note[i]]
<1>1. \A b \in BlockState : \A c : c = [b EXCEPT !.here = FALSE]
          => c \in BlockState /\ c.here = FALSE /\ c.text = b.text /\ c.same = b.same /\ c.real = b.real
  BY DEF BlockState
<1>2. ASSUME NEW i \in Blocks
      PROVE  /\ d[i] \in BlockState /\ d[i].real = note[i].real /\ (d[i].same => note[i].same) /\ d[i].text <= changes
             /\ i \in gone => d[i].here = FALSE
             /\ i \notin gone => d[i].here = note[i].here
  <2>0. note[i] \in BlockState /\ note[i].text <= changes
    BY DEF IStandIns
  <2>1. CASE i \in gone
    <3>1. d[i] = [note[i] EXCEPT !.here = FALSE]
      BY <2>1
    <3>2. d[i] \in BlockState /\ d[i].here = FALSE /\ d[i].text = note[i].text /\ d[i].same = note[i].same
          /\ d[i].real = note[i].real
      BY <1>1, <2>0, <3>1
    <3> QED
      BY <2>0, <2>1, <3>2
  <2>2. CASE i \notin gone
    BY <2>0, <2>2
  <2> QED
    BY <2>1, <2>2
<1>3. d \in [Blocks -> BlockState]
  BY <1>2
<1> QED
  BY <1>2, <1>3 DEF Without

LEMMA DeleteKeeps == ASSUME IStandIns, StandIns!Delete PROVE IStandIns'
<1> DEFINE gone == {i \in sel[1] + 1 .. sel[2] : note[i].here}
           left == [i \in Blocks |-> IF i \in gone THEN [note[i] EXCEPT !.here = FALSE] ELSE note[i]]
           d == StandIns!TypedIn(left, {sel[1]})
           s == <<sel[1], sel[1]>>
<1>1. sel \in Blocks \X Blocks /\ note[sel[1]].here /\ sel[1] \in Blocks
  BY DEF IStandIns
<1>2. sel[1] \notin gone
  BY <1>1, StandInConstants DEF Blocks, StandIns!Blocks
<1>3. StandIns!Edits("caret", {sel[1]}, d, s)
  BY DEF StandIns!Delete, Blocks
<1> HIDE DEF gone
<1>3a. left = [i \in Blocks |-> IF i \in gone THEN [note[i] EXCEPT !.here = FALSE] ELSE note[i]]
  OBVIOUS
<1> HIDE DEF left
<1>4. /\ left \in [Blocks -> BlockState]
      /\ \A i \in Blocks : left[i].real = note[i].real /\ (left[i].same => note[i].same) /\ left[i].text <= changes
      /\ left[sel[1]].here
  <2>1. Without(left, gone)
    BY <1>3a, TakenOut
  <2> QED
    BY <1>1, <1>2, <2>1 DEF Without
<1>5. /\ d \in [Blocks -> BlockState]
      /\ \A i \in Blocks : d[i].here = left[i].here /\ d[i].real = note[i].real /\ (d[i].same => note[i].same)
                           /\ d[i].text <= changes + 1
      /\ StandIns!Texts(d) # StandIns!Texts(note)
  BY <1>1, <1>4, TypedInKeeps
<1>6. s \in Blocks \X Blocks /\ s[1] = sel[1]
  BY <1>1
<1> HIDE DEF d, s
<1>7. d[s[1]].here
  BY <1>1, <1>4, <1>5, <1>6
<1> QED
  BY <1>3, <1>5, <1>6, <1>7, EditsKeep

LEMMA DeleteBlockKeeps == ASSUME IStandIns, StandIns!DeleteBlock PROVE IStandIns'
<1> DEFINE i == sel[1]
           d == [note EXCEPT ![i].here = FALSE]
<1>1. sel \in Blocks \X Blocks /\ note[i].here /\ i \in Blocks /\ note \in [Blocks -> BlockState] /\ changes \in Nat
  BY DEF IStandIns
<1>2. PICK next \in Blocks \ {i} : note[next].here /\ StandIns!Edits("caret", {}, d, <<next, next>>)
  BY DEF StandIns!DeleteBlock, Blocks
<1>3. d = [j \in Blocks |-> IF j \in {i} THEN [note[j] EXCEPT !.here = FALSE] ELSE note[j]]
  BY <1>1
<1> HIDE DEF d
<1>4. Without(d, {i})
  BY <1>3, TakenOut
<1>5. /\ d \in [Blocks -> BlockState]
      /\ \A j \in Blocks : d[j].real = note[j].real /\ (d[j].same => note[j].same)
      /\ d[i].here = FALSE /\ d[next].here
  BY <1>1, <1>2, <1>4 DEF Without
<1>6. \A j \in Blocks : d[j].text <= changes + 1
  BY <1>1, <1>4 DEF Without, BlockState
<1>7. StandIns!Texts(d) # StandIns!Texts(note)
  BY <1>1, <1>5, SameTexts
<1> DEFINE s == <<next, next>>
<1>8. s \in Blocks \X Blocks /\ d[s[1]].here /\ StandIns!Edits("caret", {}, d, s)
  BY <1>2, <1>5
<1> HIDE DEF s
<1> QED
  BY <1>5, <1>6, <1>7, <1>8, EditsKeep

LEMMA SelectKeeps == ASSUME IStandIns, StandIns!Select PROVE IStandIns'
<1>1. PICK f \in Blocks, t \in Blocks : note[f].here /\ StandIns!Apply(note, <<f, t>>)
  BY DEF StandIns!Select, Blocks
<1>2. UNCHANGED <<past, changes, saved>>
  BY DEF StandIns!Select, StandIns!edited
<1>3. <<f, t>> \in Blocks \X Blocks /\ <<f, t>>[1] = f
  OBVIOUS
<1>4. /\ note \in [Blocks -> BlockState] /\ changes \in Nat /\ \A i \in Blocks : note[i].text <= changes
      /\ past \in History /\ \A k \in 1..Len(past) : Remembered(past[k], changes)
  BY DEF IStandIns, History
<1> DEFINE s == <<f, t>>
<1>5. s \in Blocks \X Blocks /\ note[s[1]].here /\ StandIns!Apply(note, s)
  BY <1>1, <1>3
<1> HIDE DEF s
<1> QED
  BY <1>2, <1>4, <1>5, ApplyKeeps

\* A block an undo puts back, with the text t.
PutBack(c, b, t, k) ==
    /\ c \in BlockState /\ c.here = TRUE /\ c.text = t /\ c.same = k /\ c.real = b.real
    /\ b.here = TRUE /\ b.text = t /\ b.same = k => c = b

LEMMA RestoredBlock ==
  ASSUME NEW b \in BlockState, NEW t \in Nat, NEW k \in BOOLEAN
  PROVE  PutBack([b EXCEPT !.here = TRUE, !.text = t, !.same = k], b, t, k)
<1> QED
  BY DEF PutBack, BlockState

\* A history without its last entry.
LEMMA LastTaken ==
  ASSUME NEW S, NEW p \in Seq(S), NEW n \in Nat, Len(p) = n + 1
  PROVE  \A q : q = SubSeq(p, 1, Len(p) - 1)
            => q \in Seq(S) /\ Len(q) = n /\ \A k \in 1..n : q[k] = p[k]
<1>1. \A k \in 1..n : p[k] \in S
  BY LenProperties
<1>2. SubSeq(p, 1, n) = [k \in 1..n |-> p[k]]
  BY <1>1
<1>3. Len(p) - 1 = n
  OBVIOUS
<1> DEFINE r == [k \in 1..n |-> p[k]]
<1>4. r \in Seq(S) /\ Len(r) = n /\ \A k \in 1..n : r[k] = p[k]
  BY <1>1
<1> QED
  BY <1>2, <1>3, <1>4

\* Undo puts back a note the caret was in, with the nodes it has.
LEMMA UndoKeeps == ASSUME IStandIns, StandIns!Undo PROVE IStandIns'
<1> DEFINE was == past[Len(past)]
           back == [i \in Blocks |->
                      IF was.texts[i] = <<>> THEN [note[i] EXCEPT !.here = FALSE]
                      ELSE [note[i] EXCEPT !.here = TRUE, !.text = was.texts[i][1],
                                           !.same = @ /\ <<note[i].text>> = was.texts[i]]]
<1>1. /\ past # <<>> /\ past' = SubSeq(past, 1, Len(past) - 1) /\ StandIns!Apply(back, was.sel)
      /\ changes' = changes /\ saved' = saved
  BY DEF StandIns!Undo, Blocks
<1>2. /\ note \in [Blocks -> BlockState] /\ changes \in Nat /\ \A i \in Blocks : note[i].text <= changes
      /\ past \in History /\ \A k \in 1..Len(past) : Remembered(past[k], changes)
  BY DEF IStandIns, History
<1>3. Len(past) \in Nat \ {0} /\ Remembered(was, changes)
  <2>1. Len(past) \in Nat \ {0}
    BY <1>1, <1>2, EmptySeq DEF History
  <2> QED
    BY <1>2, <2>1
<1>4. past' \in History /\ \A k \in 1..Len(past') : Remembered(past'[k], changes)
  <2>1. /\ past' \in History /\ Len(past') = Len(past) - 1
        /\ \A k \in 1..(Len(past) - 1) : past'[k] = past[k]
    <3>1. PICK n \in Nat : Len(past) = n + 1
      BY <1>3
    <3>2. past' \in Seq(Memory) /\ Len(past') = n /\ \A k \in 1..n : past'[k] = past[k]
      <4>1. past \in Seq(Memory) /\ past' = SubSeq(past, 1, Len(past) - 1)
        BY <1>1, <1>2 DEF History
      <4> QED
        BY <3>1, <4>1, LastTaken
    <3> QED
      BY <3>1, <3>2 DEF History
  <2> QED
    BY <1>2, <1>3, <2>1
<1> HIDE DEF was
<1>5. was.texts \in Written /\ was.sel \in Blocks \X Blocks /\ was.sel[1] \in Blocks /\ was.texts[was.sel[1]] # <<>>
  BY <1>3 DEF Remembered, Memory
<1>6. ASSUME NEW i \in Blocks
      PROVE  /\ back[i] \in BlockState /\ back[i].real = note[i].real /\ (back[i].same => note[i].same)
             /\ back[i].text <= changes
             /\ was.texts[i] # <<>> => back[i].here
             /\ (back[i].here = note[i].here /\ (note[i].here => back[i].text = note[i].text)) => back[i] = note[i]
  <2>1. note[i] \in BlockState /\ note[i].text <= changes
    BY <1>2
  <2>2. CASE was.texts[i] = <<>>
    <3>1. back[i] = [note[i] EXCEPT !.here = FALSE]
      BY <2>2
    <3> HIDE DEF back
    <3>2. \A b \in BlockState : \A c : c = [b EXCEPT !.here = FALSE]
              => /\ c \in BlockState /\ c.here = FALSE /\ c.text = b.text /\ c.same = b.same /\ c.real = b.real
                 /\ b.here = FALSE => c = b
      BY DEF BlockState
    <3>3. /\ back[i] \in BlockState /\ back[i].here = FALSE /\ back[i].text = note[i].text
          /\ back[i].same = note[i].same /\ back[i].real = note[i].real
          /\ note[i].here = FALSE => back[i] = note[i]
      BY <2>1, <3>1, <3>2, ZenonT(60)
    <3> QED
      BY <2>1, <2>2, <3>3
  <2>3. CASE was.texts[i] # <<>>
    <3>1. PICK t \in Nat : was.texts[i] = <<t>>
      BY <1>5, <2>3 DEF Written
    <3>2. t <= changes
      BY <1>3, <3>1 DEF Remembered
    <3>3. was.texts[i][1] = t /\ (<<note[i].text>> = was.texts[i] <=> note[i].text = t)
      BY <3>1
    <3> DEFINE kept == note[i].same /\ <<note[i].text>> = was.texts[i]
    <3>4. back[i] = [note[i] EXCEPT !.here = TRUE, !.text = t, !.same = kept]
      BY <2>3, <3>3
    <3>5. kept \in BOOLEAN /\ (kept => note[i].same) /\ (note[i].text = t => kept = note[i].same)
      BY <2>1, <3>3 DEF BlockState
    <3> HIDE DEF back, kept
    <3>6. PutBack([note[i] EXCEPT !.here = TRUE, !.text = t, !.same = kept], note[i], t, kept)
      BY <2>1, <3>5, RestoredBlock
    <3>7. PutBack(back[i], note[i], t, kept)
      BY <3>4, <3>6
    <3>8. /\ back[i] \in BlockState /\ back[i].here = TRUE /\ back[i].text = t /\ back[i].same = kept
          /\ back[i].real = note[i].real
      BY <3>7 DEF PutBack
    <3>9. note[i].here = TRUE /\ note[i].text = t /\ note[i].same = kept => back[i] = note[i]
      BY <3>7 DEF PutBack
    <3> QED
      BY <2>1, <3>2, <3>5, <3>8, <3>9
  <2> QED
    BY <2>2, <2>3
<1>7. back \in [Blocks -> BlockState]
  BY <1>6
<1>8. back # note => StandIns!Texts(back) # StandIns!Texts(note)
  <2> SUFFICES ASSUME StandIns!Texts(back) = StandIns!Texts(note) PROVE back = note
    OBVIOUS
  <2>1. \A i \in Blocks : back[i] = note[i]
    <3> HIDE DEF back
    <3> QED
      BY <1>2, <1>6, <1>7, SameTexts
  <2> HIDE DEF back
  <2> QED
    BY <1>2, <1>7, <2>1
<1> HIDE DEF back
<1>9. back[was.sel[1]].here
  BY <1>5, <1>6
<1> QED
  BY <1>1, <1>2, <1>4, <1>5, <1>6, <1>7, <1>8, <1>9, ApplyKeeps
\* Frames, idle time and a composition's ends, which type nothing into a block.
LEMMA QuietKeeps ==
  ASSUME IStandIns, UNCHANGED <<note, cleanNote, sel, past, isDirty, saved, slipped>>,
         changes' \in Nat, changes <= changes'
  PROVE  IStandIns'
<1>1. /\ changes \in Nat /\ \A k \in 1..Len(past) : Remembered(past[k], changes)
      /\ note \in [Blocks -> BlockState] /\ \A i \in Blocks : note[i].text <= changes
  BY DEF IStandIns
<1>2. \A k \in 1..Len(past) : Remembered(past[k], changes')
  BY <1>1, RememberedLater
<1>3. \A i \in Blocks : note[i].text <= changes'
  BY <1>1 DEF BlockState
<1> QED
  BY <1>2, <1>3 DEF IStandIns, DirtyMeansEdited, StandIns!DirtyMeansEdited, StandIns!Texts, History

\* Find and replace: the rest of the note is swapped in, then typed in.
LEMMA ReplaceAllKeeps == ASSUME IStandIns, StandIns!ReplaceAll PROVE IStandIns'
<1> DEFINE rest == StandIns!Intact(note, StandIns!Everything(StandIns!Blocks))
           ready == StandIns!Real(note, rest)
<1>1. PICK which \in {{i \in Blocks : note[i].here}} \cup {{i} : i \in {i \in Blocks : note[i].here}} :
         note' = StandIns!TypedIn(ready, which)
  BY DEF StandIns!ReplaceAll, Blocks
<1>2. /\ cleanNote' = StandIns!Rebased(note, rest)
      /\ isDirty' = (~isDirty \/ ~StandIns!Equal(note', cleanNote'))
      /\ past' = Append(past, [texts |-> StandIns!Texts(note), sel |-> sel])
      /\ changes' = changes + 1
      /\ sel' = sel /\ saved' = saved /\ slipped' = slipped
  BY DEF StandIns!ReplaceAll
<1>3. \A i \in rest : note[i].same
  BY DEF StandIns!Intact
<1> HIDE DEF rest
<1>4. /\ note \in [Blocks -> BlockState] /\ sel \in Blocks \X Blocks /\ sel[1] \in Blocks /\ note[sel[1]].here
      /\ changes \in Nat /\ \A i \in Blocks : note[i].text <= changes
  BY DEF IStandIns
<1>5. PICK j \in Blocks \cap which : note[j].here
  BY <1>4
<1>6. Swapped(ready, note, rest)
  BY <1>4, RealSwaps
<1> HIDE DEF ready
<1>7. /\ ready \in [Blocks -> BlockState]
      /\ \A i \in Blocks : ready[i].here = note[i].here /\ ready[i].text <= changes
  BY <1>4, <1>6 DEF Swapped
<1>8. /\ note' \in [Blocks -> BlockState]
      /\ \A i \in Blocks : note'[i].here = ready[i].here /\ note'[i].real = ready[i].real
                           /\ (note'[i].same => ready[i].same) /\ note'[i].text <= changes + 1
      /\ StandIns!Texts(note') # StandIns!Texts(note)
  BY <1>1, <1>5, <1>7, TypedInKeeps
<1>9. /\ cleanNote' \in [Blocks -> BlockState]
      /\ \A i \in Blocks : ready[i].same => cleanNote'[i].same
      /\ \A i \in Blocks : cleanNote'[i].here => ready[i].real = cleanNote'[i].real
      /\ StandIns!Texts(cleanNote') = StandIns!Texts(IF isDirty THEN cleanNote ELSE note)
  BY <1>2, <1>3, <1>4, RebasedAgrees DEF ready
<1>10. /\ \A i \in Blocks : note'[i].same => cleanNote'[i].same
       /\ \A i \in Blocks : cleanNote'[i].here => note'[i].real = cleanNote'[i].real
  BY <1>8, <1>9
<1>11. StandIns!Equal(note', cleanNote') <=> StandIns!Texts(note') = StandIns!Texts(cleanNote')
  BY <1>8, <1>9, <1>10, EqualIsTexts
<1>12. ASSUME ~slipped
       PROVE  /\ saved = StandIns!Texts(cleanNote')
              /\ isDirty' <=> StandIns!Texts(note') # saved
  BY <1>2, <1>8, <1>9, <1>11, <1>12 DEF IStandIns, DirtyMeansEdited, StandIns!DirtyMeansEdited
<1>13. past' \in History /\ \A k \in 1..Len(past') : Remembered(past'[k], changes')
  BY <1>2, PastGrows
<1>14. /\ isDirty' \in BOOLEAN /\ slipped' \in BOOLEAN /\ sel' \in Blocks \X Blocks /\ note'[sel'[1]].here
       /\ changes' \in Nat /\ \A i \in Blocks : note'[i].text <= changes'
  BY <1>2, <1>4, <1>7, <1>8 DEF IStandIns
<1> QED
  BY <1>2, <1>8, <1>9, <1>10, <1>12, <1>13, <1>14
     DEF IStandIns, DirtyMeansEdited, StandIns!DirtyMeansEdited, Blocks, StandIns!Blocks

\* A save makes the note the baseline, and what was saved.
LEMMA CommitKeeps == ASSUME IStandIns, StandIns!Commit PROVE IStandIns'
<1>1. /\ note' = note /\ cleanNote' = note /\ sel' = sel /\ past' = past /\ changes' = changes
      /\ isDirty' = FALSE /\ slipped' = FALSE /\ saved' = StandIns!Texts(note)
  BY DEF StandIns!Commit
<1>2. past' \in History /\ \A k \in 1..Len(past') : Remembered(past'[k], changes')
  BY <1>1 DEF IStandIns
<1> QED
  BY <1>1, <1>2 DEF IStandIns, DirtyMeansEdited, StandIns!DirtyMeansEdited, StandIns!Texts

LEMMA StandInsStart == ASSUME StandIns!Init PROVE IStandIns
<1>1. /\ note = [i \in Blocks |-> [here |-> TRUE, text |-> 0, same |-> TRUE,
                                  real |-> i <= Initial \/ i \in Plain]]
      /\ cleanNote = note /\ sel = <<1, 1>> /\ past = <<>> /\ isDirty = FALSE
      /\ changes = 0 /\ saved = StandIns!Texts(note) /\ slipped = FALSE
  BY DEF StandIns!Init, Blocks
<1>2. 1 \in Blocks
  BY StandInConstants DEF Blocks, StandIns!Blocks
<1>3. \A i \in Blocks : note[i] \in BlockState /\ note[i].text = 0 /\ note[i].here
  BY <1>1 DEF BlockState
<1>4. note \in [Blocks -> BlockState]
  BY <1>1, <1>3
<1>5. past \in History /\ \A k \in 1..Len(past) : Remembered(past[k], changes)
  BY <1>1 DEF History
<1>6. sel \in Blocks \X Blocks /\ note[sel[1]].here
  BY <1>1, <1>2, <1>3
<1>7. /\ \A i \in Blocks : note[i].text <= changes
      /\ \A i \in Blocks : note[i].same => cleanNote[i].same
      /\ \A i \in Blocks : cleanNote[i].here => note[i].real = cleanNote[i].real
  BY <1>1, <1>3
<1>8. changes \in Nat /\ isDirty \in BOOLEAN /\ slipped \in BOOLEAN /\ cleanNote \in [Blocks -> BlockState]
      /\ saved = StandIns!Texts(cleanNote)
  BY <1>1, <1>4
<1>9. DirtyMeansEdited
  BY <1>1 DEF DirtyMeansEdited, StandIns!DirtyMeansEdited
<1> QED
  BY <1>4, <1>5, <1>6, <1>7, <1>8, <1>9 DEF IStandIns

LEMMA StandInsStep == ASSUME IStandIns, [StandIns!Next]_(StandIns!vars) PROVE IStandIns'
<1>0. changes \in Nat
  BY DEF IStandIns
<1>1. CASE StandIns!Frame
  <2>1. PICK window : StandIns!Enrich(note, window)
    BY <1>1 DEF StandIns!Frame
  <2>2. UNCHANGED <<sel, isDirty, past, changes, saved, slipped>>
    BY <1>1 DEF StandIns!Frame, StandIns!edited
  <2> QED
    BY <2>1, <2>2, EnrichKeeps
<1>2. CASE StandIns!IdleDrain
  <2>1. /\ StandIns!Enrich(note, StandIns!Window(StandIns!Blocks))
        /\ UNCHANGED <<sel, isDirty, past, changes, saved, slipped>>
    BY <1>2 DEF StandIns!IdleDrain, StandIns!edited
  <2> QED
    BY <2>1, EnrichKeeps
<1>3. CASE StandIns!Scroll
  BY <1>0, <1>3, QuietKeeps DEF StandIns!Scroll, StandIns!edited
<1>4. CASE StandIns!Compose
  BY <1>0, <1>4, QuietKeeps DEF StandIns!Compose
<1>5. CASE StandIns!EndComposition
  BY <1>0, <1>5, QuietKeeps DEF StandIns!EndComposition, StandIns!edited
<1>6. CASE UNCHANGED StandIns!vars
  BY <1>0, <1>6, QuietKeeps DEF StandIns!vars
<1> QED
  BY <1>1, <1>2, <1>3, <1>4, <1>5, <1>6, SelectKeeps, TypeKeeps, MarkKeeps, DeleteKeeps,
     DeleteBlockKeeps, UndoKeeps, ReplaceAllKeeps, CommitKeeps DEF StandIns!Next

\* A note opened deferred is called dirty just when its texts are not those of
\* the last save, however many of its stand-ins were swapped, typed in, undone
\* or replaced since, unless the baseline was taken from a note just edited
\* (NotoEditor.ts dispatchTransaction and enrichSpans).
THEOREM EnrichingIsNoEdit == StandIns!Spec => []DirtyMeansEdited
<1>1. IStandIns => DirtyMeansEdited
  BY DEF IStandIns
<1> QED
  BY <1>1, StandInsStart, StandInsStep, PTL DEF StandIns!Spec

(***************************************************************************)
(* Induction.                                                              *)
(***************************************************************************)
LEMMA LeastNumber ==
  ASSUME NEW T, T \subseteq Nat, T # {}
  PROVE  \E n \in T : \A m \in T : n <= m
<1> DEFINE R == {ss \in Nat \X Nat : ss[1] < ss[2]}
<1>1. IsWellFoundedOn(R, Nat)
  BY NatLessThanWellFounded DEF OpToRel
<1> HIDE DEF R
<1>2. PICK n \in T : \A m \in T : <<m, n>> \notin R
  BY <1>1, WFMin
<1>3. \A m \in T : m \in Nat /\ n \in Nat
  OBVIOUS
<1>4. ASSUME NEW m \in T, m < n PROVE FALSE
  <2>1. <<m, n>> \in R
    BY <1>3, <1>4 DEF R
  <2> QED
    BY <1>2, <2>1
<1> QED
  BY <1>3, <1>4

\* What is true of 0, and of n + 1 when it is of n, is true of every number.
LEMMA EveryNumber ==
  ASSUME NEW S, 0 \in S, \A n \in Nat : n \in S => n + 1 \in S
  PROVE  Nat \subseteq S
<1> SUFFICES ASSUME Nat \ S # {} PROVE FALSE
  OBVIOUS
<1>1. PICK n \in Nat \ S : \A m \in Nat \ S : n <= m
  <2>1. Nat \ S \subseteq Nat
    OBVIOUS
  <2> QED
    BY <2>1, LeastNumber
<1>2. n - 1 \in Nat \ S
  BY <1>1
<1> QED
  BY <1>1, <1>2

(***************************************************************************)
(* The page of a long note (SparseView).                                   *)
(***************************************************************************)
\* What comes before each index is the sum that it is defined to be.
LEMMA BeforeIs ==
  ASSUME NEW s \in Seq(Nat)
  PROVE  View!Before(s) = [i \in 1 .. Len(s) + 1 |-> IF i = 1 THEN 0 ELSE View!Before(s)[i - 1] + s[i - 1]]
<1> DEFINE Sums(f, n) == f = [i \in 1 .. n + 1 |-> IF i = 1 THEN 0 ELSE f[i - 1] + s[i - 1]]
           Summed(n) == \E f : Sums(f, n)
           S == {n \in Nat : n <= Len(s) => Summed(n)}
<1>1. 0 \in S
  <2> DEFINE f == [i \in 1..1 |-> 0]
  <2>1. Sums(f, 0)
    OBVIOUS
  <2> QED
    BY <2>1
<1>2. ASSUME NEW n \in Nat, n \in S PROVE n + 1 \in S
  <2>0. SUFFICES ASSUME n + 1 <= Len(s) PROVE Summed(n + 1)
    <3> HIDE DEF Summed
    <3> QED
      OBVIOUS
  <2>1. PICK f : Sums(f, n)
    <3> HIDE DEF Sums
    <3> QED
      BY <1>2, <2>0
  <2> DEFINE g == [i \in 1 .. n + 2 |-> IF i = n + 2 THEN f[n + 1] + s[n + 1] ELSE f[i]]
  <2>2. ASSUME NEW i \in 1 .. n + 2 PROVE g[i] = IF i = 1 THEN 0 ELSE g[i - 1] + s[i - 1]
    <3>1. CASE i = n + 2
      BY <3>1
    <3>2. CASE i # n + 2
      <4>1. i \in 1 .. n + 1
        BY <3>2
      <4>2. f[i] = IF i = 1 THEN 0 ELSE f[i - 1] + s[i - 1]
        BY <2>1, <4>1
      <4>3. g[i] = f[i] /\ (i # 1 => g[i - 1] = f[i - 1])
        BY <3>2, <4>1
      <4> QED
        BY <4>2, <4>3
    <3> QED
      BY <3>1, <3>2
  <2>3. g = [i \in 1 .. n + 2 |-> g[i]]
    OBVIOUS
  <2>4. Sums(g, n + 1)
    BY <2>2, <2>3
  <2> QED
    BY <2>4
<1>3. Nat \subseteq S
  <2> HIDE DEF S
  <2> QED
    BY <1>1, <1>2, EveryNumber
<1>4. \E f : Sums(f, Len(s))
  BY <1>3
<1> QED
  BY <1>4 DEF View!Before

LEMMA BeforeAdds ==
  ASSUME NEW s \in Seq(Nat)
  PROVE  /\ View!Before(s) \in [1 .. Len(s) + 1 -> Nat]
         /\ View!Before(s)[1] = 0
         /\ \A i \in 1 .. Len(s) : View!Before(s)[i + 1] = View!Before(s)[i] + s[i]
<1> DEFINE b == View!Before(s)
           S == {n \in Nat : n <= Len(s) => b[n + 1] \in Nat}
<1>0. Len(s) \in Nat /\ \A i \in 1 .. Len(s) : s[i] \in Nat
  OBVIOUS
<1>1. b = [i \in 1 .. Len(s) + 1 |-> IF i = 1 THEN 0 ELSE b[i - 1] + s[i - 1]]
  BY BeforeIs
<1> HIDE DEF b
<1>2. b[1] = 0
  BY <1>0, <1>1
<1>3. ASSUME NEW i \in 1 .. Len(s) PROVE b[i + 1] = b[i] + s[i]
  BY <1>0, <1>1
<1>4. 0 \in S
  BY <1>2
<1>5. ASSUME NEW n \in Nat, n \in S PROVE n + 1 \in S
  <2>1. n + 1 <= Len(s) => b[n + 1] \in Nat /\ s[n + 1] \in Nat /\ b[n + 2] = b[n + 1] + s[n + 1]
    BY <1>0, <1>3, <1>5
  <2> QED
    BY <2>1
<1>6. Nat \subseteq S
  <2> HIDE DEF S
  <2> QED
    BY <1>4, <1>5, EveryNumber
<1>7. ASSUME NEW i \in 1 .. Len(s) + 1 PROVE b[i] \in Nat
  <2>1. i - 1 \in Nat /\ i - 1 <= Len(s) /\ (i - 1) + 1 = i
    BY <1>0
  <2>2. i - 1 \in S
    <3> HIDE DEF S
    <3> QED
      BY <1>6, <2>1
  <2> QED
    BY <2>1, <2>2
<1>8. b \in [1 .. Len(s) + 1 -> Nat]
  BY <1>1, <1>7
<1> QED
  BY <1>2, <1>3, <1>8 DEF b

\* A page laid over a document: child n begins at block order[n], ends where
\* the next one begins, and is as large as what it covers.
LaidOut(order, p, d) ==
    /\ Len(p) \in Nat /\ DOMAIN p = 1 .. Len(p)
    /\ order \in [1 .. Len(p) + 1 -> 1 .. Len(d) + 1]
    /\ order[1] = 1 /\ order[Len(p) + 1] = Len(d) + 1
    /\ \A n \in 1 .. Len(p) : /\ View!Covers(p[n]) \in Nat
                              /\ order[n + 1] = order[n] + View!Covers(p[n])
                              /\ p[n].size = View!StartOf(d, order[n + 1]) - View!StartOf(d, order[n])

AddsUp(p, d) == \E order : LaidOut(order, p, d)

\* A child stands for the block it begins at.
LEMMA StandsFor ==
  ASSUME NEW p, NEW d \in Seq(Nat), NEW order, LaidOut(order, p, d)
  PROVE  \A n \in 1 .. Len(p) + 1 : View!FirstOf(p, n) = order[n]
<1> DEFINE c == [m \in DOMAIN p |-> View!Covers(p[m])]
           b == View!Before(c)
           S == {n \in Nat : n <= Len(p) => 1 + b[n + 1] = order[n + 1]}
<1>1. /\ Len(p) \in Nat /\ DOMAIN p = 1 .. Len(p) /\ Len(d) \in Nat
      /\ \A n \in 1 .. Len(p) + 1 : order[n] \in Nat
      /\ order[1] = 1
      /\ \A n \in 1 .. Len(p) : View!Covers(p[n]) \in Nat /\ order[n + 1] = order[n] + View!Covers(p[n])
  BY DEF LaidOut
<1>2. c \in Seq(Nat) /\ Len(c) = Len(p) /\ \A n \in 1 .. Len(p) : c[n] = View!Covers(p[n])
  BY <1>1
<1> HIDE DEF c
<1>3. /\ b[1] = 0
      /\ \A n \in 1 .. Len(p) : b[n + 1] = b[n] + c[n]
      /\ \A n \in 1 .. Len(p) + 1 : b[n] \in Nat
  BY <1>2, BeforeAdds
<1> HIDE DEF b
<1>4. 0 \in S
  BY <1>1, <1>3
<1>5. ASSUME NEW n \in Nat, n \in S PROVE n + 1 \in S
  <2>1. ASSUME n + 1 <= Len(p) PROVE 1 + b[n + 2] = order[n + 2]
    <3>1. n + 1 \in 1 .. Len(p) /\ n + 2 = (n + 1) + 1 /\ 1 + b[n + 1] = order[n + 1]
      BY <1>1, <1>5, <2>1
    <3>2. b[n + 2] = b[n + 1] + c[n + 1] /\ order[n + 2] = order[n + 1] + c[n + 1]
      BY <1>1, <1>2, <1>3, <3>1
    <3>3. b[n + 1] \in Nat /\ c[n + 1] \in Nat
      BY <1>1, <1>2, <1>3, <3>1
    <3> QED
      BY <3>1, <3>2, <3>3
  <2> QED
    BY <2>1
<1>6. Nat \subseteq S
  <2> HIDE DEF S
  <2> QED
    BY <1>4, <1>5, EveryNumber
<1>7. ASSUME NEW n \in 1 .. Len(p) + 1 PROVE 1 + b[n] = order[n]
  <2>1. n - 1 \in Nat /\ n - 1 <= Len(p) /\ (n - 1) + 1 = n
    BY <1>1
  <2>2. n - 1 \in S
    <3> HIDE DEF S
    <3> QED
      BY <1>6, <2>1
  <2> QED
    BY <2>1, <2>2
<1> QED
  BY <1>7 DEF View!FirstOf, b, c

\* The starts of a document's blocks.
LEMMA StartsAdd ==
  ASSUME NEW d \in Seq(Nat)
  PROVE  /\ \A i \in 1 .. Len(d) + 1 : View!StartOf(d, i) \in Nat
         /\ \A i \in 1 .. Len(d) : View!StartOf(d, i + 1) = View!StartOf(d, i) + d[i]
BY BeforeAdds DEF View!StartOf

\* A page laid out over the document is the document.
LEMMA LaidOutIsDocument ==
  ASSUME sizes \in Seq(Nat), AddsUp(children, sizes) PROVE PageIsDocument
<1>1. PICK order : LaidOut(order, children, sizes)
  BY DEF AddsUp
<1>2. Len(children) \in Nat /\ DOMAIN children = 1 .. Len(children)
  BY <1>1 DEF LaidOut
<1>3. \A n \in 1 .. Len(children) + 1 : View!FirstOf(children, n) = order[n]
  BY <1>1, StandsFor
<1>4. View!FirstOf(children, Len(children) + 1) = Len(sizes) + 1
  BY <1>1, <1>2, <1>3 DEF LaidOut
<1>5. ASSUME NEW n \in DOMAIN children
      PROVE  LET i == View!FirstOf(children, n)
             IN children[n].size = View!StartOf(sizes, i + View!Covers(children[n])) - View!StartOf(sizes, i)
  <2>1. n \in 1 .. Len(children) /\ n \in 1 .. Len(children) + 1
    BY <1>2
  <2>2. /\ order[n + 1] = order[n] + View!Covers(children[n])
        /\ children[n].size = View!StartOf(sizes, order[n + 1]) - View!StartOf(sizes, order[n])
    BY <1>1, <2>1 DEF LaidOut
  <2>3. View!FirstOf(children, n) = order[n]
    BY <1>3, <2>1
  <2> QED
    BY <2>2, <2>3
<1> QED
  BY <1>4, <1>5 DEF PageIsDocument, View!PageIsDocument

\* With a view for every block, child n is block n.
LEMMA AllRealAddsUp ==
  ASSUME NEW d \in Seq(Nat) PROVE AddsUp(View!AllReal(d), d)
<1> DEFINE p == View!AllReal(d)
           order == [n \in 1 .. Len(d) + 1 |-> n]
<1>1. Len(d) \in Nat /\ DOMAIN d = 1 .. Len(d)
  OBVIOUS
<1>2. p = [i \in 1 .. Len(d) |-> View!Real(d[i])]
  BY <1>1 DEF View!AllReal
<1>3. Len(p) = Len(d) /\ DOMAIN p = 1 .. Len(d)
  BY <1>1, <1>2
<1>4. ASSUME NEW n \in 1 .. Len(d) PROVE View!Covers(p[n]) = 1 /\ p[n].size = d[n]
  BY <1>2 DEF View!Covers, View!IsSpacer, View!Real
<1> HIDE DEF p
<1>5. \A n \in 1 .. Len(d) : d[n] = View!StartOf(d, n + 1) - View!StartOf(d, n)
  <2>1. ASSUME NEW n \in 1 .. Len(d) PROVE d[n] = View!StartOf(d, n + 1) - View!StartOf(d, n)
    <3>1. View!StartOf(d, n) \in Nat /\ d[n] \in Nat /\ View!StartOf(d, n + 1) = View!StartOf(d, n) + d[n]
      BY <1>1, StartsAdd
    <3> QED
      BY <3>1
  <2> QED
    BY <2>1
<1>6. LaidOut(order, p, d)
  BY <1>1, <1>3, <1>4, <1>5 DEF LaidOut
<1> QED
  BY <1>6 DEF AddsUp, p

\* The recursion that collects the firsts is one.
LEMMA FirstsIs ==
  ASSUME NEW d \in Seq(Nat), NEW s
  PROVE  \E f : /\ f = [i \in 0 .. Len(d) |->
                          IF i = 0 THEN <<>> ELSE IF View!Heads(d, s, i) THEN Append(f[i - 1], i) ELSE f[i - 1]]
                /\ View!Firsts(d, s) = f[Len(d)]
<1> DEFINE Longer(q, i) == IF View!Heads(d, s, i) THEN Append(q, i) ELSE q
           Collects(f, n) == f = [i \in 0 .. n |-> IF i = 0 THEN <<>> ELSE Longer(f[i - 1], i)]
           Collected(n) == \E f : Collects(f, n)
           S == {n \in Nat : Collected(n)}
<1>1. 0 \in S
  <2> DEFINE f == [i \in 0..0 |-> <<>>]
  <2> HIDE DEF Longer
  <2>1. Collects(f, 0)
    OBVIOUS
  <2>2. Collected(0)
    BY <2>1
  <2> HIDE DEF Collected
  <2> QED
    BY <2>2
<1>2. ASSUME NEW n \in Nat, n \in S PROVE n + 1 \in S
  <2>1. PICK f : Collects(f, n)
    <3> HIDE DEF Collects
    <3> QED
      BY <1>2
  <2> HIDE DEF Longer
  <2> DEFINE g == [i \in 0 .. n + 1 |-> IF i = n + 1 THEN Longer(f[n], n + 1) ELSE f[i]]
  <2>2. ASSUME NEW i \in 0 .. n + 1 PROVE g[i] = IF i = 0 THEN <<>> ELSE Longer(g[i - 1], i)
    <3>1. CASE i = n + 1
      BY <3>1
    <3>2. CASE i # n + 1
      <4>1. i \in 0 .. n
        BY <3>2
      <4>2. f[i] = IF i = 0 THEN <<>> ELSE Longer(f[i - 1], i)
        BY <2>1, <4>1
      <4>3. g[i] = f[i] /\ (i # 0 => g[i - 1] = f[i - 1])
        BY <3>2, <4>1
      <4> QED
        BY <4>2, <4>3
    <3> QED
      BY <3>1, <3>2
  <2>3. g = [i \in 0 .. n + 1 |-> g[i]]
    OBVIOUS
  <2> HIDE DEF g
  <2>4. Collects(g, n + 1)
    BY <2>2, <2>3
  <2>5. Collected(n + 1)
    BY <2>4
  <2> HIDE DEF Collected
  <2> QED
    BY <2>5
<1>3. Nat \subseteq S
  <2> HIDE DEF S
  <2> QED
    BY <1>1, <1>2, EveryNumber
<1>4. PICK f : Collects(f, Len(d))
  <2>1. Len(d) \in Nat
    OBVIOUS
  <2> QED
    BY <1>3, <2>1
<1>5. View!Firsts(d, s) = (CHOOSE g : Collects(g, Len(d)))[Len(d)]
  BY DEF View!Firsts
<1>6. Collects(CHOOSE g : Collects(g, Len(d)), Len(d))
  <2> HIDE DEF Collects
  <2> QED
    BY <1>4
<1> QED
  BY <1>5, <1>6

\* Firsts in order, with none left out, up to block i.
Orders(o, i, d, s) ==
    /\ o \in Seq(Nat)
    /\ \A n \in 1 .. Len(o) : o[n] \in 1 .. i
    /\ i > 0 => Len(o) > 0 /\ o[1] = 1
    /\ \A n \in 1 .. Len(o) - 1 : o[n] < o[n + 1] /\ \A k \in o[n] + 1 .. o[n + 1] - 1 : ~View!Heads(d, s, k)
    /\ Len(o) > 0 => \A k \in o[Len(o)] + 1 .. i : ~View!Heads(d, s, k)

LEMMA OrdersOn ==
  ASSUME NEW d, NEW s, NEW i \in Nat, NEW o, Orders(o, i, d, s)
  PROVE  Orders(IF View!Heads(d, s, i + 1) THEN Append(o, i + 1) ELSE o, i + 1, d, s)
<1>1. o \in Seq(Nat) /\ Len(o) \in Nat
  BY DEF Orders
<1>2. CASE View!Heads(d, s, i + 1)
  <2> DEFINE q == Append(o, i + 1)
  <2>1. /\ q \in Seq(Nat) /\ Len(q) = Len(o) + 1 /\ q[Len(o) + 1] = i + 1
        /\ \A n \in 1 .. Len(o) : q[n] = o[n]
    BY <1>1
  <2> HIDE DEF q
  <2>2. \A n \in 1 .. Len(q) : q[n] \in 1 .. i + 1
    <3>1. ASSUME NEW n \in 1 .. Len(q) PROVE q[n] \in 1 .. i + 1
      <4>1. CASE n = Len(o) + 1
        BY <2>1, <4>1
      <4>2. CASE n # Len(o) + 1
        <5>1. n \in 1 .. Len(o) /\ q[n] = o[n] /\ o[n] \in 1 .. i
          BY <1>1, <2>1, <4>2 DEF Orders
        <5> QED
          BY <5>1
      <4> QED
        BY <4>1, <4>2
    <3> QED
      BY <3>1
  <2>3. Len(q) > 0 /\ q[1] = 1
    <3>1. CASE i = 0
      <4>1. Len(o) = 0
        BY <1>1, <3>1 DEF Orders
      <4> QED
        BY <2>1, <3>1, <4>1
    <3>2. CASE i > 0
      BY <1>1, <2>1, <3>2 DEF Orders
    <3> QED
      BY <3>1, <3>2
  <2>4. ASSUME NEW n \in 1 .. Len(q) - 1
        PROVE  q[n] < q[n + 1] /\ \A k \in q[n] + 1 .. q[n + 1] - 1 : ~View!Heads(d, s, k)
    <3>1. n \in 1 .. Len(o) /\ q[n] = o[n] /\ o[n] \in 1 .. i
      BY <1>1, <2>1 DEF Orders
    <3>2. CASE n = Len(o)
      <4>1. q[n + 1] = i + 1 /\ q[n] = o[Len(o)]
        BY <2>1, <3>1, <3>2
      <4> QED
        BY <1>1, <3>1, <3>2, <4>1 DEF Orders
    <3>3. CASE n # Len(o)
      <4>1. n \in 1 .. Len(o) - 1 /\ n + 1 \in 1 .. Len(o)
        BY <1>1, <3>1, <3>3
      <4> QED
        BY <2>1, <3>1, <4>1 DEF Orders
    <3> QED
      BY <3>2, <3>3
  <2>5. \A k \in q[Len(q)] + 1 .. i + 1 : ~View!Heads(d, s, k)
    BY <2>1
  <2> QED
    BY <1>2, <2>1, <2>2, <2>3, <2>4, <2>5 DEF Orders, q
<1>3. CASE ~View!Heads(d, s, i + 1)
  <2>1. i > 0
    BY <1>3 DEF View!Heads
  <2>2. /\ \A n \in 1 .. Len(o) : o[n] \in 1 .. i + 1
        /\ Len(o) > 0 /\ o[1] = 1
    BY <2>1 DEF Orders
  <2>3. \A k \in o[Len(o)] + 1 .. i + 1 : ~View!Heads(d, s, k)
    <3>1. o[Len(o)] \in 1 .. i
      BY <1>1, <2>2 DEF Orders
    <3>2. ASSUME NEW k \in o[Len(o)] + 1 .. i + 1 PROVE ~View!Heads(d, s, k)
      <4>1. k = i + 1 \/ k \in o[Len(o)] + 1 .. i
        BY <3>1
      <4> QED
        BY <1>3, <2>2, <4>1 DEF Orders
    <3> QED
      BY <3>2
  <2> QED
    BY <1>1, <1>3, <2>2, <2>3 DEF Orders
<1> QED
  BY <1>2, <1>3

LEMMA FirstsInOrder ==
  ASSUME NEW d \in Seq(Nat), NEW s PROVE Orders(View!Firsts(d, s), Len(d), d, s)
<1>1. PICK f : /\ f = [i \in 0 .. Len(d) |->
                         IF i = 0 THEN <<>> ELSE IF View!Heads(d, s, i) THEN Append(f[i - 1], i) ELSE f[i - 1]]
               /\ View!Firsts(d, s) = f[Len(d)]
  BY FirstsIs
<1> DEFINE S == {n \in Nat : n <= Len(d) => Orders(f[n], n, d, s)}
<1>2. Len(d) \in Nat
  OBVIOUS
<1>3. 0 \in S
  <2>1. f[0] = <<>>
    BY <1>1, <1>2
  <2>2. Orders(<<>>, 0, d, s)
    BY DEF Orders
  <2> QED
    BY <2>1, <2>2
<1>4. ASSUME NEW n \in Nat, n \in S PROVE n + 1 \in S
  <2>1. ASSUME n + 1 <= Len(d) PROVE Orders(f[n + 1], n + 1, d, s)
    <3>1. Orders(f[n], n, d, s)
      BY <1>2, <1>4, <2>1
    <3>2. f[n + 1] = IF View!Heads(d, s, n + 1) THEN Append(f[n], n + 1) ELSE f[n]
      <4>1. n + 1 \in 0 .. Len(d) /\ n + 1 # 0 /\ (n + 1) - 1 = n
        BY <1>2, <2>1
      <4>2. f[n + 1] = IF n + 1 = 0 THEN <<>>
                       ELSE IF View!Heads(d, s, n + 1) THEN Append(f[(n + 1) - 1], n + 1) ELSE f[(n + 1) - 1]
        BY <1>1, <4>1
      <4> QED
        BY <4>1, <4>2
    <3> QED
      BY <3>1, <3>2, OrdersOn
  <2> QED
    BY <2>1
<1>5. Nat \subseteq S
  <2> HIDE DEF S
  <2> QED
    BY <1>3, <1>4, EveryNumber
<1>6. Len(d) \in S
  <2> HIDE DEF S
  <2> QED
    BY <1>2, <1>5
<1> QED
  BY <1>1, <1>2, <1>6

\* A rebuilt page adds up, whatever it was made of.
LEMMA RebuiltAddsUp ==
  ASSUME NEW p, NEW d \in Seq(Nat), NEW s PROVE AddsUp(View!Rebuilt(p, d, s), d)
<1> DEFINE o == View!Firsts(d, s)
           EndOf(n) == IF n < Len(o) THEN o[n + 1] - 1 ELSE Len(d)
           New(n) == View!Spacer(d, o[n], EndOf(n))
           old(n) == {child \in View!Range(p) : View!IsSpacer(child) /\ View!ReusedSpacer(child, New(n))}
           r == View!Rebuilt(p, d, s)
           order == [n \in 1 .. Len(o) + 1 |-> IF n \in 1 .. Len(o) THEN o[n] ELSE Len(d) + 1]
<1>1. Orders(o, Len(d), d, s) /\ Len(d) \in Nat
  BY FirstsInOrder
<1>2. r = [n \in DOMAIN o |->
             IF ~View!IsStubbed(s, d, o[n]) THEN View!Real(d[o[n]])
             ELSE IF old(n) # {} THEN CHOOSE child \in old(n) : TRUE
             ELSE New(n)]
  BY DEF View!Rebuilt
<1> HIDE DEF o, r
<1>a. \A c \in Nat : \A n \in 1 .. c : ~(n < c) => n = c /\ c > 0 /\ n + 1 \notin 1 .. c /\ n + 1 \in 1 .. c + 1
  OBVIOUS
<1>3. o \in Seq(Nat) /\ Len(o) \in Nat /\ DOMAIN o = 1 .. Len(o)
  BY <1>1 DEF Orders
<1>4. Len(r) = Len(o) /\ DOMAIN r = 1 .. Len(o)
  BY <1>2, <1>3
<1>5. /\ order \in [1 .. Len(o) + 1 -> 1 .. Len(d) + 1]
      /\ order[1] = 1 /\ order[Len(o) + 1] = Len(d) + 1
  <2>1. \A n \in 1 .. Len(o) : o[n] \in 1 .. Len(d)
    BY <1>1 DEF Orders
  <2>2. ASSUME NEW n \in 1 .. Len(o) + 1 PROVE order[n] \in 1 .. Len(d) + 1
    BY <1>1, <1>3, <2>1
  <2>3. order[Len(o) + 1] = Len(d) + 1
    BY <1>3
  <2>4. order[1] = 1
    <3>1. CASE Len(o) > 0
      BY <1>1, <1>3, <3>1, <2>1 DEF Orders
    <3>2. CASE Len(o) = 0
      <4>1. Len(d) = 0
        BY <1>1, <3>2 DEF Orders
      <4> QED
        BY <3>2, <4>1
    <3> QED
      BY <1>3, <3>1, <3>2
  <2> QED
    BY <2>2, <2>3, <2>4
<1>6. ASSUME NEW n \in 1 .. Len(o)
      PROVE  /\ order[n] = o[n] /\ o[n] \in 1 .. Len(d) /\ order[n + 1] = EndOf(n) + 1 /\ EndOf(n) \in o[n] .. Len(d)
             /\ ~View!IsStubbed(s, d, o[n]) => EndOf(n) = o[n]
  <2>1. order[n] = o[n] /\ o[n] \in 1 .. Len(d)
    BY <1>1 DEF Orders
  <2>2. \A k \in o[n] + 1 .. EndOf(n) : ~View!Heads(d, s, k)
    <3>1. CASE n < Len(o)
      <4>1. n \in 1 .. Len(o) - 1
        BY <1>3, <3>1
      <4> QED
        BY <1>1, <3>1, <4>1 DEF Orders
    <3>2. CASE ~(n < Len(o))
      <4>1. n = Len(o) /\ Len(o) > 0
        BY <1>3, <1>a, <3>2
      <4> QED
        BY <1>1, <3>2, <4>1 DEF Orders
    <3> QED
      BY <3>1, <3>2
  <2>3. order[n + 1] = EndOf(n) + 1 /\ EndOf(n) \in o[n] .. Len(d)
    <3>1. CASE n < Len(o)
      <4>1. n \in 1 .. Len(o) - 1 /\ n + 1 \in 1 .. Len(o)
        BY <1>3, <3>1
      <4>2. o[n] < o[n + 1] /\ o[n + 1] \in 1 .. Len(d)
        BY <1>1, <4>1 DEF Orders
      <4> QED
        BY <1>3, <2>1, <3>1, <4>1, <4>2
    <3>2. CASE ~(n < Len(o))
      <4>1. n = Len(o) /\ n + 1 \notin 1 .. Len(o) /\ n + 1 \in 1 .. Len(o) + 1
        BY <1>3, <1>a, <3>2
      <4> QED
        BY <1>1, <2>1, <3>2, <4>1
    <3> QED
      BY <3>1, <3>2
  <2>4. ASSUME ~View!IsStubbed(s, d, o[n]), EndOf(n) # o[n] PROVE FALSE
    <3> HIDE DEF EndOf
    <3>1. o[n] + 1 \in o[n] + 1 .. EndOf(n) /\ (o[n] + 1) - 1 = o[n]
      BY <1>1, <2>1, <2>3, <2>4
    <3>2. View!Heads(d, s, o[n] + 1)
      BY <2>4, <3>1 DEF View!Heads
    <3> QED
      BY <2>2, <3>1, <3>2
  <2> QED
    BY <2>1, <2>3, <2>4
<1> HIDE DEF order, EndOf
<1>7. ASSUME NEW n \in 1 .. Len(o)
      PROVE  /\ View!Covers(r[n]) = EndOf(n) + 1 - o[n]
             /\ r[n].size = View!StartOf(d, EndOf(n) + 1) - View!StartOf(d, o[n])
  <2>0. o[n] \in 1 .. Len(d) /\ EndOf(n) \in Nat
    BY <1>1, <1>6
  <2>1. CASE ~View!IsStubbed(s, d, o[n])
    <3>1. r[n] = View!Real(d[o[n]])
      BY <1>2, <1>3, <2>1
    <3>2. View!Covers(r[n]) = 1 /\ r[n].size = d[o[n]]
      BY <3>1 DEF View!Covers, View!IsSpacer, View!Real
    <3>3. EndOf(n) = o[n]
      BY <1>6, <2>1
    <3>4. /\ View!StartOf(d, o[n] + 1) = View!StartOf(d, o[n]) + d[o[n]]
          /\ View!StartOf(d, o[n]) \in Nat /\ d[o[n]] \in Nat
      BY <1>1, <2>0, StartsAdd
    <3> QED
      BY <2>0, <3>2, <3>3, <3>4
  <2>2. CASE View!IsStubbed(s, d, o[n])
    <3>1. /\ New(n).is = "spacer" /\ New(n).from = o[n] /\ New(n).to = EndOf(n)
          /\ New(n).size = View!StartOf(d, EndOf(n) + 1) - View!StartOf(d, o[n])
      BY DEF View!Spacer
    <3> HIDE DEF New
    <3>2. r[n] = IF old(n) # {} THEN CHOOSE child \in old(n) : TRUE ELSE New(n)
      BY <1>2, <1>3, <2>2
    <3>3. View!IsSpacer(r[n]) /\ r[n].from = New(n).from /\ r[n].to = New(n).to /\ r[n].size = New(n).size
      <4>1. CASE old(n) # {}
        <5>1. r[n] \in old(n)
          BY <3>2, <4>1
        <5> QED
          BY <5>1 DEF View!ReusedSpacer
      <4>2. CASE old(n) = {}
        <5>1. r[n] = New(n)
          BY <3>2, <4>2
        <5> QED
          BY <3>1, <5>1 DEF View!IsSpacer
      <4> QED
        BY <4>1, <4>2
    <3>4. View!Covers(r[n]) = r[n].to + 1 - r[n].from
      BY <3>3 DEF View!Covers
    <3> QED
      BY <3>1, <3>3, <3>4
  <2> QED
    BY <2>1, <2>2
<1>8. ASSUME NEW n \in 1 .. Len(r)
      PROVE  /\ View!Covers(r[n]) \in Nat
             /\ order[n + 1] = order[n] + View!Covers(r[n])
             /\ r[n].size = View!StartOf(d, order[n + 1]) - View!StartOf(d, order[n])
  <2>1. /\ n \in 1 .. Len(o)
        /\ order[n] = o[n] /\ o[n] \in 1 .. Len(d) /\ order[n + 1] = EndOf(n) + 1 /\ EndOf(n) \in o[n] .. Len(d)
    BY <1>4, <1>6
  <2>2. /\ View!Covers(r[n]) = EndOf(n) + 1 - o[n]
        /\ r[n].size = View!StartOf(d, EndOf(n) + 1) - View!StartOf(d, o[n])
    BY <1>7, <2>1
  <2> QED
    BY <1>1, <2>1, <2>2
<1>9. LaidOut(order, r, d)
  BY <1>3, <1>4, <1>5, <1>8 DEF LaidOut
<1> QED
  BY <1>9 DEF AddsUp, r

\* The page adds up after every transaction and its redraw.
IPage ==
    /\ sizes \in Seq(Nat)
    /\ AddsUp(children, sizes)

LEMMA RedrawAddsUp ==
  ASSUME IPage, NEW d \in Seq(Nat), NEW picked, NEW s, NEW changed, View!Redraw(d, picked, s, changed),
         changed \/ d = sizes
  PROVE  IPage'
<1>1. sizes' = d
  BY DEF View!Redraw
<1>2. CASE children' = View!AllReal(d)
  BY <1>1, <1>2, AllRealAddsUp DEF IPage
<1>3. CASE children' = View!Rebuilt(children, d, s)
  BY <1>1, <1>3, RebuiltAddsUp DEF IPage
<1>4. CASE children' = children /\ ~changed
  BY <1>1, <1>4 DEF IPage
<1> QED
  BY <1>2, <1>3, <1>4 DEF View!Redraw

LEMMA PageStart == ASSUME View!Init PROVE IPage
<1>1. sizes \in Seq(Nat)
  <2>1. sizes \in Seq(Nat \ {0})
    BY SparseViewConstants DEF View!Init
  <2> QED
    BY <2>1
<1>2. children = View!Rebuilt(<<>>, sizes, stub) \/ children = View!AllReal(sizes)
  BY DEF View!Init
<1> QED
  BY <1>1, <1>2, RebuiltAddsUp, AllRealAddsUp DEF IPage

LEMMA PageStep == ASSUME IPage, [View!Next]_(View!vars) PROVE IPage'
<1>0. sizes \in Seq(Nat)
  BY DEF IPage
<1>1. CASE UNCHANGED <<sizes, children>>
  BY <1>1 DEF IPage
<1>2. ASSUME NEW fr, NEW refill, View!FollowScroller(fr, refill) PROVE IPage'
  BY <1>0, <1>1, <1>2, RedrawAddsUp DEF View!FollowScroller, View!drawn
<1>3. CASE View!Select
  BY <1>0, <1>3, RedrawAddsUp DEF View!Select
<1>4. CASE View!Edit
  <2>1. PICK k \in DOMAIN sizes, removed \in 0 .. 2, w \in Pasted :
          k + removed <= Len(sizes) + 1 /\ View!Replaced(k, removed, w)
    BY <1>4 DEF View!Edit
  <2>2. w \in Seq(Nat) /\ Len(sizes) \in Nat /\ k \in 1 .. Len(sizes)
    <3>1. w \in Seq(Nat \ {0})
      BY SparseViewConstants
    <3> QED
      BY <1>0, <3>1
  <2>3. SubSeq(sizes, 1, k - 1) \in Seq(Nat) /\ SubSeq(sizes, k + removed, Len(sizes)) \in Seq(Nat)
    <3>1. \A j \in 1 .. Len(sizes) : sizes[j] \in Nat
      BY <1>0
    <3>2. ASSUME NEW i \in Int, NEW j \in Int, 1 <= i, j <= Len(sizes) PROVE SubSeq(sizes, i, j) \in Seq(Nat)
      <4>1. \A h \in i .. j : sizes[h] \in Nat
        BY <2>2, <3>1, <3>2
      <4> QED
        BY <4>1, SubSeqProperties
    <3>3. k - 1 \in Int /\ k - 1 <= Len(sizes) /\ k + removed \in Int /\ 1 <= k + removed /\ Len(sizes) \in Int
      BY <2>2
    <3> QED
      BY <3>2, <3>3
  <2>4. View!Spliced(sizes, k, removed, w) \in Seq(Nat)
    BY <2>2, <2>3, ConcatProperties DEF View!Spliced
  <2>5. ASSUME NEW d \in Seq(Nat), NEW picked, NEW s, View!EditedTo(d, picked, s) PROVE IPage'
    BY <2>5, RedrawAddsUp DEF View!EditedTo
  <2> QED
    BY <2>1, <2>4, <2>5 DEF View!Replaced
<1>5. CASE View!Scroll \/ View!MeasureFrame \/ UNCHANGED View!vars
  BY <1>1, <1>5 DEF View!Scroll, View!MeasureFrame, View!drawn, View!vars
<1> QED
  BY <1>2, <1>3, <1>4, <1>5 DEF View!Next, View!ScrollFrame, View!ResyncFrame

\* However long the note, and whatever is scrolled, selected, measured and
\* edited, the children of the document's view add up to the document: a
\* position means the same in both (sparse-doc-view.ts, rebuildSparseChildren).
THEOREM PageAddsUp == View!Spec => []PageIsDocument
<1>1. IPage => PageIsDocument
  BY LaidOutIsDocument DEF IPage
<1> QED
  BY <1>1, PageStart, PageStep, PTL DEF View!Spec
=============================================================================
