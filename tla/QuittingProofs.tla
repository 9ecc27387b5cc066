--------------------------- MODULE QuittingProofs ---------------------------
(***************************************************************************)
(* What Quitting promises of the reader's edits and settings, however      *)
(* often the reader quits, types and changes settings.                     *)
(*                                                                         *)
(* The settings need the shape of the chain: as long as no write failed,   *)
(* it is what lies between the settings on disk and those wanted, in       *)
(* order, so a chain with nothing old in it means a disk that is not old.  *)
(***************************************************************************)
EXTENDS Quitting, SequenceTheorems, TLAPS

\* Before a shutdown the documents are open, and nothing was lost.
IStores == step = 0 => stores /\ ~lost

\* The chain holds the settings the disk does not have yet, in order.
InOrder ==
    /\ disk + Len(chain) = wanted
    /\ \A i \in 1..Len(chain) : chain[i] = disk + i

\* The last step waits for settings that were made, and once it is over they
\* are on disk.
ISettings ==
    /\ drained <= wanted
    /\ ~cut => InOrder
    /\ ~cut /\ step = Done => disk >= drained

IQuitting == TypeOK /\ IStores /\ ISettings

-----------------------------------------------------------------------------
\* The app starts with its documents open and its settings read.
LEMMA QuittingInit == Init => IQuitting
<1> SUFFICES ASSUME Init PROVE IQuitting
  OBVIOUS
<1>1. TypeOK
  <2>1. chain \in Seq(Nat) /\ step \in 0..Done
    BY DEF Init, Done, Settings
  <2> QED
    BY <2>1 DEF Init, TypeOK
<1>2. IStores /\ ISettings
  BY DEF Init, IStores, ISettings, InOrder, Done, Settings
<1> QED
  BY <1>1, <1>2 DEF IQuitting

\* The chain without its first snapshot.
LEMMA ShorterChain ==
  ASSUME NEW c \in Seq(Nat), c # <<>>
  PROVE  LET d == [k \in 1..Len(c) - 1 |-> IF k < 1 THEN c[k] ELSE c[k + 1]] IN
         /\ d \in Seq(Nat) /\ Len(d) = Len(c) - 1
         /\ \A k \in 1..Len(d) : d[k] = c[k + 1]
         /\ 1 \in 1..Len(c) /\ c[1] \in Nat
<1> DEFINE d == [k \in 1..Len(c) - 1 |-> IF k < 1 THEN c[k] ELSE c[k + 1]]
<1>1. Len(c) \in Nat \ {0} /\ \A k \in 1..Len(c) : c[k] \in Nat
  BY EmptySeq, LenProperties, ElementOfSeq
<1>2. \A k \in 1..Len(c) - 1 : k + 1 \in 1..Len(c) /\ ~(k < 1)
  BY <1>1
<1>3. \A k \in 1..Len(c) - 1 : d[k] = c[k + 1] /\ d[k] \in Nat
  BY <1>1, <1>2
<1>4. d \in Seq(Nat) /\ Len(d) = Len(c) - 1
  BY <1>1, <1>3, IsASeq
<1> QED
  BY <1>1, <1>3, <1>4

\* Quitting moves the shutdown on, or asks.
LEMMA BeforeQuitTypes ==
  ASSUME TypeOK, NEW discarded \in BOOLEAN, NEW asked \in BOOLEAN, BeforeQuit(discarded, asked)
  PROVE  /\ app' \in {"runs", "exited"} /\ step' \in 0..Done
         /\ stores' \in BOOLEAN /\ asking' \in BOOLEAN /\ cut' \in BOOLEAN
         /\ step' = 0 => step = 0 /\ stores' = stores
         /\ step' = Done <=> step = Done
         /\ cut => cut'
<1>1. CASE Held(discarded)
  BY <1>1 DEF TypeOK, BeforeQuit
<1>2. CASE ~Held(discarded)
  <2>1. asking' = asked /\ Passes
    BY <1>2 DEF BeforeQuit
  <2>2. app' \in {"runs", "exited"} /\ stores' \in BOOLEAN /\ asking' \in BOOLEAN
    BY <2>1 DEF TypeOK, Passes
  <2>3. cut' = (cut \/ step \in 1..Settings)
    BY <2>1 DEF Passes
  <2>4. /\ step' \in 0..Done /\ (step' = 0 => FALSE) /\ (step' = Done <=> step = Done)
    BY <2>1 DEF TypeOK, Passes, Done, Settings
  <2> QED
    BY <2>2, <2>3, <2>4
<1> QED
  BY <1>1, <1>2

\* Every step keeps the types.
LEMMA TypeStep == TypeOK /\ [Next]_vars => TypeOK'
<1> SUFFICES ASSUME TypeOK, [Next]_vars PROVE TypeOK'
  OBVIOUS
<1> USE DEF settingsVars, quitVars
<1>1. CASE Quit
  <2>1. BeforeQuit(discard, asking) /\ discard \in BOOLEAN /\ asking \in BOOLEAN
    BY <1>1 DEF Quit, TypeOK
  <2> QED
    BY <1>1, <2>1, BeforeQuitTypes DEF Quit, TypeOK
<1>2. CASE CloseWindow
  <2>1. BeforeQuit(discard, FALSE) /\ discard \in BOOLEAN
    BY <1>2 DEF CloseWindow, TypeOK
  <2> QED
    BY <1>2, <2>1, BeforeQuitTypes DEF CloseWindow, TypeOK, Held
<1>3. CASE Discard
  <2>1. BeforeQuit(TRUE, FALSE)
    BY <1>3 DEF Discard
  <2> QED
    BY <1>3, <2>1, BeforeQuitTypes DEF Discard, TypeOK
<1>4. CASE Review
  BY <1>4 DEF Review, TypeOK
<1>5. CASE StepSettles \/ StepIsLate
  <2>1. step \in 1..Settings /\ StepOver /\ wanted \in Nat /\ drained \in Nat
    BY <1>5 DEF StepSettles, StepIsLate, Deadline, TypeOK
  <2>2. step' \in 0..Done /\ drained' \in Nat
    BY <2>1 DEF StepOver, Done, Settings
  <2>3. app' \in {"runs", "exited"} /\ stores' \in BOOLEAN /\ asking' \in BOOLEAN
    BY <2>1 DEF StepOver, TypeOK
  <2>4. UNCHANGED <<window, dirty, unsaved, discard, settingsVars, edits, quits, lost>>
        /\ cut' \in BOOLEAN
    BY <1>5 DEF StepSettles, StepIsLate, TypeOK
  <2> QED
    BY <2>2, <2>3, <2>4 DEF TypeOK
<1>6. CASE Type \/ Save \/ Report
  <2>1. dirty' \in BOOLEAN /\ unsaved' \in BOOLEAN
    BY <1>6 DEF Type, Save, Report, TypeOK
  <2>2. edits' \in Nat
    BY <1>6 DEF Type, Save, Report, TypeOK
  <2> QED
    BY <1>6, <2>1, <2>2 DEF Type, Save, Report, TypeOK
<1>7. CASE Update
  BY <1>7, AppendProperties DEF Update, TypeOK
<1>8. ASSUME NEW fails \in BOOLEAN, Persist(fails) PROVE TypeOK'
  <2>1. chain # <<>> /\ \E i \in {1} :
          /\ disk' = IF fails THEN disk ELSE chain[i]
          /\ chain' = [k \in 1..Len(chain) - 1 |-> IF k < i THEN chain[k] ELSE chain[k + 1]]
    BY <1>8 DEF Persist, NextSnapshot
  <2>2. chain \in Seq(Nat)
    BY DEF TypeOK
  <2>3. chain' \in Seq(Nat) /\ disk' \in Nat
    BY <2>1, <2>2, ShorterChain DEF TypeOK
  <2> QED
    BY <1>8, <2>3 DEF Persist, TypeOK
<1>9. CASE UNCHANGED vars
  BY <1>9 DEF vars, TypeOK
<1> QED
  BY <1>1, <1>2, <1>3, <1>4, <1>5, <1>6, <1>7, <1>8, <1>9 DEF Next

\* Stores are closed, and edits replaced, only once the shutdown has begun.
LEMMA StoresStep == TypeOK /\ IStores /\ [Next]_vars => IStores'
<1> SUFFICES ASSUME TypeOK, IStores, [Next]_vars PROVE IStores'
  OBVIOUS
<1> USE DEF IStores, settingsVars, quitVars
<1>1. CASE Quit \/ CloseWindow \/ Discard
  <2>1. PICK discarded \in BOOLEAN, asked \in BOOLEAN : BeforeQuit(discarded, asked)
    BY <1>1 DEF Quit, CloseWindow, Discard, TypeOK
  <2> QED
    BY <1>1, <2>1, BeforeQuitTypes DEF Quit, CloseWindow, Discard
<1>2. CASE Review
  BY <1>2 DEF Review
<1>3. CASE StepSettles \/ StepIsLate
  BY <1>3 DEF StepSettles, StepIsLate, StepOver, Deadline, Settings
<1>4. CASE Type \/ Save \/ Report \/ Update \/ (\E fails \in BOOLEAN : Persist(fails))
  BY <1>4 DEF Type, Save, Report, Update, Persist
<1>5. CASE UNCHANGED vars
  BY <1>5 DEF vars
<1> QED
  BY <1>1, <1>2, <1>3, <1>4, <1>5 DEF Next

\* The chain stays in order, and what a shutdown waited for stays on disk.
LEMMA SettingsStep == TypeOK /\ ISettings /\ [Next]_vars => ISettings'
<1> SUFFICES ASSUME TypeOK, ISettings, [Next]_vars PROVE ISettings'
  OBVIOUS
<1> USE DEF settingsVars, quitVars
<1>a. /\ chain \in Seq(Nat) /\ Len(chain) \in Nat
      /\ wanted \in Nat /\ disk \in Nat /\ drained \in Nat /\ step \in 0..Done
  BY LenProperties DEF TypeOK
<1>1. CASE Quit \/ CloseWindow \/ Discard
  <2>1. PICK discarded \in BOOLEAN, asked \in BOOLEAN : BeforeQuit(discarded, asked)
    BY <1>1 DEF Quit, CloseWindow, Discard, TypeOK
  <2>2. UNCHANGED <<settingsVars, drained>>
    BY <1>1 DEF Quit, CloseWindow, Discard
  <2> QED
    BY <2>1, <2>2, BeforeQuitTypes DEF ISettings, InOrder
<1>2. CASE Review \/ Type \/ Save \/ Report
  BY <1>2 DEF Review, Type, Save, Report, ISettings, InOrder
<1>3. CASE StepSettles
  <2>1. /\ step \in 1..Settings /\ step' = step + 1 /\ UNCHANGED <<settingsVars, cut>>
        /\ drained' = IF step' = Settings THEN wanted ELSE drained
        /\ Settles(step)
    BY <1>3 DEF StepSettles, StepOver
  <2>2. drained' <= wanted'
    BY <1>a, <2>1 DEF ISettings
  <2>3. ASSUME ~cut, step' = Done PROVE disk >= drained
    <3>1. step = Settings /\ Drained
      BY <2>1, <2>3 DEF Done, Settings, Settles
    <3>2. InOrder
      BY <2>3 DEF ISettings
    <3>3. CASE Len(chain) = 0
      BY <1>a, <3>2, <3>3 DEF InOrder, ISettings
    <3>4. CASE Len(chain) # 0
      <4>1. 1 \in DOMAIN chain /\ 1 \in 1..Len(chain)
        BY <1>a, <3>4, LenProperties
      <4>2. chain[1] > drained /\ chain[1] = disk + 1
        BY <3>1, <3>2, <4>1 DEF Drained, InOrder
      <4> QED
        BY <1>a, <4>2
    <3> QED
      BY <3>3, <3>4
  <2>4. step' = Done => drained' = drained
    BY <2>1 DEF Done, Settings
  <2> QED
    BY <2>1, <2>2, <2>3, <2>4 DEF ISettings, InOrder
<1>4. CASE StepIsLate
  <2>1. cut' /\ drained' <= wanted'
    BY <1>4, <1>a DEF StepIsLate, StepOver, ISettings
  <2> QED
    BY <2>1 DEF ISettings
<1>5. CASE Update
  <2>1. /\ wanted' = wanted + 1 /\ chain' = Append(chain, wanted + 1)
        /\ UNCHANGED <<disk, drained, cut, step>>
    BY <1>5 DEF Update
  <2>2. /\ Len(chain') = Len(chain) + 1 /\ chain'[Len(chain) + 1] = wanted + 1
        /\ \A i \in 1..Len(chain) : chain'[i] = chain[i]
    BY <1>a, <2>1, AppendProperties
  <2>3. \A i \in 1..Len(chain') : i \in 1..Len(chain) \/ i = Len(chain) + 1
    BY <1>a, <2>2
  <2>4. InOrder => InOrder'
    BY <1>a, <2>1, <2>2, <2>3 DEF InOrder
  <2> QED
    BY <1>a, <2>1, <2>4 DEF ISettings
<1>6. ASSUME NEW fails \in BOOLEAN, Persist(fails) PROVE ISettings'
  <2>1. /\ chain # <<>> /\ disk' = IF fails THEN disk ELSE chain[1]
        /\ chain' = [k \in 1..Len(chain) - 1 |-> IF k < 1 THEN chain[k] ELSE chain[k + 1]]
        /\ cut' = (cut \/ fails) /\ UNCHANGED <<wanted, drained, step>>
    BY <1>6 DEF Persist, NextSnapshot
  <2>2. /\ Len(chain') = Len(chain) - 1 /\ 1 \in 1..Len(chain)
        /\ \A k \in 1..Len(chain') : chain'[k] = chain[k + 1]
    BY <1>a, <2>1, ShorterChain
  <2>3. ASSUME ~cut' PROVE InOrder' /\ disk' = disk + 1
    <3>1. InOrder /\ disk' = chain[1]
      BY <2>1, <2>3 DEF ISettings
    <3>2. disk' = disk + 1
      BY <2>2, <3>1 DEF InOrder
    <3>3. \A k \in 1..Len(chain') : k + 1 \in 1..Len(chain) /\ (disk + 1) + k = disk + (k + 1)
      BY <1>a, <2>2
    <3>4. (disk + 1) + (Len(chain) - 1) = disk + Len(chain)
      BY <1>a
    <3> QED
      BY <2>1, <2>2, <3>1, <3>2, <3>3, <3>4 DEF InOrder
  <2>4. ~cut' => ~cut
    BY <2>1
  <2>5. ~cut' /\ step' = Done => disk' >= drained'
    BY <1>a, <2>1, <2>3, <2>4 DEF ISettings
  <2>6. drained' <= wanted'
    BY <2>1 DEF ISettings
  <2> QED
    BY <2>3, <2>5, <2>6 DEF ISettings
<1>7. CASE UNCHANGED vars
  BY <1>7 DEF vars, ISettings, InOrder
<1> QED
  BY <1>1, <1>2, <1>3, <1>4, <1>5, <1>6, <1>7 DEF Next

\* Together they are inductive.
LEMMA QuittingInvariant == Spec => []IQuitting
<1>1. IQuitting /\ [Next]_vars => IQuitting'
  BY TypeStep, StoresStep, SettingsStep DEF IQuitting
<1> QED
  BY <1>1, QuittingInit, PTL DEF Spec

\* Review Changes (main.ts, holdQuitForUnsaved) replaces the edits it asked
\* about only if a shutdown has closed the documents before.
THEOREM ReviewFindsTheEdits == Spec => []ReviewKeepsEdits
<1>1. IQuitting => ReviewKeepsEdits
  BY DEF IQuitting, TypeOK, IStores, ReviewKeepsEdits, Done, Settings
<1> QED
  BY <1>1, QuittingInvariant, PTL

\* A shutdown whose steps all ended in time, with no write failed, leaves the
\* settings it waited for (settings-store.ts, drain), or all of them, on disk.
THEOREM SettingsAreOnDisk == Spec => []SettingsLand
<1>1. IQuitting => SettingsLand
  <2> SUFFICES ASSUME IQuitting, app = "exited", step = Done, ~cut
               PROVE  disk >= drained /\ (chain = <<>> => disk = wanted)
    BY DEF SettingsLand
  <2>1. InOrder /\ disk >= drained /\ disk \in Nat
    BY DEF IQuitting, ISettings, TypeOK
  <2>2. chain = <<>> => Len(chain) = 0
    OBVIOUS
  <2> QED
    BY <2>1, <2>2 DEF InOrder
<1> QED
  BY <1>1, QuittingInvariant, PTL

=============================================================================
