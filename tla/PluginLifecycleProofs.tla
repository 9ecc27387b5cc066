----------------------- MODULE PluginLifecycleProofs ------------------------
(***************************************************************************)
(* What PluginLifecycle promises of a plugin, however often it is switched,*)
(* replaced, triggered and detached, its window reloads, and its code and  *)
(* the disk fail: what runs is owned by the registry, and what Settings    *)
(* shows of it is so.                                                      *)
(***************************************************************************)
EXTENDS MC_Plugins, FiniteSetTheorems, SequenceTheorems, TLAPS

ITyped == TypeOK /\ IsFiniteSet(closers)

\* Two records of the registry own the same generations.
SameOwner(m, n) ==
    m.gen = n.gen /\ m.cleanup = n.cleanup /\ m.count = n.count /\ m.disposed = n.disposed

-----------------------------------------------------------------------------
(***************************************************************************)
(* The operators the model is built from.                                  *)
(***************************************************************************)
\* A set put in a list: all of it, and nothing else.
LEMMA Listed ==
  ASSUME NEW S, IsFiniteSet(S)
  PROVE  /\ SetToSeq(S) \in Seq(S)
         /\ \A x \in S : \E i \in 1..Len(SetToSeq(S)) : SetToSeq(S)[i] = x
<1> DEFINE n == Cardinality(S)
           f == SetToSeq(S)
<1>1. n \in Nat /\ ExistsBijection(1..n, S)
  BY FS_CardinalityType
<1>2. \E h \in [1..n -> S] : IsInjective(h)
  BY <1>1 DEF ExistsBijection, Bijection, Injection
<1>3. f \in [1..n -> S] /\ IsInjective(f)
  BY <1>2 DEF SetToSeq
<1>4. IsFiniteSet(1..n) /\ Cardinality(1..n) = n
  BY <1>1, FS_Interval
<1> HIDE DEF f
<1>5. f \in Injection(1..n, S)
  BY <1>3 DEF Injection
<1>6. f \in Surjection(1..n, S)
  BY <1>4, <1>5, FS_Injection
<1>7. \A x \in S : \E i \in 1..n : f[i] = x
  BY <1>6 DEF Surjection
<1>8. f \in Seq(S) /\ Len(f) = n
  BY <1>1, <1>3, IsASeq, LenProperties
<1> QED
  BY <1>7, <1>8 DEF f

\* Leases are finitely many.
LEMMA GensAreFinite == \A S \in SUBSET Gens : IsFiniteSet(S)
<1>1. MaxGenerations \in Int /\ 1 \in Int
  BY BoundsAssumption
<1>2. IsFiniteSet(Gens)
  BY <1>1, FS_Interval DEF Gens
<1> QED
  BY <1>2, FS_Subset

\* The disposals queued for a set of leases.
LEMMA DisposalsListed ==
  ASSUME NEW S \in SUBSET Gens
  PROVE  /\ Disposals(S) \in Seq(Operations)
         /\ \A i \in 1..Len(Disposals(S)) :
              Disposals(S)[i].epoch = 0 /\ Disposals(S)[i].kind = "dispose" /\ Disposals(S)[i].lease # None
         /\ \A g \in S : \E i \in 1..Len(Disposals(S)) : Disposals(S)[i].lease = g
<1> DEFINE lease == SetToSeq(S)
           d == [i \in DOMAIN lease |-> [kind |-> "dispose", epoch |-> 0, lease |-> lease[i]]]
<1>1. lease \in Seq(Gens) /\ \A x \in S : \E i \in 1..Len(lease) : lease[i] = x
  <2>1. lease \in Seq(S) /\ \A x \in S : \E i \in 1..Len(lease) : lease[i] = x
    BY GensAreFinite, Listed
  <2> HIDE DEF lease
  <2> QED
    BY <2>1, SeqMonotonic
<1> HIDE DEF lease
<1>2. DOMAIN lease = 1..Len(lease) /\ Len(lease) \in Nat /\ \A i \in 1..Len(lease) : lease[i] \in Gens
  BY <1>1, LenProperties, ElementOfSeq
<1>3. \A i \in 1..Len(lease) :
        /\ d[i] \in Operations /\ d[i].lease = lease[i] /\ d[i].lease # None
        /\ d[i].epoch = 0 /\ d[i].kind = "dispose"
  BY <1>2 DEF Operations, Kinds, Gens, None
<1>4. d \in Seq(Operations) /\ Len(d) = Len(lease)
  <2>1. d \in [1..Len(lease) -> Operations]
    BY <1>2, <1>3
  <2> HIDE DEF d
  <2> QED
    BY <1>2, <2>1, IsASeq, LenProperties
<1>5. Disposals(S) = d
  BY DEF Disposals, lease, d
<1> HIDE DEF d
<1> QED
  BY <1>1, <1>3, <1>4, <1>5

\* The answers to those who wait for an open,
LEMMA RefusalsListed ==
  ASSUME NEW S \in SUBSET Gens
  PROVE  Refusals(S) \in Seq(Acks) /\ \A i \in 1..Len(Refusals(S)) : Refusals(S)[i].ack = "refused" /\ Refusals(S)[i].gen \in S
<1> DEFINE lease == SetToSeq(S)
           d == [i \in DOMAIN lease |-> OpenFailed(lease[i])[1]]
<1>1. lease \in Seq(S)
  BY GensAreFinite, Listed
<1> HIDE DEF lease
<1>2. DOMAIN lease = 1..Len(lease) /\ Len(lease) \in Nat /\ \A i \in 1..Len(lease) : lease[i] \in S
  BY <1>1, LenProperties, ElementOfSeq
<1>3. \A i \in 1..Len(lease) : d[i] \in Acks /\ d[i].ack = "refused" /\ d[i].gen \in S
  <2>1. \A i \in 1..Len(lease) : d[i] = OpenFailed(lease[i])[1]
    BY <1>2
  <2>2. \A g \in Gens : /\ OpenFailed(g)[1] \in Acks
                         /\ OpenFailed(g)[1].ack = "refused" /\ OpenFailed(g)[1].gen = g
    BY DEF Acks, OpenFailed
  <2> HIDE DEF d
  <2>3. \A i \in 1..Len(lease) : lease[i] \in Gens
    BY <1>2
  <2>4. \A i \in 1..Len(lease) : d[i] \in Acks
    BY <2>1, <2>2, <2>3
  <2>5. \A i \in 1..Len(lease) : d[i].ack = "refused" /\ d[i].gen = lease[i]
    BY <2>1, <2>2, <2>3
  <2> QED
    BY <1>2, <2>4, <2>5
<1>4. d \in Seq(Acks) /\ Len(d) = Len(lease)
  <2>1. d \in [1..Len(lease) -> Acks]
    BY <1>2, <1>3
  <2> HIDE DEF d
  <2> QED
    BY <1>2, <2>1, IsASeq, LenProperties
<1>5. Refusals(S) = d
  BY DEF Refusals, lease, d
<1> HIDE DEF d
<1> QED
  BY <1>3, <1>4, <1>5

\* and to those who wait for a close.
LEMMA AnswersListed ==
  ASSUME NEW S \in SUBSET Requests, IsFiniteSet(S), NEW g, \A r \in S : r.gen = g,
         NEW ack \in {"closed", "incomplete"}
  PROVE  Answers(S, ack) \in Seq(Acks) /\ \A i \in 1..Len(Answers(S, ack)) : Answers(S, ack)[i].ack = ack /\ Answers(S, ack)[i].gen = g
<1> DEFINE asker == SetToSeq(S)
           d == [i \in DOMAIN asker |-> [ack |-> ack, gen |-> asker[i].gen, try |-> asker[i].try]]
<1>1. asker \in Seq(S)
  BY Listed
<1> HIDE DEF asker
<1>2. DOMAIN asker = 1..Len(asker) /\ Len(asker) \in Nat /\ \A i \in 1..Len(asker) : asker[i] \in S
  BY <1>1, LenProperties, ElementOfSeq
<1>3. \A i \in 1..Len(asker) : d[i] \in Acks /\ d[i].ack = ack /\ d[i].gen = g
  BY <1>2 DEF Acks, Requests
<1>4. d \in Seq(Acks) /\ Len(d) = Len(asker)
  <2>1. d \in [1..Len(asker) -> Acks]
    BY <1>2, <1>3
  <2> HIDE DEF d
  <2> QED
    BY <1>2, <2>1, IsASeq, LenProperties
<1>5. Answers(S, ack) = d
  BY DEF Answers, asker, d
<1> HIDE DEF d
<1> QED
  BY <1>3, <1>4, <1>5

-----------------------------------------------------------------------------
(***************************************************************************)
(* The registry's transitions on its record.                               *)
(***************************************************************************)
\* A transition begun leaves what is owned, the switch and the life alone.
LEMMA Begun ==
  ASSUME NEW m \in Record, NEW phase \in Phases, NEW intent \in BOOLEAN, NEW fence \in BOOLEAN
  PROVE  LET b == BeginTransition(m, phase, intent, fence) IN
         /\ b \in Record /\ SameOwner(b, m)
         /\ b.epoch = m.epoch + 1 /\ b.phase = phase
         /\ b.desired = m.desired /\ b.life = m.life
<1>1. (m.fenced \/ (fence /\ m.gen # None)) \in BOOLEAN
  BY DEF Record
<1> DEFINE f == m.fenced \/ (fence /\ m.gen # None)
<1>2. BeginTransition(m, phase, intent, fence)
      = [m EXCEPT !.epoch = @ + 1, !.phase = phase, !.intent = intent, !.fenced = f]
  BY DEF BeginTransition
<1>3. f \in BOOLEAN
  BY <1>1
<1>4. m.epoch + 1 \in Nat
  BY DEF Record
<1> HIDE DEF f
<1> QED
  BY <1>2, <1>3, <1>4 DEF Record, SameOwner

\* So does an end, but for the life it gives.
LEMMA Finished ==
  ASSUME NEW m \in Record, NEW epoch, NEW life \in Lives
  PROVE  LET b == Finish(m, epoch, life) IN
         /\ b \in Record /\ SameOwner(b, m) /\ b.epoch = m.epoch /\ b.desired = m.desired
         /\ m.epoch = epoch => b.life = life /\ b.phase = "stable"
         /\ m.epoch # epoch => b = m
  BY DEF Finish, Record, SameOwner, Phases

\* A life given changes nothing else.
LEMMA Lived ==
  ASSUME NEW m \in Record, NEW life \in Lives
  PROVE  LET b == [m EXCEPT !.life = life] IN
         /\ b \in Record /\ SameOwner(b, m) /\ b.epoch = m.epoch /\ b.desired = m.desired
         /\ b.life = life /\ b.phase = m.phase /\ b.intent = m.intent /\ b.since = m.since
         /\ b.fenced = m.fenced
  BY DEF Record, SameOwner

\* A generation let go is the cleanup owed.
LEMMA Disowned ==
  ASSUME NEW m \in Record
  PROVE  LET b == Disown(m) IN
         /\ b \in Record /\ b.gen = None /\ b.cleanup = Owned(m) /\ b.count = m.count
         /\ b.disposed = m.disposed /\ b.epoch = m.epoch /\ b.desired = m.desired
         /\ b.life = m.life /\ b.phase = m.phase /\ Owned(b) = Owned(m)
<1>1. Owned(m) \in Gens \cup {None}
  BY DEF Owned, Record
<1>2. Disown(m) \in Record
  BY <1>1 DEF Disown, Record
<1> QED
  BY <1>2 DEF Disown, Record, Owned

\* Owning the same is owing the same.
LEMMA OwnedAlike ==
  ASSUME NEW m, NEW n, SameOwner(m, n)
  PROVE  Owned(m) = Owned(n)
  BY DEF SameOwner, Owned

\* The queue with one more operation.
LEMMA Enqueued ==
  ASSUME ITyped, NEW kind \in Kinds, NEW epoch \in Nat, NEW lease \in Gens \cup {None},
         Enqueue(kind, epoch, lease)
  PROVE  /\ queue' \in Seq(Operations) /\ Len(queue') = Len(queue) + 1
         /\ \A i \in 1..Len(queue) : queue'[i] = queue[i]
         /\ queue'[Len(queue) + 1] = [kind |-> kind, epoch |-> epoch, lease |-> lease]
<1> DEFINE op == [kind |-> kind, epoch |-> epoch, lease |-> lease]
<1>1. op \in Operations
  BY DEF Operations
<1>2. queue \in Seq(Operations) /\ queue' = Append(queue, op)
  BY DEF ITyped, TypeOK, Enqueue
<1> HIDE DEF op
<1>3. queue' \in Seq(Operations) /\ Len(queue') = Len(queue) + 1
      /\ (\A i \in 1..Len(queue) : queue'[i] = queue[i]) /\ queue'[Len(queue) + 1] = op
  BY <1>1, <1>2, AppendProperties
<1> QED
  BY <1>3 DEF op

\* The queue with its head taken.
LEMMA Dequeued ==
  ASSUME ITyped, queue # <<>>, queue' = Tail(queue)
  PROVE  /\ queue' \in Seq(Operations) /\ Len(queue') = Len(queue) - 1
         /\ Head(queue) \in Operations /\ Head(queue) = queue[1] /\ 1 \in 1..Len(queue)
         /\ \A i \in 1..Len(queue') : i + 1 \in 1..Len(queue) /\ queue'[i] = queue[i + 1]
<1>1. queue \in Seq(Operations)
  BY DEF ITyped, TypeOK
<1>2. Len(queue) \in Nat \ {0}
  BY <1>1, EmptySeq, LenProperties
<1> QED
  BY <1>1, <1>2, HeadTailProperties

\* A request to the window sent.
LEMMA Requested ==
  ASSUME ITyped, NEW r \in Requests, toWindow' = Append(toWindow, r)
  PROVE  /\ toWindow' \in Seq(Requests) /\ Len(toWindow') = Len(toWindow) + 1
         /\ \A i \in 1..Len(toWindow) : toWindow'[i] = toWindow[i]
         /\ toWindow'[Len(toWindow) + 1] = r
  BY AppendProperties DEF ITyped, TypeOK

\* The fields of a request.
LEMMA RequestFields ==
  ASSUME NEW act \in {"open", "close"}, NEW g \in Gens, NEW t \in Nat
  PROVE  LET r == [act |-> act, gen |-> g, try |-> t] IN
         r \in Requests /\ r.act = act /\ r.gen = g /\ r.try = t
  BY DEF Requests

-----------------------------------------------------------------------------
(***************************************************************************)
(* The registry: what it owns, and the cleanup it tries.                   *)
(***************************************************************************)
\* A generation is owned once, and none beyond those counted; a cleanup being
\* tried is the one owed, and an answer to it is told by its try; a job past
\* its cleanup owns nothing, or knows that it failed; only a job that writes the
\* state file waits for it; a disposal names its lease.
QueueNames == \A i \in 1..Len(queue) : queue[i].kind = "dispose" => queue[i].lease # None
IRegistry ==
    /\ QueueNames
    /\ main.gen = None \/ main.cleanup = None
    /\ main.gen <= main.count /\ main.cleanup <= main.count
    /\ attempt.gen # None => attempt.gen = main.cleanup
    /\ attempt.gen = None <=> attempt.st = "none"
    /\ attempt.st = "waiting" => attempt.try <= tries
    /\ job.at \in {"cleanup", "reconcile"} => attempt.gen # None
    /\ job.at \in {"persist", "reconcile", "reconciled", "persisted"} =>
           job.kind \in {"enable", "disable", "setting"}
    /\ job.kind = "dispose" => job.lease # None /\ job.lease <= main.count
    /\ job.at \in {"cleaned", "reconciled"} => main.gen = None /\ (job.failed \/ main.cleanup = None)
    /\ \A p \in pending : p.act = "close" =>
           p.try <= tries /\ (attempt.st = "waiting" /\ p.try = attempt.try => p.gen = attempt.gen)

\* What trying a cleanup does.
Trying(g, waiting) ==
    /\ attempt' \in Attempts /\ attempt'.gen = g /\ attempt'.st # "none"
    /\ attempt'.st = "ok" => gone \/ attempt' = attempt
    /\ attempt'.st = "waiting" => attempt'.try <= tries'
    /\ tries' \in Nat /\ pending' \subseteq Requests
    /\ \A p \in pending' : p.act = "close" =>
           p.try <= tries' /\ (attempt'.st = "waiting" /\ p.try = attempt'.try => p.gen = g)
    /\ \A p \in pending' : p \in waiting \/ (p.act = "close" /\ p.gen = g)
    /\ \/ toWindow' = toWindow
       \/ ~gone /\ \E r \in Requests : r.act = "close" /\ r.gen = g /\ toWindow' = Append(toWindow, r)

\* It joins the attempt under way, or begins one that is known by its try.
LEMMA TryStep ==
  ASSUME ITyped, IRegistry, NEW g \in Gens, NEW known_, NEW waiting \in SUBSET pending,
         NEW opened \in BOOLEAN, attempt.gen \in {None, g}, TryCleanup(g, known_, waiting, opened)
  PROVE  Trying(g, waiting) /\ leases' \subseteq known_
<1> DEFINE t == tries + 1
           request == [act |-> "close", gen |-> g, try |-> t]
           begun(st) == [gen |-> g, try |-> t, st |-> st, opened |-> opened]
<1>1. tries \in Nat /\ t \in Nat /\ tries < t /\ pending \subseteq Requests /\ attempt \in Attempts
  BY DEF ITyped, TypeOK
<1>2. request \in Requests /\ request.act = "close" /\ request.gen = g /\ request.try = t
  BY <1>1, RequestFields
<1>3. \A st \in {"waiting", "ok", "failed"} :
        /\ begun(st) \in Attempts /\ begun(st).gen = g /\ begun(st).st = st /\ begun(st).try = t
  BY <1>1 DEF Attempts
<1>4. \A p \in pending : p.act = "close" =>
           p.try <= tries /\ (attempt.st = "waiting" /\ p.try = attempt.try => p.gen = attempt.gen)
  BY DEF IRegistry
<1>5. \A p \in pending : p.try \in Nat
  BY <1>1 DEF Requests
<1>6. /\ attempt.gen = g => attempt.st # "none"
      /\ attempt.st = "waiting" => attempt.try <= tries
  BY DEF IRegistry, Gens, None
<1>7. \/ /\ attempt.gen = g
         /\ leases' = known_ /\ pending' = waiting
         /\ attempt' = attempt /\ toWindow' = toWindow /\ tries' = tries
      \/ /\ attempt' = begun("failed")
         /\ leases' = known_ /\ pending' = waiting
         /\ toWindow' = toWindow /\ tries' = tries
      \/ /\ gone
         /\ attempt' = begun("ok")
         /\ leases' = known_ \ {g} /\ pending' = waiting
         /\ toWindow' = toWindow /\ tries' = tries
      \/ /\ ~gone
         /\ attempt' = begun("waiting")
         /\ leases' = known_ /\ pending' = waiting \cup {request}
         /\ toWindow' = Append(toWindow, request)
         /\ tries' = t
  BY <1>2 DEF TryCleanup
<1> HIDE DEF request, begun, t
<1>8. CASE /\ attempt.gen = g
           /\ leases' = known_ /\ pending' = waiting
           /\ attempt' = attempt /\ toWindow' = toWindow /\ tries' = tries
  BY <1>1, <1>4, <1>6, <1>8 DEF Trying
<1>9. CASE /\ attempt' = begun("failed")
           /\ leases' = known_ /\ pending' = waiting
           /\ toWindow' = toWindow /\ tries' = tries
  BY <1>1, <1>3, <1>4, <1>9 DEF Trying
<1>10. CASE /\ gone
            /\ attempt' = begun("ok")
            /\ leases' = known_ \ {g} /\ pending' = waiting
            /\ toWindow' = toWindow /\ tries' = tries
  BY <1>1, <1>3, <1>4, <1>10 DEF Trying
<1>11. CASE /\ ~gone
            /\ attempt' = begun("waiting")
            /\ leases' = known_ /\ pending' = waiting \cup {request}
            /\ toWindow' = Append(toWindow, request)
            /\ tries' = t
  <2>1. attempt'.gen = g /\ attempt'.st = "waiting" /\ attempt'.try = t /\ attempt' \in Attempts
    BY <1>3, <1>11
  <2>2. \A p \in pending' : p.act = "close" => p.try <= t /\ (p.try = t => p.gen = g)
    BY <1>1, <1>2, <1>4, <1>5, <1>11
  <2> QED
    BY <1>1, <1>2, <1>11, <2>1, <2>2 DEF Trying
<1> QED
  BY <1>7, <1>8, <1>9, <1>10, <1>11

\* The aborted opens are of the generation there is.
LEMMA Aborted ==
  ASSUME ITyped, Abort
  PROVE  /\ forget' \in SUBSET Gens
         /\ \A g : g \in forget' <=> g \in forget \/ (g = main.gen /\ \E p \in pending : p.act = "open" /\ p.gen = g)
  BY DEF ITyped, TypeOK, Abort, OpensOf, Requests

\* Cleaning up is owing, and nothing else; where nothing is owned it is over at
\* once, otherwise the cleanup is tried.
LEMMA CleanStep ==
  ASSUME ITyped, IRegistry, NEW m \in Record, SameOwner(m, main), NEW j \in Jobs,
         NEW waitAt \in {"cleanup", "reconcile"}, NEW then \in {"cleaned", "reconciled"},
         CleanUp(m, j, waitAt, then)
  PROVE  /\ main' \in Record /\ job' \in Jobs
         /\ main'.gen = None /\ main'.cleanup = Owned(main) /\ Owned(main') = Owned(main)
         /\ main'.count = main.count /\ main'.disposed = main.disposed
         /\ main'.epoch = m.epoch /\ main'.desired = m.desired /\ main'.life = m.life /\ main'.phase = m.phase
         /\ job'.kind = j.kind /\ job'.epoch = j.epoch /\ job'.lease = j.lease
         /\ leases' \subseteq leases /\ forget' \in SUBSET Gens
         /\ \/ /\ Owned(main) = None /\ job'.at = then /\ ~job'.failed
               /\ UNCHANGED <<attempt, leases, pending, forget, toWindow, tries>>
            \/ /\ Owned(main) # None /\ Owned(main) \in Gens /\ job'.at = waitAt
               /\ Trying(Owned(main), pending \ OpensOf({main.gen}))
               /\ Abort
<1>1. Owned(m) = Owned(main) /\ m.gen = main.gen /\ m.cleanup = main.cleanup
      /\ m.count = main.count /\ m.disposed = main.disposed
  BY OwnedAlike DEF SameOwner
<1>2. main \in Record /\ attempt \in Attempts
  BY DEF ITyped, TypeOK
<1>3. CASE Owned(m) = None
  <2>1. main' = m /\ job' = [j EXCEPT !.at = then, !.failed = FALSE]
        /\ UNCHANGED <<attempt, leases, pending, forget, toWindow, tries>>
    BY <1>3 DEF CleanUp
  <2>2. job' \in Jobs /\ job'.kind = j.kind /\ job'.epoch = j.epoch /\ job'.lease = j.lease
        /\ job'.at = then /\ ~job'.failed
    BY <2>1 DEF Jobs
  <2>3. m.gen = None /\ m.cleanup = None
    BY <1>3 DEF Owned
  <2> QED
    BY <1>1, <1>3, <2>1, <2>2, <2>3 DEF ITyped, TypeOK
<1>4. CASE Owned(m) # None
  <2>1. main' = Disown(m) /\ job' = [j EXCEPT !.at = waitAt] /\ Abort
        /\ TryCleanup(Owned(m), leases, pending \ OpensOf({m.gen}), FALSE)
    BY <1>4 DEF CleanUp
  <2>2. job' \in Jobs /\ job'.kind = j.kind /\ job'.epoch = j.epoch /\ job'.lease = j.lease
        /\ job'.at = waitAt
    BY <2>1 DEF Jobs
  <2>3. Owned(m) \in Gens
    BY <1>4 DEF Owned, Record
  <2>4. attempt.gen \in {None, Owned(m)}
    BY <1>1 DEF IRegistry, Owned
  <2>5. Trying(Owned(m), pending \ OpensOf({m.gen})) /\ leases' \subseteq leases
    BY <2>1, <2>3, <2>4, TryStep
  <2>6. /\ main' \in Record /\ main'.gen = None /\ main'.cleanup = Owned(m) /\ Owned(main') = Owned(m)
        /\ main'.count = m.count /\ main'.disposed = m.disposed
        /\ main'.epoch = m.epoch /\ main'.desired = m.desired /\ main'.life = m.life /\ main'.phase = m.phase
    BY <2>1, Disowned
  <2>7. forget' \in SUBSET Gens
    BY <2>1, Aborted
  <2> QED
    BY <1>1, <1>4, <2>1, <2>2, <2>3, <2>5, <2>6, <2>7
<1> QED
  BY <1>3, <1>4

\* A disposal begins a transition of its own, then cleans up.
LEMMA DisposeStep ==
  ASSUME ITyped, IRegistry, NEW j \in Jobs,
         LET m == BeginTransition(main, "disposed", main.desired, TRUE)
         IN  CleanUp([m EXCEPT !.life = "deactivating"], [j EXCEPT !.epoch = m.epoch], "cleanup", "cleaned")
  PROVE  /\ main' \in Record /\ job' \in Jobs
         /\ main'.gen = None /\ main'.cleanup = Owned(main) /\ Owned(main') = Owned(main)
         /\ main'.count = main.count /\ main'.disposed = main.disposed
         /\ main'.epoch = main.epoch + 1 /\ main'.desired = main.desired /\ main'.life = "deactivating"
         /\ job'.kind = j.kind /\ job'.epoch = main'.epoch /\ job'.lease = j.lease
         /\ leases' \subseteq leases /\ forget' \in SUBSET Gens
         /\ \/ /\ Owned(main) = None /\ job'.at = "cleaned" /\ ~job'.failed
               /\ UNCHANGED <<attempt, leases, pending, forget, toWindow, tries>>
            \/ /\ Owned(main) # None /\ Owned(main) \in Gens /\ job'.at = "cleanup"
               /\ Trying(Owned(main), pending \ OpensOf({main.gen}))
               /\ Abort
<1> DEFINE m == BeginTransition(main, "disposed", main.desired, TRUE)
           l == [m EXCEPT !.life = "deactivating"]
           k == [j EXCEPT !.epoch = m.epoch]
<1>1. main \in Record /\ main.desired \in BOOLEAN /\ "disposed" \in Phases /\ TRUE \in BOOLEAN
  BY DEF ITyped, TypeOK, Record, Phases
<1>2. m \in Record /\ SameOwner(m, main) /\ m.epoch = main.epoch + 1 /\ m.desired = main.desired
  BY <1>1, Begun
<1>3. CleanUp(l, k, "cleanup", "cleaned")
  OBVIOUS
<1> HIDE DEF m
<1>4. m.epoch \in Nat /\ "deactivating" \in Lives
  BY <1>2 DEF Record, Lives
<1>5. l \in Record /\ SameOwner(l, m) /\ l.epoch = m.epoch /\ l.desired = m.desired /\ l.life = "deactivating"
  BY <1>2, <1>4, Lived
<1>6. k \in Jobs /\ k.kind = j.kind /\ k.epoch = m.epoch /\ k.lease = j.lease
  BY <1>4 DEF Jobs
<1> HIDE DEF l, k
<1>7. SameOwner(l, main)
  BY <1>2, <1>5 DEF SameOwner
<1>8. "cleanup" \in {"cleanup", "reconcile"} /\ "cleaned" \in {"cleaned", "reconciled"}
  OBVIOUS
<1> QED
  BY <1>2, <1>3, <1>5, <1>6, <1>7, <1>8, CleanStep

\* An activation counts a generation nobody had before, and offers it to the
\* window if there is one.
LEMMA ActivateStep ==
  ASSUME ITyped, NEW m \in Record, SameOwner(m, main), Activate(m)
  PROVE  LET g == main.count + 1
             open == [act |-> "open", gen |-> g, try |-> 0] IN
         /\ main' \in Record /\ g \in Gens /\ open \in Requests
         /\ main'.gen = g /\ main'.count = g /\ main'.cleanup = main.cleanup /\ Owned(main') = g
         /\ main'.disposed = main.disposed /\ main'.life = "activating" /\ main'.epoch = m.epoch
         /\ main'.phase = m.phase /\ main'.desired = m.desired
         /\ \/ /\ gone /\ forget' = forget \cup {g} /\ UNCHANGED <<leases, pending, toWindow>>
            \/ /\ ~gone /\ leases' = leases \cup {g} /\ pending' = pending \cup {open}
               /\ toWindow' = Append(toWindow, open) /\ UNCHANGED forget
<1> DEFINE g == m.count + 1
<1>1. m.count = main.count /\ m.cleanup = main.cleanup /\ m.disposed = main.disposed /\ m.count \in 0..MaxGenerations
  BY DEF SameOwner, Record
<1>2. g \in Gens /\ g # None /\ g \in 0..MaxGenerations
  BY <1>1, BoundsAssumption DEF Activate, Gens, None
<1>3. main' = [m EXCEPT !.gen = g, !.count = g, !.fenced = FALSE, !.since = m.epoch, !.life = "activating"]
  BY DEF Activate
<1>4. [act |-> "open", gen |-> g, try |-> 0] \in Requests
  BY <1>2, RequestFields
<1>5. \/ /\ gone /\ forget' = forget \cup {g} /\ UNCHANGED <<leases, pending, toWindow>>
      \/ /\ ~gone /\ leases' = leases \cup {g} /\ pending' = pending \cup {[act |-> "open", gen |-> g, try |-> 0]}
         /\ toWindow' = Append(toWindow, [act |-> "open", gen |-> g, try |-> 0]) /\ UNCHANGED forget
  BY DEF Activate
<1> HIDE DEF g
<1>6. main' \in Record /\ main'.gen = g /\ main'.count = g /\ main'.cleanup = m.cleanup
      /\ main'.disposed = m.disposed /\ main'.life = "activating" /\ main'.epoch = m.epoch
      /\ main'.phase = m.phase /\ main'.desired = m.desired
  BY <1>2, <1>3 DEF Record, Lives
<1>7. Owned(main') = g
  BY <1>2, <1>6 DEF Owned
<1>8. g = main.count + 1
  BY <1>1 DEF g
<1> QED
  BY <1>1, <1>2, <1>4, <1>5, <1>6, <1>7, <1>8

-----------------------------------------------------------------------------
(***************************************************************************)
(* Types.                                                                  *)
(***************************************************************************)
\* At the start nothing is owned, asked or running.
LEMMA TypeInit == Init => ITyped
<1> SUFFICES ASSUME Init PROVE ITyped
  OBVIOUS
<1>1. main \in Record /\ job \in Jobs /\ attempt \in Attempts
  BY BoundsAssumption DEF Init, Record, Jobs, Attempts, NoJob, NoAttempt, Lives, Phases, None
<1>2. host \in [Gens -> {"none", "queued", "starting", "active", "closing", "held", "closed"}]
  BY DEF Init
<1>3. budget \in [calls : 0..MaxCalls, reloads : 0..MaxReloads, faults : 0..MaxFaults]
  BY BoundsAssumption DEF Init
<1>4. queue \in Seq(Operations) /\ toWindow \in Seq(Requests) /\ toMain \in Seq(Acks)
  BY DEF Init
<1>5. IsFiniteSet(closers)
  BY FS_EmptySet DEF Init
<1> QED
  BY <1>1, <1>2, <1>3, <1>4, <1>5 DEF Init, ITyped, TypeOK

\* What is thrown by the write of the state file changes no owner.
LEMMA ThrownStep ==
  ASSUME ITyped, job.kind \in {"enable", "disable", "setting"}, NEW m \in Record
  PROVE  /\ PersistThrows(m) \in Record /\ SameOwner(PersistThrows(m), m)
         /\ PersistThrows(m).epoch = m.epoch /\ PersistThrows(m).desired = m.desired
         /\ PersistThrows(m).life \in {m.life, "failed"}
<1>1. "failed" \in Lives
  BY DEF Lives
<1>2. CASE job.kind = "enable"
  <2>1. PersistThrows(m) = [Finish(m, job.epoch, "failed") EXCEPT !.life = "failed"]
    BY <1>2 DEF PersistThrows
  <2> DEFINE b == Finish(m, job.epoch, "failed")
  <2>2. b \in Record /\ SameOwner(b, m) /\ b.epoch = m.epoch /\ b.desired = m.desired
    BY <1>1, Finished
  <2> HIDE DEF b
  <2>3. [b EXCEPT !.life = "failed"] \in Record /\ SameOwner([b EXCEPT !.life = "failed"], b)
        /\ [b EXCEPT !.life = "failed"].epoch = b.epoch /\ [b EXCEPT !.life = "failed"].desired = b.desired
        /\ [b EXCEPT !.life = "failed"].life = "failed"
    BY <1>1, <2>2, Lived
  <2> QED
    BY <2>1, <2>2, <2>3 DEF SameOwner, b
<1>3. CASE job.kind = "disable"
  <2>1. PersistThrows(m) = Finish(m, job.epoch, "failed")
    BY <1>3 DEF PersistThrows
  <2> QED
    BY <1>1, <2>1, Finished
<1>4. CASE job.kind = "setting"
  <2>1. PersistThrows(m) = m
    BY <1>4 DEF PersistThrows
  <2> QED
    BY <2>1 DEF SameOwner
<1> QED
  BY <1>2, <1>3, <1>4


\* A call that fences the generation is queued under an epoch of its own.
LEMMA FencedStep ==
  ASSUME ITyped, NEW kind \in Kinds, NEW phase \in Phases, NEW intent \in BOOLEAN, NEW life \in Lives,
         FencedCall(kind, phase, intent, life)
  PROVE  /\ main' \in Record /\ SameOwner(main', main) /\ main'.epoch = main.epoch + 1
         /\ main'.epoch \in Nat /\ main'.phase = phase /\ main'.life = life /\ main'.desired = main.desired
         /\ Enqueue(kind, main'.epoch, None)
         /\ Abort /\ pending' = pending \ OpensOf({main.gen})
         /\ UNCHANGED <<job, attempt, stored, gone, leases, wires, window, tries>>
<1> DEFINE m == BeginTransition(main, phase, intent, TRUE)
           l == [m EXCEPT !.life = life]
<1>1. main \in Record /\ TRUE \in BOOLEAN /\ intent \in BOOLEAN /\ phase \in Phases
  BY DEF ITyped, TypeOK
<1>2. m \in Record /\ SameOwner(m, main) /\ m.epoch = main.epoch + 1 /\ m.phase = phase /\ m.desired = main.desired
  BY <1>1, Begun
<1>3. main' = l /\ Enqueue(kind, m.epoch, None) /\ Abort /\ pending' = pending \ OpensOf({main.gen})
      /\ UNCHANGED <<job, attempt, stored, gone, leases, wires, window, tries>>
  BY DEF FencedCall
<1> HIDE DEF m
<1>4. l \in Record /\ SameOwner(l, m) /\ l.epoch = m.epoch /\ l.phase = m.phase /\ l.life = life /\ l.desired = m.desired
  BY <1>2, Lived
<1>5. l.epoch \in Nat
  BY <1>4 DEF Record
<1> HIDE DEF l
<1> QED
  BY <1>2, <1>3, <1>4, <1>5 DEF SameOwner

\* What the disk answered: a switch published that is off while a generation
\* is owned is a transition of its own; any other is the operation's.
WrittenOff(switch) ==
    LET m == [main EXCEPT !.desired = switch]
    IN  CleanUp([BeginTransition(m, "disabling", FALSE, TRUE) EXCEPT !.life = "deactivating"],
                job, "reconcile", "reconciled")
WrittenOn(switch) ==
    LET m == [main EXCEPT !.desired = switch]
    IN  /\ job' = [job EXCEPT !.at = "persisted"]
        /\ main' = IF m.phase = "stable" /\ Owned(m) = None /\ m.life # "failed"
                   THEN [m EXCEPT !.intent = switch, !.life = IF switch THEN "idle" ELSE "disabled"]
                   ELSE m
        /\ UNCHANGED <<attempt, bridge, toWindow, tries>>
OwnDisable == main.phase = "disabling" /\ ~main.intent
Written(switch) ==
    \/ ~switch /\ Owned(main) # None /\ ~OwnDisable /\ WrittenOff(switch)
    \/ (switch \/ Owned(main) = None \/ OwnDisable) /\ WrittenOn(switch)

\* The disk's two answers.
LEMMA DiskStep ==
  ASSUME DiskAnswers
  PROVE  \/ main' = PersistThrows(main) /\ job' = NoJob /\ UNCHANGED <<stored, attempt, bridge, toWindow, tries>>
         \/ \E switch \in BOOLEAN : stored' = switch /\ Written(switch)
  BY DEF DiskAnswers, Written, WrittenOff, WrittenOn, OwnDisable

\* A switch of the file taken over owns what was owned.
LEMMA Switched ==
  ASSUME NEW m \in Record, NEW switch \in BOOLEAN
  PROVE  LET b == [m EXCEPT !.desired = switch] IN
         /\ b \in Record /\ SameOwner(b, m) /\ b.epoch = m.epoch /\ b.phase = m.phase
         /\ b.life = m.life /\ b.desired = switch
  BY DEF Record, SameOwner

\* A switch found off is a cleanup.
LEMMA WrittenOffStep ==
  ASSUME ITyped, IRegistry, NEW switch \in BOOLEAN, WrittenOff(switch)
  PROVE  /\ main' \in Record /\ job' \in Jobs
         /\ main'.gen = None /\ main'.cleanup = Owned(main) /\ Owned(main') = Owned(main)
         /\ main'.count = main.count /\ main'.disposed = main.disposed
         /\ main'.epoch = main.epoch + 1 /\ main'.desired = switch /\ main'.life = "deactivating"
         /\ job'.kind = job.kind /\ job'.epoch = job.epoch /\ job'.lease = job.lease
         /\ leases' \subseteq leases /\ forget' \in SUBSET Gens
         /\ \/ /\ Owned(main) = None /\ job'.at = "reconciled" /\ ~job'.failed
               /\ UNCHANGED <<attempt, leases, pending, forget, toWindow, tries>>
            \/ /\ Owned(main) # None /\ Owned(main) \in Gens /\ job'.at = "reconcile"
               /\ Trying(Owned(main), pending \ OpensOf({main.gen}))
               /\ Abort
<1> DEFINE m == [main EXCEPT !.desired = switch]
           b == BeginTransition(m, "disabling", FALSE, TRUE)
           l == [b EXCEPT !.life = "deactivating"]
<1>1. main \in Record /\ job \in Jobs
  BY DEF ITyped, TypeOK
<1>2. m \in Record /\ SameOwner(m, main) /\ m.epoch = main.epoch /\ m.desired = switch
  BY <1>1, Switched
<1>3. CleanUp(l, job, "reconcile", "reconciled")
  BY DEF WrittenOff
<1> HIDE DEF m
<1>4. "disabling" \in Phases /\ FALSE \in BOOLEAN /\ TRUE \in BOOLEAN /\ "deactivating" \in Lives
  BY DEF Phases, Lives
<1>5. b \in Record /\ SameOwner(b, m) /\ b.epoch = m.epoch + 1 /\ b.desired = m.desired
  BY <1>2, <1>4, Begun
<1> HIDE DEF b
<1>6. l \in Record /\ SameOwner(l, b) /\ l.epoch = b.epoch /\ l.desired = b.desired /\ l.life = "deactivating"
  BY <1>4, <1>5, Lived
<1> HIDE DEF l
<1>7. SameOwner(l, main) /\ l.epoch = main.epoch + 1 /\ l.desired = switch
  BY <1>2, <1>5, <1>6 DEF SameOwner
<1>8. "reconcile" \in {"cleanup", "reconcile"} /\ "reconciled" \in {"cleaned", "reconciled"}
  OBVIOUS
<1> QED
  BY <1>1, <1>3, <1>6, <1>7, <1>8, CleanStep

\* Any other switch leaves what is owned.
LEMMA WrittenOnStep ==
  ASSUME ITyped, NEW switch \in BOOLEAN, WrittenOn(switch)
  PROVE  /\ main' \in Record /\ SameOwner(main', main) /\ main'.epoch = main.epoch
         /\ main'.phase = main.phase /\ main'.desired = switch
         /\ \/ main'.life = main.life
            \/ Owned(main) = None /\ main'.life \in {"idle", "disabled"}
         /\ job' \in Jobs /\ job' = [job EXCEPT !.at = "persisted"]
         /\ UNCHANGED <<attempt, bridge, toWindow, tries>>
<1> DEFINE m == [main EXCEPT !.desired = switch]
           l == IF switch THEN "idle" ELSE "disabled"
<1>1. main \in Record /\ job \in Jobs
  BY DEF ITyped, TypeOK
<1>2. m \in Record /\ SameOwner(m, main) /\ m.epoch = main.epoch /\ m.phase = main.phase
      /\ m.life = main.life /\ m.desired = switch
  BY <1>1, Switched
<1>3. /\ job' = [job EXCEPT !.at = "persisted"]
      /\ \/ main' = m
         \/ Owned(m) = None /\ main' = [m EXCEPT !.intent = switch, !.life = l]
      /\ UNCHANGED <<attempt, bridge, toWindow, tries>>
  BY DEF WrittenOn
<1>4. l \in Lives /\ l \in {"idle", "disabled"}
  BY DEF Lives
<1> HIDE DEF m, l
<1>5. job' \in Jobs
  BY <1>1, <1>3 DEF Jobs
<1>6. Owned(m) = Owned(main)
  BY <1>2, OwnedAlike
<1>7. CASE main' = m
  BY <1>2, <1>3, <1>5, <1>7
<1>8. CASE Owned(m) = None /\ main' = [m EXCEPT !.intent = switch, !.life = l]
  BY <1>2, <1>3, <1>4, <1>5, <1>6, <1>8 DEF Record, SameOwner
<1> QED
  BY <1>3, <1>7, <1>8

\* The first of the answers is taken.
LEMMA AckTaken ==
  ASSUME ITyped, AckArrives
  PROVE  /\ toMain' \in Seq(Acks) /\ Len(toMain') = Len(toMain) - 1
         /\ Head(toMain) \in Acks /\ Head(toMain) = toMain[1] /\ 1 \in 1..Len(toMain)
         /\ \A i \in 1..Len(toMain') : i + 1 \in 1..Len(toMain) /\ toMain'[i] = toMain[i + 1]
<1>1. toMain \in Seq(Acks) /\ toMain # <<>> /\ toMain' = Tail(toMain)
  BY DEF ITyped, TypeOK, AckArrives
<1>2. Len(toMain) \in Nat \ {0}
  BY <1>1, EmptySeq, LenProperties
<1> QED
  BY <1>1, <1>2, HeadTailProperties

\* The first of the requests is taken.
LEMMA RequestTaken ==
  ASSUME ITyped, toWindow # <<>>, toWindow' = Tail(toWindow)
  PROVE  /\ toWindow' \in Seq(Requests) /\ Len(toWindow') = Len(toWindow) - 1
         /\ Head(toWindow) \in Requests /\ Head(toWindow) = toWindow[1] /\ 1 \in 1..Len(toWindow)
         /\ \A i \in 1..Len(toWindow') : i + 1 \in 1..Len(toWindow) /\ toWindow'[i] = toWindow[i + 1]
<1>1. toWindow \in Seq(Requests)
  BY DEF ITyped, TypeOK
<1>2. Len(toWindow) \in Nat \ {0}
  BY <1>1, EmptySeq, LenProperties
<1> QED
  BY <1>1, <1>2, HeadTailProperties

\* Disposals are queued behind what is.
LEMMA DisposalsQueued ==
  ASSUME ITyped, queue' = queue \o Disposals(leases)
  PROVE  /\ queue' \in Seq(Operations)
         /\ \A i \in 1..Len(queue) : i \in 1..Len(queue') /\ queue'[i] = queue[i]
         /\ \A i \in 1..Len(queue') :
              \/ i \in 1..Len(queue)
              \/ queue'[i].epoch = 0 /\ queue'[i].kind = "dispose" /\ queue'[i].lease # None
         /\ \A g \in leases : \E i \in 1..Len(queue') : queue'[i].kind = "dispose" /\ queue'[i].lease = g
<1> DEFINE d == Disposals(leases)
<1>1. queue \in Seq(Operations) /\ leases \in SUBSET Gens
  BY DEF ITyped, TypeOK
<1>2. d \in Seq(Operations) /\ (\A i \in 1..Len(d) : d[i].epoch = 0 /\ d[i].kind = "dispose" /\ d[i].lease # None)
      /\ \A g \in leases : \E i \in 1..Len(d) : d[i].lease = g
  BY <1>1, DisposalsListed
<1> HIDE DEF d
<1>3. queue' \in Seq(Operations) /\ Len(queue') = Len(queue) + Len(d)
      /\ \A i \in 1..Len(queue) + Len(d) :
           queue'[i] = IF i <= Len(queue) THEN queue[i] ELSE d[i - Len(queue)]
  <2>1. queue' = queue \o d
    BY DEF d
  <2> QED
    BY <1>1, <1>2, <2>1, ConcatProperties
<1>4. Len(queue) \in Nat /\ Len(d) \in Nat
  BY <1>1, <1>2, LenProperties
<1>5. \A i \in 1..Len(d) : Len(queue) + i \in 1..Len(queue') /\ queue'[Len(queue) + i] = d[i]
  <2> SUFFICES ASSUME NEW i \in 1..Len(d)
              PROVE  Len(queue) + i \in 1..Len(queue') /\ queue'[Len(queue) + i] = d[i]
    OBVIOUS
  <2>1. Len(queue) + i \in 1..Len(queue) + Len(d) /\ ~(Len(queue) + i <= Len(queue))
        /\ (Len(queue) + i) - Len(queue) = i
    BY <1>4
  <2> QED
    BY <1>3, <2>1
<1>6. \A i \in 1..Len(queue) : i \in 1..Len(queue') /\ queue'[i] = queue[i]
  BY <1>3, <1>4
<1>7. \A i \in 1..Len(queue') : i \in 1..Len(queue) \/ (i - Len(queue) \in 1..Len(d) /\ queue'[i] = d[i - Len(queue)])
  BY <1>3, <1>4
<1>8. \A i \in 1..Len(queue') :
        i \in 1..Len(queue) \/ (queue'[i].epoch = 0 /\ queue'[i].kind = "dispose" /\ queue'[i].lease # None)
  <2> SUFFICES ASSUME NEW i \in 1..Len(queue'), i \notin 1..Len(queue)
              PROVE  queue'[i].epoch = 0 /\ queue'[i].kind = "dispose" /\ queue'[i].lease # None
    OBVIOUS
  <2>1. PICK k \in 1..Len(d) : queue'[i] = d[k]
    BY <1>7
  <2> QED
    BY <1>2, <2>1
<1>9. \A g \in leases : \E i \in 1..Len(queue') : queue'[i].kind = "dispose" /\ queue'[i].lease = g
  <2> SUFFICES ASSUME NEW g \in leases
              PROVE  \E i \in 1..Len(queue') : queue'[i].kind = "dispose" /\ queue'[i].lease = g
    OBVIOUS
  <2>1. PICK i \in 1..Len(d) : d[i].lease = g
    BY <1>2
  <2> QED
    BY <1>2, <1>5, <2>1
<1> QED
  BY <1>3, <1>6, <1>8, <1>9

\* Answers on their way to main.
LEMMA Answered ==
  ASSUME ITyped, NEW acks \in Seq(Acks), Answer(acks)
  PROVE  /\ toMain' \in Seq(Acks) /\ Len(toMain') = Len(toMain) + Len(acks)
         /\ \A i \in 1..Len(toMain') :
              \/ i \in 1..Len(toMain) /\ toMain'[i] = toMain[i]
              \/ i - Len(toMain) \in 1..Len(acks) /\ toMain'[i] = acks[i - Len(toMain)]
<1>1. toMain \in Seq(Acks) /\ toMain' = toMain \o acks
  BY DEF ITyped, TypeOK, Answer
<1>2. toMain' \in Seq(Acks) /\ Len(toMain') = Len(toMain) + Len(acks)
      /\ \A i \in 1..Len(toMain) + Len(acks) :
           toMain'[i] = IF i <= Len(toMain) THEN toMain[i] ELSE acks[i - Len(toMain)]
  BY <1>1, ConcatProperties
<1>3. Len(toMain) \in Nat /\ Len(acks) \in Nat
  BY <1>1, LenProperties
<1> QED
  BY <1>2, <1>3

\* One answer more.
LEMMA AnsweredOne ==
  ASSUME ITyped, NEW a \in Acks, Answer(<<a>>)
  PROVE  /\ toMain' \in Seq(Acks) /\ Len(toMain') = Len(toMain) + 1
         /\ \A i \in 1..Len(toMain') :
              (i \in 1..Len(toMain) /\ toMain'[i] = toMain[i]) \/ toMain'[i] = a
<1>1. <<a>> \in Seq(Acks) /\ Len(<<a>>) = 1 /\ <<a>>[1] = a
  OBVIOUS
<1>2. \A i \in 1..1 : <<a>>[i] = a
  BY <1>1
<1> QED
  BY <1>1, <1>2, Answered

\* An answer sent.
LEMMA OneSent ==
  ASSUME ITyped, NEW a \in {"opened", "closed", "incomplete", "unknown"}, NEW g \in Gens, NEW t \in Nat,
         Answer(<<[ack |-> a, gen |-> g, try |-> t]>>)
  PROVE  /\ toMain' \in Seq(Acks) /\ Len(toMain') = Len(toMain) + 1
         /\ \A i \in 1..Len(toMain') :
              \/ i \in 1..Len(toMain) /\ toMain'[i] = toMain[i]
              \/ toMain'[i].ack = a /\ toMain'[i].gen = g
<1> DEFINE r == [ack |-> a, gen |-> g, try |-> t]
<1>1. r \in Acks /\ r.ack = a /\ r.gen = g
  BY DEF Acks
<1>2. Answer(<<r>>)
  OBVIOUS
<1> HIDE DEF r
<1>3. toMain' \in Seq(Acks) /\ Len(toMain') = Len(toMain) + 1
      /\ \A i \in 1..Len(toMain') : (i \in 1..Len(toMain) /\ toMain'[i] = toMain[i]) \/ toMain'[i] = r
  BY <1>1, <1>2, AnsweredOne
<1> QED
  BY <1>1, <1>3

\* A refusal sent.
LEMMA RefusalSent ==
  ASSUME ITyped, NEW g \in Gens, Answer(OpenFailed(g))
  PROVE  /\ toMain' \in Seq(Acks) /\ Len(toMain') = Len(toMain) + 1
         /\ \A i \in 1..Len(toMain') :
              \/ i \in 1..Len(toMain) /\ toMain'[i] = toMain[i]
              \/ toMain'[i].ack = "refused" /\ toMain'[i].gen = g
<1> DEFINE r == [ack |-> "refused", gen |-> g, try |-> 0]
<1>1. r \in Acks /\ r.ack = "refused" /\ r.gen = g
  BY DEF Acks
<1>2. Answer(<<r>>)
  BY DEF OpenFailed
<1> HIDE DEF r
<1>3. toMain' \in Seq(Acks) /\ Len(toMain') = Len(toMain) + 1
      /\ \A i \in 1..Len(toMain') : (i \in 1..Len(toMain) /\ toMain'[i] = toMain[i]) \/ toMain'[i] = r
  BY <1>1, <1>2, AnsweredOne
<1> QED
  BY <1>1, <1>3

\* What the end of a release does: of its lease and of what waited for it.
LEMMA ReleaseStep ==
  ASSUME ITyped, NEW g \in Gens, HostReleased(g)
  PROVE  /\ UNCHANGED <<registry, bridge, toWindow, page, tries>> /\ host[g] = "closing" /\ page
         /\ closers' \subseteq closers /\ opening' \subseteq opening /\ known' \subseteq known
         /\ closed' \subseteq Gens /\ toMain' \in Seq(Acks)
         /\ host' \in [Gens -> {"none", "queued", "starting", "active", "closing", "held", "closed"}]
         /\ \A h \in Gens : h # g /\ host[h] # "queued" => host'[h] = host[h]
         /\ host'[g] \in {"closed", "held"}
         /\ (\A h \in Gens : host[h] # "queued") => closed' \subseteq closed \cup {g}
         /\ \A i \in 1..Len(toMain') :
              \/ i \in 1..Len(toMain) /\ toMain'[i] = toMain[i]
              \/ toMain'[i].ack = "refused" /\ (toMain'[i].gen = g \/ host[toMain'[i].gen] = "queued")
              \/ toMain'[i].ack = "incomplete" /\ toMain'[i].gen = g
              \/ toMain'[i].ack = "closed" /\ toMain'[i].gen = g /\ host'[g] = "closed"
         /\ budget' = budget \/ Fault
<1> DEFINE next == {h \in Gens : host[h] = "queued"}
           asked == {r \in closers : r.gen = g}
           failedOpens(complete) == (opening \cap {g}) \cup (IF complete THEN {} ELSE next)
           ack(complete) == IF complete THEN "closed" ELSE "incomplete"
<1>1. PICK complete \in BOOLEAN :
        /\ IF complete THEN UNCHANGED budget ELSE Fault
        /\ host' = [h \in Gens |->
                      IF h = g THEN IF complete THEN "closed" ELSE "held"
                      ELSE IF h \notin next THEN host[h]
                      ELSE IF ~complete THEN "none"
                      ELSE IF h \in known THEN "starting" ELSE "closing"]
        /\ closers' = closers \ asked
        /\ opening' = opening \ failedOpens(complete)
        /\ known' = known \ (failedOpens(complete) \cup IF complete /\ asked # {} THEN {g} ELSE {})
        /\ closed' = closed \cup failedOpens(complete) \cup (IF complete /\ asked # {} THEN {g} ELSE {})
        /\ Answer(Refusals(failedOpens(complete)) \o Answers(asked, ack(complete)))
  BY DEF HostReleased
<1>2. UNCHANGED <<registry, bridge, toWindow, page, tries>> /\ host[g] = "closing" /\ page
  BY DEF HostReleased
<1> DEFINE F == failedOpens(complete)
           a == ack(complete)
           R == Refusals(F)
           A == Answers(asked, a)
<1>3. F \in SUBSET Gens /\ (\A h \in F : h = g \/ host[h] = "queued")
      /\ a \in {"closed", "incomplete"} /\ (a = "closed" <=> complete)
  BY DEF ITyped, TypeOK
<1>4. asked \in SUBSET Requests /\ IsFiniteSet(asked) /\ \A r \in asked : r.gen = g
  <2>1. asked \subseteq closers
    OBVIOUS
  <2> QED
    BY <2>1, FS_Subset DEF ITyped, TypeOK
<1>5. Answer(R \o A)
  BY <1>1
<1>6. /\ closers' \subseteq closers /\ opening' \subseteq opening /\ known' \subseteq known
      /\ closed' \subseteq Gens
      /\ (\A h \in Gens : host[h] # "queued") => closed' \subseteq closed \cup {g}
      /\ budget' = budget \/ Fault
  BY <1>1 DEF ITyped, TypeOK
<1>7. /\ host' \in [Gens -> {"none", "queued", "starting", "active", "closing", "held", "closed"}]
      /\ \A h \in Gens : h # g /\ host[h] # "queued" => host'[h] = host[h]
      /\ host'[g] = IF complete THEN "closed" ELSE "held"
  BY <1>1 DEF ITyped, TypeOK
<1> HIDE DEF F, a, asked
<1>8. R \in Seq(Acks) /\ \A i \in 1..Len(R) : R[i].ack = "refused" /\ R[i].gen \in F
  BY <1>3, RefusalsListed
<1>9. A \in Seq(Acks) /\ \A i \in 1..Len(A) : A[i].ack = a /\ A[i].gen = g
  BY <1>3, <1>4, AnswersListed
<1> HIDE DEF R, A
<1>10. Len(R) \in Nat /\ Len(A) \in Nat
  BY <1>8, <1>9, LenProperties
<1>11. R \o A \in Seq(Acks) /\ Len(R \o A) = Len(R) + Len(A)
       /\ \A i \in 1..Len(R) + Len(A) : (R \o A)[i] = IF i <= Len(R) THEN R[i] ELSE A[i - Len(R)]
  BY <1>8, <1>9, ConcatProperties
<1> DEFINE s == R \o A
<1>12. \A i \in 1..Len(s) : \/ i \in 1..Len(R) /\ s[i] = R[i]
                            \/ i - Len(R) \in 1..Len(A) /\ s[i] = A[i - Len(R)]
  BY <1>10, <1>11
<1>13. s \in Seq(Acks) /\ Answer(s)
  BY <1>5, <1>11
<1> HIDE DEF s
<1>14. \A i \in 1..Len(s) : \/ s[i].ack = "refused" /\ s[i].gen \in F
                            \/ s[i].ack = a /\ s[i].gen = g
  BY <1>8, <1>9, <1>12
<1>15. /\ toMain' \in Seq(Acks)
       /\ \A i \in 1..Len(toMain') :
              \/ i \in 1..Len(toMain) /\ toMain'[i] = toMain[i]
              \/ i - Len(toMain) \in 1..Len(s) /\ toMain'[i] = s[i - Len(toMain)]
  BY <1>13, Answered
<1>16. \A i \in 1..Len(toMain') :
              \/ i \in 1..Len(toMain) /\ toMain'[i] = toMain[i]
              \/ toMain'[i].ack = "refused" /\ toMain'[i].gen \in F
              \/ toMain'[i].ack = a /\ toMain'[i].gen = g
  BY <1>14, <1>15
<1>17. \A i \in 1..Len(toMain') :
              \/ i \in 1..Len(toMain) /\ toMain'[i] = toMain[i]
              \/ toMain'[i].ack = "refused" /\ (toMain'[i].gen = g \/ host[toMain'[i].gen] = "queued")
              \/ toMain'[i].ack = "incomplete" /\ toMain'[i].gen = g
              \/ toMain'[i].ack = "closed" /\ toMain'[i].gen = g /\ host'[g] = "closed"
  BY <1>3, <1>7, <1>16
<1>18. host'[g] \in {"closed", "held"}
  BY <1>7
<1> QED
  BY <1>2, <1>6, <1>7, <1>15, <1>17, <1>18

\* What is counted stays within its bound.
LEMMA CallStep ==
  ASSUME ITyped
  PROVE  /\ Call => budget' \in [calls : 0..MaxCalls, reloads : 0..MaxReloads, faults : 0..MaxFaults]
         /\ Fault => budget' \in [calls : 0..MaxCalls, reloads : 0..MaxReloads, faults : 0..MaxFaults]
<1>1. MaxCalls \in Nat /\ MaxFaults \in Nat
  BY BoundsAssumption
<1>2. budget \in [calls : 0..MaxCalls, reloads : 0..MaxReloads, faults : 0..MaxFaults]
  BY DEF ITyped, TypeOK
<1>3. Call => budget.calls + 1 \in 0..MaxCalls /\ budget' = [budget EXCEPT !.calls = @ + 1]
  BY <1>1, <1>2 DEF Call
<1>4. Fault => budget.faults + 1 \in 0..MaxFaults /\ budget' = [budget EXCEPT !.faults = @ + 1]
  BY <1>1, <1>2 DEF Fault
<1> QED
  BY <1>2, <1>3, <1>4

\* A cleanup keeps the types.
LEMMA CleanedTyped ==
  ASSUME ITyped, main' \in Record, job' \in Jobs, queue' \in Seq(Operations), leases' \subseteq leases,
         forget' \in SUBSET Gens, UNCHANGED <<stored, toMain, window, budget, gone>>, NEW waiting,
         \/ UNCHANGED <<attempt, pending, toWindow, tries>>
         \/ \E g : Trying(g, waiting)
  PROVE  ITyped'
<1>1. toWindow' \in Seq(Requests)
  BY Requested DEF ITyped, TypeOK, Trying
<1>2. attempt' \in Attempts /\ pending' \subseteq Requests /\ tries' \in Nat
  BY DEF ITyped, TypeOK, Trying
<1> QED
  BY <1>1, <1>2 DEF ITyped, TypeOK, window

\* Every step keeps the types.
LEMMA TypeStep == ITyped /\ IRegistry /\ [Next]_vars => ITyped'
<1> SUFFICES ASSUME ITyped, IRegistry, [Next]_vars PROVE ITyped'
  OBVIOUS
<1> USE DEF None
<1>0. /\ main \in Record /\ queue \in Seq(Operations) /\ job \in Jobs /\ attempt \in Attempts
      /\ pending \subseteq Requests /\ closers \subseteq Requests
      /\ tries \in Nat
  BY DEF ITyped, TypeOK
<1>a. NoJob \in Jobs /\ NoAttempt \in Attempts
  BY DEF NoJob, NoAttempt, Jobs, Attempts
<1>1. CASE StartJob
  <2>1. queue' \in Seq(Operations)
    BY <1>1, Dequeued DEF StartJob, CanStart
  <2> DEFINE op == Head(queue)
             j == [kind |-> op.kind, epoch |-> op.epoch, lease |-> op.lease, at |-> "persist", failed |-> FALSE]
  <2>2. op \in Operations
    BY <1>1, Dequeued DEF StartJob, CanStart
  <2>3. j \in Jobs /\ [j EXCEPT !.at = "persisted"] \in Jobs /\ \A e \in Nat : [j EXCEPT !.epoch = e] \in Jobs
    BY <2>2 DEF Operations, Jobs
  <2>4. /\ UNCHANGED <<stored, toMain, window, budget, gone>>
        /\ \/ /\ job' \in {j, [j EXCEPT !.at = "persisted"], NoJob}
              /\ UNCHANGED <<main, attempt, bridge, toWindow, tries>>
           \/ CleanUp(main, j, "cleanup", "cleaned")
           \/ LET m == BeginTransition(main, "disposed", main.desired, TRUE)
              IN  CleanUp([m EXCEPT !.life = "deactivating"],
                          [j EXCEPT !.epoch = m.epoch], "cleanup", "cleaned")
    BY <1>1 DEF StartJob, bridge
  <2> HIDE DEF op, j
  <2>5. CASE job' \in {j, [j EXCEPT !.at = "persisted"], NoJob} /\ UNCHANGED <<main, attempt, bridge, toWindow, tries>>
    <3>1. job' \in Jobs
      BY <1>a, <2>3, <2>5
    <3> QED
      BY <2>1, <2>4, <2>5, <3>1 DEF ITyped, TypeOK, bridge, window
  <2>6. CASE CleanUp(main, j, "cleanup", "cleaned")
    <3>1. SameOwner(main, main)
      BY DEF SameOwner
    <3>2. /\ main' \in Record /\ job' \in Jobs /\ leases' \subseteq leases /\ forget' \in SUBSET Gens
          /\ \/ UNCHANGED <<attempt, pending, toWindow, tries>>
             \/ \E g : Trying(g, pending \ OpensOf({main.gen}))
      BY <1>0, <2>3, <2>6, <3>1, CleanStep
    <3> QED
      BY <2>1, <2>4, <3>2, CleanedTyped
  <2>7. CASE LET m == BeginTransition(main, "disposed", main.desired, TRUE)
             IN  CleanUp([m EXCEPT !.life = "deactivating"],
                         [j EXCEPT !.epoch = m.epoch], "cleanup", "cleaned")
    <3>1. /\ main' \in Record /\ job' \in Jobs /\ leases' \subseteq leases /\ forget' \in SUBSET Gens
          /\ \/ UNCHANGED <<attempt, pending, toWindow, tries>>
             \/ \E g : Trying(g, pending \ OpensOf({main.gen}))
      BY <2>3, <2>7, DisposeStep
    <3> QED
      BY <2>1, <2>4, <3>1, CleanedTyped
  <2> QED
    BY <2>4, <2>5, <2>6, <2>7
<1>2. CASE SettleAttempt
  <2>1. main' \in Record
    <3> DEFINE c == IF attempt.st = "ok" /\ main.cleanup = attempt.gen THEN None ELSE main.cleanup
               l == IF attempt.opened THEN "failed" ELSE main.life
    <3>1. main' = [main EXCEPT !.cleanup = c, !.life = l]
      BY <1>2 DEF SettleAttempt
    <3>2. c \in Gens \cup {None} /\ l \in Lives
      BY <1>0 DEF Record, Lives
    <3> HIDE DEF c, l
    <3> QED
      BY <1>0, <3>1, <3>2 DEF Record
  <2>2. job' \in Jobs
    <3>1. [job EXCEPT !.at = "cleaned", !.failed = attempt.st = "failed"] \in Jobs
          /\ [job EXCEPT !.at = "reconciled", !.failed = attempt.st = "failed"] \in Jobs
      BY <1>0 DEF Jobs
    <3> QED
      BY <1>0, <1>2, <3>1 DEF SettleAttempt
  <2>3. attempt' = NoAttempt /\ UNCHANGED <<queue, stored, bridge, wires, window, tries, budget>>
    BY <1>2 DEF SettleAttempt
  <2> QED
    BY <1>a, <2>1, <2>2, <2>3 DEF ITyped, TypeOK, bridge, wires, window
<1>3. CASE AfterCleanup
  <2>1. UNCHANGED <<queue, attempt, stored, toMain, window, tries, budget, gone>>
    BY <1>3 DEF AfterCleanup, bridge
  <2>2. [job EXCEPT !.at = "persist"] \in Jobs /\ [job EXCEPT !.at = "persisted"] \in Jobs
        /\ [job EXCEPT !.at = "activation"] \in Jobs
    BY <1>0 DEF Jobs
  <2>3. {"failed", "idle", "disabled", main.life} \subseteq Lives /\ main.desired \in BOOLEAN
    BY <1>0 DEF Lives, Record
  <2>4. CASE UNCHANGED <<main, bridge, toWindow>> /\ job.kind = "disable"
    <3>1. job' \in Jobs
      BY <1>3, <2>2, <2>4 DEF AfterCleanup
    <3> QED
      BY <2>1, <2>4, <3>1 DEF ITyped, TypeOK, bridge, window
  <2>5. CASE job.kind = "dispose"
    <3> DEFINE m == Finish(main, job.epoch, "failed")
    <3>1. m \in Record
      BY <1>0, <2>3, Finished
    <3>2. job' = NoJob /\ UNCHANGED <<bridge, toWindow>>
          /\ main' = IF job.failed THEN m ELSE [m EXCEPT !.disposed = @ \cup {job.lease}]
      BY <1>3, <2>5 DEF AfterCleanup
    <3> HIDE DEF m
    <3>3. main' \in Record
      <4>1. job.lease \in Gens
        BY <1>0, <2>5 DEF IRegistry, Jobs
      <4> QED
        BY <3>1, <3>2, <4>1 DEF Record
    <3> QED
      BY <1>a, <2>1, <3>2, <3>3 DEF ITyped, TypeOK, bridge, window
  <2>6. CASE job.kind = "shutdown"
    <3> DEFINE l == IF job.failed THEN "failed" ELSE IF main.desired THEN "idle" ELSE "disabled"
    <3>1. main' = Finish(main, job.epoch, l) /\ job' = NoJob /\ UNCHANGED <<bridge, toWindow>>
      BY <1>3, <2>6 DEF AfterCleanup
    <3>2. l \in Lives
      BY <2>3
    <3> HIDE DEF l
    <3>3. main' \in Record
      BY <1>0, <3>1, <3>2, Finished
    <3> QED
      BY <1>a, <2>1, <3>1, <3>3 DEF ITyped, TypeOK, bridge, window
  <2>7. CASE job.kind = "replace" /\ (job.failed \/ main.epoch # job.epoch)
    <3>1. main' = Finish(main, job.epoch, "failed") /\ job' = NoJob /\ UNCHANGED <<bridge, toWindow>>
      BY <1>3, <2>7 DEF AfterCleanup
    <3>2. main' \in Record
      BY <1>0, <2>3, <3>1, Finished
    <3> QED
      BY <1>a, <2>1, <3>1, <3>2 DEF ITyped, TypeOK, bridge, window
  <2>8. CASE job.kind = "replace" /\ ~(job.failed \/ main.epoch # job.epoch)
    <3> DEFINE m == Finish(main, job.epoch, main.life)
    <3>1. m \in Record /\ SameOwner(m, main)
      BY <1>0, <2>3, Finished
    <3>2. \/ Activate(m) /\ job' = [job EXCEPT !.at = "activation"]
          \/ /\ main' = IF m.desired THEN m ELSE [m EXCEPT !.life = "disabled"]
             /\ job' = NoJob
             /\ UNCHANGED <<bridge, toWindow>>
      BY <1>3, <2>8 DEF AfterCleanup
    <3> HIDE DEF m
    <3>3. CASE Activate(m) /\ job' = [job EXCEPT !.at = "activation"]
      <4> DEFINE g == main.count + 1
                 open == [act |-> "open", gen |-> g, try |-> 0]
      <4>1. /\ main' \in Record /\ g \in Gens /\ open \in Requests
            /\ \/ /\ gone /\ forget' = forget \cup {g} /\ UNCHANGED <<leases, pending, toWindow>>
               \/ /\ ~gone /\ leases' = leases \cup {g} /\ pending' = pending \cup {open}
                  /\ toWindow' = Append(toWindow, open) /\ UNCHANGED forget
        BY <3>1, <3>3, ActivateStep
      <4> HIDE DEF g, open
      <4>2. toWindow' \in Seq(Requests)
        BY <4>1, Requested DEF ITyped, TypeOK
      <4> QED
        BY <2>1, <2>2, <3>3, <4>1, <4>2 DEF ITyped, TypeOK, window
    <3>4. CASE /\ main' = IF m.desired THEN m ELSE [m EXCEPT !.life = "disabled"]
               /\ job' = NoJob
               /\ UNCHANGED <<bridge, toWindow>>
      <4>1. main' \in Record
        BY <2>3, <3>1, <3>4, Lived
      <4> QED
        BY <1>a, <2>1, <3>4, <4>1 DEF ITyped, TypeOK, bridge, window
    <3> QED
      BY <3>2, <3>3, <3>4
  <2> QED
    BY <1>3, <2>4, <2>5, <2>6, <2>7, <2>8 DEF AfterCleanup
<1>4. CASE AfterReconcile
  <2> DEFINE l == IF job.failed THEN "failed" ELSE "disabled"
             m == [main EXCEPT !.phase = "stable", !.intent = FALSE, !.life = l]
  <2>1. m \in Record
    <3>1. l \in Lives
      BY DEF Lives
    <3> HIDE DEF l
    <3> QED
      BY <1>0, <3>1 DEF Record, Phases
  <2>2. job.kind \in {"enable", "disable", "setting"}
    BY <1>4 DEF IRegistry, AfterReconcile
  <2>3. PersistThrows(m) \in Record
    BY <2>1, <2>2, ThrownStep
  <2>4. /\ \/ main' = m /\ job' = [job EXCEPT !.at = "persisted"]
           \/ main' = PersistThrows(m) /\ job' = NoJob
        /\ UNCHANGED <<queue, attempt, stored, bridge, wires, window, tries, budget>>
    BY <1>4 DEF AfterReconcile
  <2>5. [job EXCEPT !.at = "persisted"] \in Jobs
    BY <1>0 DEF Jobs
  <2> HIDE DEF m
  <2> QED
    BY <1>a, <2>1, <2>3, <2>4, <2>5 DEF ITyped, TypeOK, bridge, wires, window
<1>5. CASE AfterPersist
  <2>1. main' \in Record
    <3>1. job.kind \in {"enable", "disable", "setting"}
      BY <1>5 DEF IRegistry, AfterPersist
    <3>2. \/ main' = main
          \/ \E l \in Lives : main' = Finish(main, job.epoch, l)
      BY <1>0, <1>5, <3>1 DEF AfterPersist, Record, Lives
    <3> QED
      BY <1>0, <3>2, Finished
  <2>2. job' = NoJob /\ UNCHANGED <<queue, attempt, stored, bridge, wires, window, tries, budget>>
    BY <1>5 DEF AfterPersist
  <2> QED
    BY <1>a, <2>1, <2>2 DEF ITyped, TypeOK, bridge, wires, window
<1>6. ASSUME NEW g \in Gens, ForgetOpen(g) PROVE ITyped'
  <2> DEFINE known_ == IF \E p \in pending : p.gen = g THEN leases ELSE leases \ {g}
  <2>1. /\ forget' = forget \ {g} /\ known_ \subseteq leases
        /\ UNCHANGED <<queue, stored, gone, toMain, window, budget>>
        /\ \/ main' = Disown(main) /\ CanPublish(main, g) /\ TryCleanup(g, known_, pending, TRUE)
           \/ leases' = known_ /\ UNCHANGED <<main, attempt, pending, toWindow, tries>>
    BY <1>6 DEF ForgetOpen
  <2>2. job' \in Jobs
    BY <1>a, <1>0, <1>6 DEF ForgetOpen
  <2> HIDE DEF known_
  <2>3. CASE main' = Disown(main) /\ CanPublish(main, g) /\ TryCleanup(g, known_, pending, TRUE)
    <3>1. main' \in Record
      BY <1>0, <2>3, Disowned
    <3>2. attempt.gen = None /\ TRUE \in BOOLEAN
      BY <1>6, <2>3 DEF CanPublish, ActivationAllowed, IRegistry
    <3>3. Trying(g, pending) /\ leases' \subseteq known_
      BY <2>3, <3>2, TryStep
    <3> QED
      BY <2>1, <2>2, <3>1, <3>3, Requested DEF ITyped, TypeOK, window, Trying
  <2>4. CASE leases' = known_ /\ UNCHANGED <<main, attempt, pending, toWindow, tries>>
    BY <2>1, <2>2, <2>4 DEF ITyped, TypeOK, window
  <2> QED
    BY <2>1, <2>3, <2>4
<1>7. CASE Enable
  <2> DEFINE m == IF main.desired /\ main.phase = "stable" THEN main
                  ELSE BeginTransition(main, "enabling", TRUE, FALSE)
  <2>1. m \in Record
    <3>1. "enabling" \in Phases /\ TRUE \in BOOLEAN /\ FALSE \in BOOLEAN
      BY DEF Phases
    <3>2. BeginTransition(main, "enabling", TRUE, FALSE) \in Record
      BY <1>0, <3>1, Begun
    <3> QED
      BY <1>0, <3>2
  <2>2. /\ main' = m /\ Enqueue("enable", m.epoch, None)
        /\ UNCHANGED <<job, attempt, stored, bridge, wires, window, tries>> /\ Call
    BY <1>7 DEF Enable
  <2> HIDE DEF m
  <2>3. m.epoch \in Nat /\ "enable" \in Kinds /\ None \in Gens \cup {None}
    BY <2>1 DEF Record, Kinds
  <2>4. queue' \in Seq(Operations)
    BY <2>2, <2>3, Enqueued
  <2>5. budget' \in [calls : 0..MaxCalls, reloads : 0..MaxReloads, faults : 0..MaxFaults]
    BY <2>2, CallStep
  <2> QED
    BY <2>1, <2>2, <2>4, <2>5 DEF ITyped, TypeOK, bridge, wires, window
<1>8. ASSUME NEW kind \in Kinds, NEW phase \in Phases, NEW intent \in BOOLEAN, NEW life \in Lives,
             FencedCall(kind, phase, intent, life), Call
      PROVE  ITyped'
  <2>1. /\ main' \in Record /\ main'.epoch \in Nat /\ Enqueue(kind, main'.epoch, None)
        /\ Abort /\ pending' = pending \ OpensOf({main.gen})
        /\ UNCHANGED <<job, attempt, stored, gone, leases, wires, window, tries>>
    BY <1>8, FencedStep
  <2>2. queue' \in Seq(Operations)
    BY <2>1, Enqueued
  <2>3. forget' \in SUBSET Gens
    BY <2>1, Aborted
  <2>4. budget' \in [calls : 0..MaxCalls, reloads : 0..MaxReloads, faults : 0..MaxFaults]
    BY <1>8, CallStep
  <2> QED
    BY <2>1, <2>2, <2>3, <2>4 DEF ITyped, TypeOK, wires, window
<1>9. CASE Disable
  <2>1. FALSE \in BOOLEAN /\ "disable" \in Kinds /\ "disabling" \in Phases /\ "deactivating" \in Lives
    BY DEF Kinds, Phases, Lives
  <2> QED
    BY <1>8, <1>9, <2>1 DEF Disable
<1>10. CASE Replace
  <2>1. TRUE \in BOOLEAN /\ "replace" \in Kinds /\ "replacing" \in Phases /\ "deactivating" \in Lives
    BY DEF Kinds, Phases, Lives
  <2> QED
    BY <1>8, <1>10, <2>1 DEF Replace
<1>11. CASE Shutdown
  <2> DEFINE life == IF Owned(main) = None THEN main.life ELSE "deactivating"
  <2>1. main.desired \in BOOLEAN /\ "shutdown" \in Kinds /\ "shutting-down" \in Phases /\ life \in Lives
    BY <1>0 DEF Kinds, Phases, Lives, Record
  <2>2. FencedCall("shutdown", "shutting-down", main.desired, life) /\ Call
    BY <1>11 DEF Shutdown
  <2> HIDE DEF life
  <2> QED
    BY <1>8, <2>1, <2>2
<1>12. CASE SetSetting
  <2>1. /\ Enqueue("setting", 0, None) /\ Call
        /\ UNCHANGED <<main, job, attempt, stored, bridge, wires, window, tries>>
    BY <1>12 DEF SetSetting
  <2>2. 0 \in Nat /\ "setting" \in Kinds /\ None \in Gens \cup {None}
    BY DEF Kinds
  <2>3. queue' \in Seq(Operations)
    BY <2>1, <2>2, Enqueued
  <2>4. budget' \in [calls : 0..MaxCalls, reloads : 0..MaxReloads, faults : 0..MaxFaults]
    BY <2>1, CallStep
  <2> QED
    BY <2>1, <2>3, <2>4 DEF ITyped, TypeOK, bridge, wires, window
<1>13. CASE Trigger
  <2> DEFINE g == main.count + 1
             open == [act |-> "open", gen |-> g, try |-> 0]
  <2>1. Call /\ Activate(main) /\ UNCHANGED <<queue, job, attempt, stored, gone, toMain, window, tries>>
    BY <1>13 DEF Trigger
  <2>2. SameOwner(main, main)
    BY DEF SameOwner
  <2>3. /\ main' \in Record /\ g \in Gens /\ open \in Requests
        /\ \/ /\ gone /\ forget' = forget \cup {g} /\ UNCHANGED <<leases, pending, toWindow>>
           \/ /\ ~gone /\ leases' = leases \cup {g} /\ pending' = pending \cup {open}
              /\ toWindow' = Append(toWindow, open) /\ UNCHANGED forget
    BY <1>0, <2>1, <2>2, ActivateStep
  <2> HIDE DEF g, open
  <2>4. toWindow' \in Seq(Requests)
    BY <2>3, Requested DEF ITyped, TypeOK
  <2>5. budget' \in [calls : 0..MaxCalls, reloads : 0..MaxReloads, faults : 0..MaxFaults]
    BY <2>1, CallStep
  <2> QED
    BY <2>1, <2>3, <2>4, <2>5 DEF ITyped, TypeOK, window
<1>14. CASE DiskAnswers
  <2>1. job.at = "persist" /\ job.kind \in {"enable", "disable", "setting"}
    BY <1>14 DEF DiskAnswers, IRegistry
  <2>2. UNCHANGED <<queue, toMain, window, gone>>
    BY <1>14 DEF DiskAnswers, bridge
  <2>3. budget' \in [calls : 0..MaxCalls, reloads : 0..MaxReloads, faults : 0..MaxFaults]
    <3>1. budget' = budget \/ Fault
      BY <1>14 DEF DiskAnswers
    <3> QED
      BY <3>1, CallStep DEF ITyped, TypeOK
  <2>4. CASE main' = PersistThrows(main) /\ job' = NoJob /\ UNCHANGED <<stored, attempt, bridge, toWindow, tries>>
    <3>1. main' \in Record
      BY <1>0, <2>1, <2>4, ThrownStep
    <3> QED
      BY <1>a, <2>2, <2>3, <2>4, <3>1 DEF ITyped, TypeOK, bridge, window
  <2>5. ASSUME NEW switch \in BOOLEAN, stored' = switch, Written(switch)
        PROVE  ITyped'
    <3>1. CASE WrittenOff(switch)
      <4>1. main' \in Record /\ job' \in Jobs /\ leases' \subseteq leases /\ forget' \in SUBSET Gens
            /\ \/ UNCHANGED <<attempt, pending, toWindow, tries>>
               \/ \E g : Trying(g, pending \ OpensOf({main.gen}))
        BY <2>5, <3>1, WrittenOffStep
      <4>2. toWindow' \in Seq(Requests)
        BY <4>1, Requested DEF ITyped, TypeOK, Trying
      <4>3. attempt' \in Attempts /\ pending' \subseteq Requests /\ tries' \in Nat
        BY <1>0, <4>1 DEF Trying
      <4> QED
        BY <2>2, <2>3, <2>5, <4>1, <4>2, <4>3 DEF ITyped, TypeOK, window
    <3>2. CASE WrittenOn(switch)
      <4>1. main' \in Record /\ job' \in Jobs /\ UNCHANGED <<attempt, bridge, toWindow, tries>>
        BY <2>5, <3>2, WrittenOnStep
      <4> QED
        BY <2>2, <2>3, <2>5, <4>1 DEF ITyped, TypeOK, bridge, window
    <3> QED
      BY <2>5, <3>1, <3>2 DEF Written
  <2> QED
    BY <1>14, <2>4, <2>5, DiskStep
<1>15. CASE AckArrives
  <2>1. toMain' \in Seq(Acks) /\ Head(toMain) \in Acks
    BY <1>15, AckTaken
  <2>2. /\ UNCHANGED <<queue, stored, gone, toWindow, window, tries, budget>>
        /\ pending' \subseteq pending /\ leases' \subseteq leases
        /\ forget' \subseteq forget \cup {Head(toMain).gen}
        /\ \/ attempt' = attempt
           \/ \E st \in {"ok", "failed"} : attempt' = [attempt EXCEPT !.st = st]
        /\ main' = main \/ main' = [main EXCEPT !.life = "active"]
        /\ job' = job \/ job' = NoJob
    BY <1>15 DEF AckArrives
  <2>3. Head(toMain).gen \in Gens
    BY <2>1 DEF Acks
  <2>4. main' \in Record
    <3>1. "active" \in Lives
      BY DEF Lives
    <3> QED
      BY <1>0, <2>2, <3>1, Lived
  <2>5. attempt' \in Attempts
    BY <1>0, <2>2 DEF Attempts
  <2> QED
    BY <1>a, <2>1, <2>2, <2>3, <2>4, <2>5 DEF ITyped, TypeOK, window
<1>16. CASE CleanupTimesOut
  <2>1. attempt' \in Attempts
    BY <1>0, <1>16 DEF CleanupTimesOut, Attempts
  <2> QED
    BY <1>16, <2>1 DEF ITyped, TypeOK, CleanupTimesOut, bridge, wires, window
<1>17. CASE RequestTimesOut
  <2>1. pending' \subseteq pending /\ forget' \in SUBSET Gens
        /\ UNCHANGED <<registry, gone, leases, wires, window, tries, budget>>
    BY <1>0, <1>17 DEF RequestTimesOut, Requests, ITyped, TypeOK
  <2> QED
    BY <2>1 DEF ITyped, TypeOK, registry, wires, window
<1>18. CASE Navigate
  <2>1. queue' \in Seq(Operations)
    BY <1>18, DisposalsQueued DEF Navigate
  <2>2. attempt' \in Attempts
    BY <1>0, <1>18 DEF Navigate, Attempts
  <2>3. budget' \in [calls : 0..MaxCalls, reloads : 0..MaxReloads, faults : 0..MaxFaults]
    <3>1. budget' = [budget EXCEPT !.reloads = @ + 1] /\ budget.reloads < MaxReloads
      BY <1>18 DEF Navigate
    <3>2. MaxReloads \in Nat
      BY BoundsAssumption
    <3>3. budget \in [calls : 0..MaxCalls, reloads : 0..MaxReloads, faults : 0..MaxFaults]
      BY DEF ITyped, TypeOK
    <3>4. budget.reloads + 1 \in 0..MaxReloads
      BY <3>1, <3>2, <3>3
    <3> QED
      BY <3>1, <3>3, <3>4
  <2>4. forget' \in SUBSET Gens /\ pending' = {}
    BY <1>0, <1>18 DEF Navigate, OpensOf, Requests, ITyped, TypeOK
  <2>5. host' \in [Gens -> {"none", "queued", "starting", "active", "closing", "held", "closed"}]
        /\ IsFiniteSet(closers') /\ closers' = {}
    BY <1>18, FS_EmptySet DEF Navigate
  <2>6. /\ gone' = TRUE /\ page' = FALSE /\ known' = {} /\ closed' = {} /\ opening' = {}
        /\ toWindow' = <<>> /\ toMain' = <<>> /\ UNCHANGED <<main, job, stored, leases, tries>>
    BY <1>18 DEF Navigate
  <2>7. <<>> \in Seq(Requests) /\ <<>> \in Seq(Acks)
    OBVIOUS
  <2>8. {leases', forget', known', closed', opening'} \subseteq SUBSET Gens
    BY <2>4, <2>6 DEF ITyped, TypeOK
  <2>9. pending' \cup closers' \subseteq Requests
    BY <2>4, <2>5
  <2>10. toWindow' \in Seq(Requests) /\ toMain' \in Seq(Acks)
    BY <2>6, <2>7
  <2> QED
    BY <2>1, <2>2, <2>3, <2>5, <2>6, <2>8, <2>9, <2>10 DEF ITyped, TypeOK
<1>19. CASE PageReady
  <2>1. queue' \in Seq(Operations)
    BY <1>19, DisposalsQueued DEF PageReady
  <2> QED
    BY <1>19, <2>1 DEF ITyped, TypeOK, PageReady, wires
<1>20. CASE TakeOpen
  <2>1. toWindow' \in Seq(Requests) /\ Head(toWindow).gen \in Gens
    BY <1>20, RequestTaken DEF TakeOpen, Requests
  <2> DEFINE g == Head(toWindow).gen
             prior == {h \in Gens : host[h] \in Live \cup {"closing", "held"}}
  <2>2. /\ UNCHANGED <<registry, bridge, page, closers, tries>>
        /\ \/ /\ Fault
              /\ closed' = closed \cup {g} /\ Answer(OpenFailed(g))
              /\ UNCHANGED <<known, opening, host>>
           \/ /\ known' = known \cup {g} /\ opening' = opening \cup {g}
              /\ host' = [h \in Gens |->
                            IF h = g THEN IF prior = {} THEN "starting" ELSE "queued"
                            ELSE IF h \in prior THEN "closing" ELSE host[h]]
              /\ UNCHANGED <<closed, toMain, budget>>
    BY <1>20 DEF TakeOpen
  <2>3. g \in Gens
    BY <2>1
  <2> HIDE DEF g
  <2>4. CASE /\ Fault
             /\ closed' = closed \cup {g} /\ Answer(OpenFailed(g))
             /\ UNCHANGED <<known, opening, host>>
    <3>1. toMain' \in Seq(Acks)
      BY <2>3, <2>4, RefusalSent
    <3>2. budget' \in [calls : 0..MaxCalls, reloads : 0..MaxReloads, faults : 0..MaxFaults]
      BY <2>4, CallStep
    <3> QED
      BY <2>1, <2>2, <2>3, <2>4, <3>1, <3>2 DEF ITyped, TypeOK, registry, bridge
  <2>5. CASE /\ known' = known \cup {g} /\ opening' = opening \cup {g}
             /\ host' = [h \in Gens |->
                            IF h = g THEN IF prior = {} THEN "starting" ELSE "queued"
                            ELSE IF h \in prior THEN "closing" ELSE host[h]]
             /\ UNCHANGED <<closed, toMain, budget>>
    <3> HIDE DEF prior
    <3>1. host' \in [Gens -> {"none", "queued", "starting", "active", "closing", "held", "closed"}]
      BY <2>5 DEF ITyped, TypeOK
    <3> QED
      BY <2>1, <2>2, <2>3, <2>5, <3>1 DEF ITyped, TypeOK, registry, bridge
  <2> QED
    BY <2>2, <2>4, <2>5
<1>21. CASE TakeClose
  <2>1. toWindow' \in Seq(Requests) /\ Head(toWindow) \in Requests
    BY <1>21, RequestTaken DEF TakeClose
  <2> DEFINE r == Head(toWindow)
             g == r.gen
  <2>2. /\ UNCHANGED <<registry, bridge, page, opening, tries, budget>>
        /\ \/ /\ Answer(<<[ack |-> "unknown", gen |-> g, try |-> r.try]>>)
              /\ UNCHANGED <<known, closed, host, closers>>
           \/ /\ known' = known \ {g} /\ closed' = closed \cup {g}
              /\ Answer(<<[ack |-> "closed", gen |-> g, try |-> r.try]>>)
              /\ UNCHANGED <<host, closers>>
           \/ /\ host' = [host EXCEPT ![g] = "closing"]
              /\ closers' = closers \cup {r}
              /\ UNCHANGED <<known, closed, toMain>>
    BY <1>21 DEF TakeClose
  <2>3. r \in Requests
    BY <2>1
  <2> HIDE DEF r
  <2>4. g \in Gens /\ r.try \in Nat
    BY <2>3 DEF Requests
  <2>5. \A a \in {"unknown", "closed"} : Answer(<<[ack |-> a, gen |-> g, try |-> r.try]>>) => toMain' \in Seq(Acks)
    BY <2>4, OneSent
  <2>6. host' = host \/ host' = [host EXCEPT ![g] = "closing"]
    BY <2>2
  <2>7. host' \in [Gens -> {"none", "queued", "starting", "active", "closing", "held", "closed"}]
    BY <2>4, <2>6 DEF ITyped, TypeOK
  <2>8. IsFiniteSet(closers') /\ closers' \subseteq Requests
    <3>1. IsFiniteSet(closers \cup {r})
      BY FS_AddElement DEF ITyped
    <3> QED
      BY <1>0, <2>2, <2>3, <3>1 DEF ITyped
  <2>9. toMain' \in Seq(Acks)
    BY <2>2, <2>5 DEF ITyped, TypeOK
  <2>10. known' \in SUBSET Gens /\ closed' \in SUBSET Gens
    BY <2>2, <2>4 DEF ITyped, TypeOK
  <2> QED
    BY <2>1, <2>2, <2>7, <2>8, <2>9, <2>10 DEF ITyped, TypeOK, registry, bridge
<1>22. ASSUME NEW g \in Gens, PluginStarted(g) PROVE ITyped'
  <2>1. /\ UNCHANGED <<registry, bridge, toWindow, page, known, closed, closers, tries>>
        /\ opening' \subseteq opening
        /\ \E st \in {"active", "closing"} : host' = [host EXCEPT ![g] = st]
        /\ toMain' = toMain \/ Answer(<<[ack |-> "opened", gen |-> g, try |-> 0]>>)
        /\ budget' = budget \/ Fault
    BY <1>22 DEF PluginStarted
  <2>2. toMain' \in Seq(Acks)
    BY <2>1, OneSent DEF ITyped, TypeOK
  <2>3. budget' \in [calls : 0..MaxCalls, reloads : 0..MaxReloads, faults : 0..MaxFaults]
    BY <2>1, CallStep DEF ITyped, TypeOK
  <2>4. host' \in [Gens -> {"none", "queued", "starting", "active", "closing", "held", "closed"}]
    BY <2>1 DEF ITyped, TypeOK
  <2> QED
    BY <2>1, <2>2, <2>3, <2>4 DEF ITyped, TypeOK, registry, bridge
<1>23. ASSUME NEW g \in Gens, HostReleased(g) PROVE ITyped'
  <2>1. /\ UNCHANGED <<registry, bridge, toWindow, page, tries>>
        /\ closers' \subseteq closers /\ opening' \subseteq opening /\ known' \subseteq known
        /\ closed' \subseteq Gens /\ toMain' \in Seq(Acks)
        /\ host' \in [Gens -> {"none", "queued", "starting", "active", "closing", "held", "closed"}]
        /\ budget' = budget \/ Fault
    BY <1>23, ReleaseStep
  <2>2. IsFiniteSet(closers')
    BY <2>1, FS_Subset DEF ITyped
  <2>3. budget' \in [calls : 0..MaxCalls, reloads : 0..MaxReloads, faults : 0..MaxFaults]
    BY <2>1, CallStep DEF ITyped, TypeOK
  <2> QED
    BY <2>1, <2>2, <2>3 DEF ITyped, TypeOK, registry, bridge
<1>24. ASSUME NEW g \in Gens, Detach(g) PROVE ITyped'
  <2>1. /\ Enqueue("dispose", 0, g) /\ Call
        /\ UNCHANGED <<main, job, attempt, stored, bridge, wires, window, tries>>
    BY <1>24 DEF Detach
  <2>2. 0 \in Nat /\ "dispose" \in Kinds /\ g \in Gens \cup {None}
    BY DEF Kinds
  <2>3. queue' \in Seq(Operations)
    BY <2>1, <2>2, Enqueued
  <2>4. budget' \in [calls : 0..MaxCalls, reloads : 0..MaxReloads, faults : 0..MaxFaults]
    BY <2>1, CallStep
  <2> QED
    BY <2>1, <2>3, <2>4 DEF ITyped, TypeOK, bridge, wires, window
<1>25. CASE UNCHANGED vars
  BY <1>25 DEF ITyped, TypeOK, vars
<1> QED
  BY <1>1, <1>2, <1>3, <1>4, <1>5, <1>6, <1>7, <1>9, <1>10, <1>11, <1>12, <1>13, <1>14, <1>15,
     <1>16, <1>17, <1>18, <1>19, <1>20, <1>21, <1>22, <1>23, <1>24, <1>25 DEF Next, Drain, Timers

-----------------------------------------------------------------------------
(***************************************************************************)
(* The registry's invariant, step by step.                                 *)
(***************************************************************************)
\* At the start it owns nothing.
LEMMA RegistryInit == Init => IRegistry
  BY DEF Init, IRegistry, QueueNames, NoJob, NoAttempt, None

\* A step that leaves what is owned, and ends or goes on to write at most.
LEMMA RegistryCalm ==
  ASSUME ITyped, IRegistry, QueueNames',
         main'.gen = main.gen, main'.cleanup = main.cleanup, main'.count = main.count,
         tries' = tries, pending' \subseteq pending,
         \/ attempt' = attempt
         \/ attempt.st = "waiting" /\ \E st \in {"ok", "failed"} : attempt' = [attempt EXCEPT !.st = st],
         \/ job' = job \/ job' = NoJob
         \/ job'.at \in {"persist", "persisted"} /\ job'.kind \in {"enable", "disable", "setting"}
  PROVE  IRegistry'
<1>1. attempt \in Attempts
  BY DEF ITyped, TypeOK
<1>2. /\ attempt'.gen = attempt.gen /\ (attempt'.st = "none" <=> attempt.st = "none")
      /\ attempt'.st = "waiting" => attempt' = attempt
  BY <1>1 DEF Attempts
<1>3. /\ attempt'.gen # None => attempt'.gen = main'.cleanup
      /\ attempt'.gen = None <=> attempt'.st = "none"
      /\ attempt'.st = "waiting" => attempt'.try <= tries'
  BY <1>2 DEF IRegistry
<1>4. main'.gen = None \/ main'.cleanup = None
  BY DEF IRegistry
<1>5. main'.gen <= main'.count /\ main'.cleanup <= main'.count
  BY DEF IRegistry
<1>6. /\ job'.at \in {"cleanup", "reconcile"} => attempt'.gen # None
      /\ job'.at \in {"persist", "reconcile", "reconciled", "persisted"} =>
             job'.kind \in {"enable", "disable", "setting"}
      /\ job'.kind = "dispose" => job'.lease # None /\ job'.lease <= main'.count
      /\ job'.at \in {"cleaned", "reconciled"} => main'.gen = None /\ (job'.failed \/ main'.cleanup = None)
  <2>1. CASE job' = job
    BY <1>2, <2>1 DEF IRegistry
  <2>2. CASE job' = NoJob
    BY <2>2 DEF NoJob
  <2>3. CASE job'.at \in {"persist", "persisted"} /\ job'.kind \in {"enable", "disable", "setting"}
    BY <2>3
  <2> QED
    BY <2>1, <2>2, <2>3
<1>7. \A p \in pending' : p.act = "close" =>
           p.try <= tries' /\ (attempt'.st = "waiting" /\ p.try = attempt'.try => p.gen = attempt'.gen)
  BY <1>2 DEF IRegistry
<1> QED
  BY <1>3, <1>4, <1>5, <1>6, <1>7 DEF IRegistry

\* A step that cleans up.
LEMMA RegistryCleans ==
  ASSUME ITyped, IRegistry, QueueNames', NEW waiting,
         main'.gen = None, main'.cleanup = Owned(main), main'.count = main.count,
         \/ Owned(main) = None /\ job'.at \in {"cleaned", "reconciled"} /\ UNCHANGED <<attempt, pending, tries>>
         \/ Owned(main) # None /\ job'.at \in {"cleanup", "reconcile"} /\ Trying(Owned(main), waiting),
         job'.at \in {"reconcile", "reconciled"} => job'.kind \in {"enable", "disable", "setting"},
         job'.kind = "dispose" => job'.lease # None /\ job'.lease <= main.count,
         \A p \in waiting : p \in pending
  PROVE  IRegistry'
<1>1. Owned(main) <= main.count
  BY DEF IRegistry, Owned
<1>2. CASE Owned(main) = None /\ job'.at \in {"cleaned", "reconciled"} /\ UNCHANGED <<attempt, pending, tries>>
  <2>1. main.gen = None /\ main.cleanup = None
    BY <1>2 DEF Owned
  <2> QED
    BY <1>1, <1>2, <2>1 DEF IRegistry
<1>3. CASE Owned(main) # None /\ job'.at \in {"cleanup", "reconcile"} /\ Trying(Owned(main), waiting)
  <2>1. /\ attempt'.gen = main'.cleanup /\ attempt'.gen # None /\ attempt'.st # "none"
        /\ attempt'.st = "waiting" => attempt'.try <= tries'
        /\ \A p \in pending' : p.act = "close" =>
             p.try <= tries' /\ (attempt'.st = "waiting" /\ p.try = attempt'.try => p.gen = attempt'.gen)
    BY <1>3 DEF Trying
  <2>2. main'.gen <= main'.count
    BY DEF IRegistry
  <2>3. main'.gen <= main'.count /\ main'.cleanup <= main'.count
    <3>1. main.count \in Nat
      BY BoundsAssumption DEF ITyped, TypeOK, Record
    <3> QED
      BY <1>1, <3>1 DEF None
  <2> QED
    BY <1>3, <2>1, <2>3 DEF IRegistry
<1> QED
  BY <1>2, <1>3

\* A step that activates.
LEMMA RegistryActivates ==
  ASSUME ITyped, IRegistry, QueueNames', main.gen = None, main.cleanup = None, NEW open, open.act = "open",
         main'.gen = main.count + 1, main'.count = main.count + 1, main'.cleanup = main.cleanup,
         pending' \subseteq pending \cup {open}, UNCHANGED <<attempt, tries>>,
         \/ job' = job /\ job.at \notin {"cleaned", "reconciled"}
         \/ job'.at = "activation" /\ job'.kind = "replace"
  PROVE  IRegistry'
<1>1. main.count \in Nat
  BY BoundsAssumption DEF ITyped, TypeOK, Record
<1>2. main'.gen <= main'.count /\ main'.cleanup <= main'.count
  BY <1>1 DEF None
<1>3. attempt.gen = None /\ attempt.st = "none"
  BY DEF IRegistry
<1>4. job'.kind = "dispose" => job'.lease # None /\ job'.lease <= main'.count
  <2>1. job.kind = "dispose" => job.lease # None /\ job.lease <= main.count
    BY DEF IRegistry
  <2>2. job.lease \in Nat
    BY DEF ITyped, TypeOK, Jobs, Gens, None
  <2> QED
    BY <1>1, <2>1, <2>2
<1>5. /\ job'.at \in {"cleanup", "reconcile"} => attempt'.gen # None
      /\ job'.at \in {"persist", "reconcile", "reconciled", "persisted"} =>
             job'.kind \in {"enable", "disable", "setting"}
      /\ job'.at \notin {"cleaned", "reconciled"}
  BY DEF IRegistry
<1>6. \A p \in pending' : p.act = "close" => p.try <= tries'
  BY DEF IRegistry
<1> QED
  BY <1>2, <1>3, <1>4, <1>5, <1>6 DEF IRegistry

\* One operation more, which names its lease if it disposes of one.
LEMMA NamesEnqueued ==
  ASSUME ITyped, IRegistry, NEW kind \in Kinds, NEW epoch \in Nat, NEW lease \in Gens \cup {None},
         Enqueue(kind, epoch, lease), kind = "dispose" => lease # None
  PROVE  QueueNames'
<1> DEFINE op == [kind |-> kind, epoch |-> epoch, lease |-> lease]
<1>1. /\ queue' \in Seq(Operations) /\ Len(queue') = Len(queue) + 1
      /\ \A i \in 1..Len(queue) : queue'[i] = queue[i]
      /\ queue'[Len(queue) + 1] = op
  BY Enqueued
<1>2. op.kind = "dispose" => op.lease # None
  OBVIOUS
<1> HIDE DEF op
<1>3. Len(queue) \in Nat
  BY LenProperties DEF ITyped, TypeOK
<1>4. \A i \in 1..Len(queue') : i \in 1..Len(queue) \/ i = Len(queue) + 1
  BY <1>1, <1>3
<1> QED
  BY <1>1, <1>2, <1>4 DEF IRegistry, QueueNames

\* One operation less.
LEMMA NamesDequeued ==
  ASSUME ITyped, IRegistry, queue # <<>>, queue' = Tail(queue)
  PROVE  QueueNames' /\ (Head(queue).kind = "dispose" => Head(queue).lease # None)
  BY Dequeued DEF IRegistry, QueueNames

\* Disposals queued.
LEMMA NamesDisposed ==
  ASSUME ITyped, IRegistry, queue' = queue \o Disposals(leases)
  PROVE  QueueNames'
<1>1. /\ \A i \in 1..Len(queue) : queue'[i] = queue[i]
      /\ \A i \in 1..Len(queue') :
              \/ i \in 1..Len(queue)
              \/ queue'[i].epoch = 0 /\ queue'[i].kind = "dispose" /\ queue'[i].lease # None
  BY DisposalsQueued
<1> QED
  BY <1>1 DEF IRegistry, QueueNames

\* Every step keeps what the registry owns.
LEMMA RegistryStep == ITyped /\ IRegistry /\ [Next]_vars => IRegistry'
<1> SUFFICES ASSUME ITyped, IRegistry, [Next]_vars PROVE IRegistry'
  OBVIOUS
<1>0. /\ main \in Record /\ job \in Jobs /\ attempt \in Attempts /\ QueueNames
  BY DEF ITyped, TypeOK, IRegistry
<1>b. UNCHANGED queue => QueueNames'
  BY <1>0 DEF QueueNames
<1>c. SameOwner(main', main) \/ main' = main =>
        main'.gen = main.gen /\ main'.cleanup = main.cleanup /\ main'.count = main.count
  BY DEF SameOwner
<1>1. CASE StartJob
  <2> DEFINE op == Head(queue)
             j == [kind |-> op.kind, epoch |-> op.epoch, lease |-> op.lease, at |-> "persist", failed |-> FALSE]
  <2>1. QueueNames' /\ (op.kind = "dispose" => op.lease # None) /\ op \in Operations
    BY <1>1, NamesDequeued, Dequeued DEF StartJob, CanStart
  <2>2. \/ /\ job' = j \/ job' = [j EXCEPT !.at = "persisted"]
           /\ op.kind \in {"setting", "enable"}
           /\ UNCHANGED <<main, attempt, bridge, tries>>
        \/ /\ op.kind \in {"disable", "replace", "shutdown"}
           /\ CleanUp(main, j, "cleanup", "cleaned")
        \/ job' = NoJob /\ UNCHANGED <<main, attempt, bridge, tries>>
        \/ /\ op.kind = "dispose" /\ Owned(main) = op.lease
           /\ LET m == BeginTransition(main, "disposed", main.desired, TRUE)
              IN  CleanUp([m EXCEPT !.life = "deactivating"],
                          [j EXCEPT !.epoch = m.epoch], "cleanup", "cleaned")
    BY <1>1 DEF StartJob
  <2>3. j \in Jobs /\ j.kind = op.kind /\ j.lease = op.lease /\ j.at = "persist"
        /\ [j EXCEPT !.at = "persisted"].kind = op.kind /\ [j EXCEPT !.at = "persisted"].at = "persisted"
        /\ \A e \in Nat : [j EXCEPT !.epoch = e] \in Jobs /\ [j EXCEPT !.epoch = e].kind = op.kind
                          /\ [j EXCEPT !.epoch = e].lease = op.lease
    BY <2>1 DEF Operations, Jobs
  <2> HIDE DEF op, j
  <2>4. CASE /\ job' = j \/ job' = [j EXCEPT !.at = "persisted"]
             /\ op.kind \in {"setting", "enable"}
             /\ UNCHANGED <<main, attempt, bridge, tries>>
    <3>1. job'.at \in {"persist", "persisted"} /\ job'.kind \in {"enable", "disable", "setting"}
      BY <2>3, <2>4
    <3> QED
      BY <2>1, <2>4, <3>1, RegistryCalm DEF bridge
  <2>5. CASE op.kind \in {"disable", "replace", "shutdown"} /\ CleanUp(main, j, "cleanup", "cleaned")
    <3>1. SameOwner(main, main)
      BY DEF SameOwner
    <3>2. /\ main'.gen = None /\ main'.cleanup = Owned(main) /\ main'.count = main.count
          /\ job'.kind = j.kind
          /\ \/ Owned(main) = None /\ job'.at = "cleaned" /\ UNCHANGED <<attempt, pending, tries>>
             \/ Owned(main) # None /\ job'.at = "cleanup" /\ Trying(Owned(main), pending \ OpensOf({main.gen}))
      BY <1>0, <2>3, <2>5, <3>1, CleanStep
    <3> QED
      BY <2>1, <2>3, <2>5, <3>2, RegistryCleans
  <2>6. CASE job' = NoJob /\ UNCHANGED <<main, attempt, bridge, tries>>
    BY <2>1, <2>6, RegistryCalm DEF bridge
  <2>7. CASE /\ op.kind = "dispose" /\ Owned(main) = op.lease
             /\ LET m == BeginTransition(main, "disposed", main.desired, TRUE)
                IN  CleanUp([m EXCEPT !.life = "deactivating"],
                            [j EXCEPT !.epoch = m.epoch], "cleanup", "cleaned")
    <3>1. /\ main'.gen = None /\ main'.cleanup = Owned(main) /\ main'.count = main.count
          /\ job'.kind = op.kind /\ job'.lease = op.lease
          /\ \/ Owned(main) = None /\ job'.at = "cleaned" /\ UNCHANGED <<attempt, pending, tries>>
             \/ Owned(main) # None /\ job'.at = "cleanup" /\ Trying(Owned(main), pending \ OpensOf({main.gen}))
      BY <2>3, <2>7, DisposeStep
    <3>2. op.lease # None /\ op.lease <= main.count
      BY <2>1, <2>7 DEF IRegistry, Owned
    <3> QED
      BY <2>1, <3>1, <3>2, RegistryCleans
  <2> QED
    BY <2>2, <2>4, <2>5, <2>6, <2>7
<1>2. CASE SettleAttempt
  <2>1. attempt.gen # None /\ main.cleanup = attempt.gen /\ main.gen = None
    BY <1>2 DEF SettleAttempt, IRegistry
  <2>2. /\ main'.gen = None /\ main'.count = main.count
        /\ main'.cleanup = None \/ (attempt.st = "failed" /\ main'.cleanup = main.cleanup)
    BY <1>0, <1>2, <2>1 DEF SettleAttempt, Record
  <2>3. attempt' = NoAttempt /\ UNCHANGED <<queue, pending, tries>>
    BY <1>2 DEF SettleAttempt, bridge
  <2>4. \/ job.at = "cleanup" /\ job' = [job EXCEPT !.at = "cleaned", !.failed = attempt.st = "failed"]
        \/ job.at = "reconcile" /\ job' = [job EXCEPT !.at = "reconciled", !.failed = attempt.st = "failed"]
        \/ job.at \notin {"cleanup", "reconcile"} /\ job' = job
    BY <1>2 DEF SettleAttempt
  <2>5. /\ job'.kind = job.kind /\ job'.lease = job.lease /\ job'.at \notin {"cleanup", "reconcile"}
        /\ job'.at = "reconciled" => job.at \in {"reconcile", "reconciled"}
        /\ job'.at \in {"persist", "persisted"} => job.at = job'.at
        /\ job'.at \in {"cleaned", "reconciled"} => job'.failed = (attempt.st = "failed") \/ job' = job
    BY <1>0, <2>4 DEF Jobs
  <2>6. main'.gen <= main'.count /\ main'.cleanup <= main'.count
    BY <2>1, <2>2 DEF IRegistry
  <2>7. job'.at \in {"cleaned", "reconciled"} => main'.gen = None /\ (job'.failed \/ main'.cleanup = None)
    BY <2>2, <2>5 DEF IRegistry
  <2>8. NoAttempt.gen = None /\ NoAttempt.st = "none"
    BY DEF NoAttempt
  <2>9. \A p \in pending' : p.act = "close" => p.try <= tries'
    BY <2>3 DEF IRegistry
  <2>10. job'.kind = "dispose" => job'.lease # None /\ job'.lease <= main'.count
    BY <2>2, <2>5 DEF IRegistry
  <2>11. job'.at \in {"persist", "reconcile", "reconciled", "persisted"} =>
             job'.kind \in {"enable", "disable", "setting"}
    BY <2>5 DEF IRegistry
  <2>12. QueueNames'
    BY <1>b, <2>3
  <2> HIDE DEF IRegistry
  <2> QED
    BY <2>2, <2>3, <2>5, <2>6, <2>7, <2>8, <2>9, <2>10, <2>11, <2>12 DEF IRegistry
<1>3. CASE AfterCleanup
  <2>1. UNCHANGED <<queue, attempt, tries>> /\ QueueNames' /\ job.at = "cleaned" /\ main.gen = None
    BY <1>b, <1>3 DEF AfterCleanup, IRegistry
  <2>2. {"failed", "idle", "disabled", main.life} \subseteq Lives /\ main.desired \in BOOLEAN
    BY <1>0 DEF Lives, Record
  <2>3. [job EXCEPT !.at = "persist"].at = "persist" /\ [job EXCEPT !.at = "persisted"].at = "persisted"
        /\ [job EXCEPT !.at = "persist"].kind = job.kind /\ [job EXCEPT !.at = "persisted"].kind = job.kind
        /\ [job EXCEPT !.at = "activation"].kind = job.kind /\ [job EXCEPT !.at = "activation"].at = "activation"
    BY <1>0 DEF Jobs
  <2>4. CASE job.kind = "disable"
    <3>1. UNCHANGED <<main, bridge>> /\ job'.at \in {"persist", "persisted"} /\ job'.kind = "disable"
      BY <1>3, <2>3, <2>4 DEF AfterCleanup
    <3> QED
      BY <2>1, <3>1, RegistryCalm DEF bridge
  <2>5. ASSUME NEW life \in Lives, NEW m, m = Finish(main, job.epoch, life), UNCHANGED bridge, job' = NoJob,
               main'.gen = m.gen, main'.cleanup = m.cleanup, main'.count = m.count
        PROVE  IRegistry'
    <3>1. SameOwner(m, main)
      BY <1>0, <2>5, Finished
    <3>2. main'.gen = main.gen /\ main'.cleanup = main.cleanup /\ main'.count = main.count
      BY <2>5, <3>1 DEF SameOwner
    <3> QED
      BY <2>1, <2>5, <3>2, RegistryCalm DEF bridge
  <2>6. CASE job.kind = "dispose"
    <3> DEFINE m == Finish(main, job.epoch, "failed")
    <3>1. m \in Record
      BY <1>0, <2>2, Finished
    <3>2. job' = NoJob /\ UNCHANGED bridge
          /\ main' = IF job.failed THEN m ELSE [m EXCEPT !.disposed = @ \cup {job.lease}]
      BY <1>3, <2>6 DEF AfterCleanup
    <3> HIDE DEF m
    <3>3. main'.gen = m.gen /\ main'.cleanup = m.cleanup /\ main'.count = m.count
      BY <3>1, <3>2 DEF Record
    <3> QED
      BY <2>2, <2>5, <3>2, <3>3 DEF m
  <2>7. CASE job.kind = "shutdown"
    <3> DEFINE l == IF job.failed THEN "failed" ELSE IF main.desired THEN "idle" ELSE "disabled"
    <3>1. main' = Finish(main, job.epoch, l) /\ job' = NoJob /\ UNCHANGED bridge
      BY <1>3, <2>7 DEF AfterCleanup
    <3>2. l \in Lives
      BY <2>2
    <3> HIDE DEF l
    <3> QED
      BY <2>5, <3>1, <3>2
  <2>8. CASE job.kind = "replace" /\ (job.failed \/ main.epoch # job.epoch)
    <3>1. main' = Finish(main, job.epoch, "failed") /\ job' = NoJob /\ UNCHANGED bridge
      BY <1>3, <2>8 DEF AfterCleanup
    <3> QED
      BY <2>2, <2>5, <3>1
  <2>9. CASE job.kind = "replace" /\ ~(job.failed \/ main.epoch # job.epoch)
    <3> DEFINE m == Finish(main, job.epoch, main.life)
    <3>1. m \in Record /\ SameOwner(m, main)
      BY <1>0, <2>2, Finished
    <3>2. \/ Activate(m) /\ job' = [job EXCEPT !.at = "activation"]
          \/ /\ main' = IF m.desired THEN m ELSE [m EXCEPT !.life = "disabled"]
             /\ job' = NoJob
             /\ UNCHANGED bridge
      BY <1>3, <2>9 DEF AfterCleanup
    <3> HIDE DEF m
    <3>3. CASE Activate(m) /\ job' = [job EXCEPT !.at = "activation"]
      <4>1. main.cleanup = None
        BY <2>1, <2>9 DEF IRegistry
      <4>2. PICK open : /\ open.act = "open" /\ pending' \subseteq pending \cup {open}
                        /\ main'.gen = main.count + 1 /\ main'.count = main.count + 1
                        /\ main'.cleanup = main.cleanup
        BY <3>1, <3>3, ActivateStep
      <4>3. job'.at = "activation" /\ job'.kind = "replace"
        BY <2>3, <2>9, <3>3
      <4> QED
        BY <2>1, <4>1, <4>2, <4>3, RegistryActivates
    <3>4. CASE /\ main' = IF m.desired THEN m ELSE [m EXCEPT !.life = "disabled"]
               /\ job' = NoJob
               /\ UNCHANGED bridge
      <4>1. main'.gen = m.gen /\ main'.cleanup = m.cleanup /\ main'.count = m.count
        BY <3>1, <3>4 DEF Record
      <4> QED
        BY <2>2, <2>5, <3>4, <4>1 DEF m
    <3> QED
      BY <3>2, <3>3, <3>4
  <2> QED
    BY <1>3, <2>4, <2>6, <2>7, <2>8, <2>9 DEF AfterCleanup
<1>4. CASE AfterReconcile
  <2> DEFINE l == IF job.failed THEN "failed" ELSE "disabled"
             m == [main EXCEPT !.phase = "stable", !.intent = FALSE, !.life = l]
  <2>1. m \in Record /\ SameOwner(m, main)
    <3>1. l \in Lives
      BY DEF Lives
    <3> HIDE DEF l
    <3> QED
      BY <1>0, <3>1 DEF Record, Phases, SameOwner
  <2>2. job.kind \in {"enable", "disable", "setting"}
    BY <1>4 DEF IRegistry, AfterReconcile
  <2>3. SameOwner(PersistThrows(m), m)
    BY <2>1, <2>2, ThrownStep
  <2>4. /\ \/ main' = m /\ job' = [job EXCEPT !.at = "persisted"]
           \/ main' = PersistThrows(m) /\ job' = NoJob
        /\ UNCHANGED <<queue, attempt, bridge, tries>>
    BY <1>4 DEF AfterReconcile
  <2> HIDE DEF m
  <2>5. main'.gen = main.gen /\ main'.cleanup = main.cleanup /\ main'.count = main.count
    BY <2>1, <2>3, <2>4 DEF SameOwner
  <2>6. job' = NoJob \/ (job'.at = "persisted" /\ job'.kind = job.kind)
    BY <1>0, <2>4 DEF Jobs
  <2> QED
    BY <1>b, <2>2, <2>4, <2>5, <2>6, RegistryCalm DEF bridge
<1>5. CASE AfterPersist
  <2>1. SameOwner(main', main)
    <3>1. job.kind \in {"enable", "disable", "setting"}
      BY <1>5 DEF IRegistry, AfterPersist
    <3>2. \/ main' = main
          \/ \E l \in Lives : main' = Finish(main, job.epoch, l)
      BY <1>0, <1>5, <3>1 DEF AfterPersist, Record, Lives
    <3>3. SameOwner(main, main)
      BY DEF SameOwner
    <3> QED
      BY <1>0, <3>2, <3>3, Finished
  <2>2. job' = NoJob /\ UNCHANGED <<queue, attempt, bridge, tries>>
    BY <1>5 DEF AfterPersist
  <2> QED
    BY <1>b, <1>c, <2>1, <2>2, RegistryCalm DEF bridge
<1>6. ASSUME NEW g \in Gens, ForgetOpen(g) PROVE IRegistry'
  <2>1. /\ UNCHANGED queue
        /\ job' = job \/ job' = NoJob
        /\ \/ /\ main' = Disown(main) /\ CanPublish(main, g)
              /\ \E known_ : TryCleanup(g, known_, pending, TRUE)
           \/ UNCHANGED <<main, attempt, pending, tries>>
    BY <1>6 DEF ForgetOpen
  <2>2. CASE /\ main' = Disown(main) /\ CanPublish(main, g)
             /\ \E known_ : TryCleanup(g, known_, pending, TRUE)
    <3>1. main.gen = g /\ g # None /\ main.cleanup = None /\ Owned(main) = g
      BY <2>2 DEF CanPublish, ActivationAllowed, Gens, None, Owned
    <3>2. main'.gen = None /\ main'.cleanup = g /\ main'.count = main.count
      BY <1>0, <2>2, <3>1, Disowned
    <3>3. attempt.gen = None /\ attempt.st = "none" /\ TRUE \in BOOLEAN
      BY <3>1 DEF IRegistry
    <3>4. Trying(g, pending)
      BY <2>2, <3>3, TryStep
    <3>5. /\ attempt'.gen = main'.cleanup /\ attempt'.gen # None /\ attempt'.st # "none"
          /\ attempt'.st = "waiting" => attempt'.try <= tries'
          /\ \A p \in pending' : p.act = "close" =>
               p.try <= tries' /\ (attempt'.st = "waiting" /\ p.try = attempt'.try => p.gen = attempt'.gen)
      BY <3>1, <3>2, <3>4 DEF Trying
    <3>6. main'.gen <= main'.count /\ main'.cleanup <= main'.count
      <4>1. main.count \in Nat /\ main.gen <= main.count
        BY <1>0, BoundsAssumption DEF Record, IRegistry
      <4> QED
        BY <3>1, <3>2, <4>1 DEF None
    <3>7. /\ job'.at \notin {"cleaned", "reconciled"}
          /\ job'.at \in {"persist", "reconcile", "reconciled", "persisted"} =>
                job'.kind \in {"enable", "disable", "setting"}
          /\ job'.kind = "dispose" => job'.lease # None /\ job'.lease <= main'.count
      BY <2>1, <3>1, <3>2 DEF IRegistry, NoJob
    <3>8. QueueNames'
      BY <1>b, <2>1
    <3> QED
      BY <3>2, <3>5, <3>6, <3>7, <3>8 DEF IRegistry
  <2>3. CASE UNCHANGED <<main, attempt, pending, tries>>
    BY <1>b, <2>1, <2>3, RegistryCalm
  <2> QED
    BY <2>1, <2>2, <2>3
<1>7. CASE Enable
  <2> DEFINE m == IF main.desired /\ main.phase = "stable" THEN main
                  ELSE BeginTransition(main, "enabling", TRUE, FALSE)
  <2>1. m \in Record /\ SameOwner(m, main)
    <3>1. "enabling" \in Phases /\ TRUE \in BOOLEAN /\ FALSE \in BOOLEAN
      BY DEF Phases
    <3>2. BeginTransition(main, "enabling", TRUE, FALSE) \in Record
          /\ SameOwner(BeginTransition(main, "enabling", TRUE, FALSE), main)
      BY <1>0, <3>1, Begun
    <3>3. SameOwner(main, main)
      BY DEF SameOwner
    <3> QED
      BY <1>0, <3>2, <3>3
  <2>2. main' = m /\ Enqueue("enable", m.epoch, None) /\ UNCHANGED <<job, attempt, bridge, tries>>
    BY <1>7 DEF Enable
  <2> HIDE DEF m
  <2>3. m.epoch \in Nat /\ "enable" \in Kinds /\ None \in Gens \cup {None}
    BY <2>1 DEF Record, Kinds
  <2>4. QueueNames'
    BY <2>2, <2>3, NamesEnqueued
  <2> QED
    BY <1>c, <2>1, <2>2, <2>4, RegistryCalm DEF bridge
<1>8. ASSUME NEW kind \in Kinds \ {"dispose"}, NEW phase \in Phases, NEW intent \in BOOLEAN, NEW life \in Lives,
             FencedCall(kind, phase, intent, life)
      PROVE  IRegistry'
  <2>1. /\ SameOwner(main', main) /\ main'.epoch \in Nat /\ Enqueue(kind, main'.epoch, None)
        /\ pending' \subseteq pending /\ UNCHANGED <<job, attempt, tries>>
    BY <1>8, FencedStep
  <2>2. QueueNames'
    BY <2>1, NamesEnqueued
  <2> QED
    BY <1>c, <2>1, <2>2, RegistryCalm
<1>9. CASE Disable
  <2>1. FALSE \in BOOLEAN /\ "disable" \in Kinds \ {"dispose"} /\ "disabling" \in Phases /\ "deactivating" \in Lives
    BY DEF Kinds, Phases, Lives
  <2> QED
    BY <1>8, <1>9, <2>1 DEF Disable
<1>10. CASE Replace
  <2>1. TRUE \in BOOLEAN /\ "replace" \in Kinds \ {"dispose"} /\ "replacing" \in Phases /\ "deactivating" \in Lives
    BY DEF Kinds, Phases, Lives
  <2> QED
    BY <1>8, <1>10, <2>1 DEF Replace
<1>11. CASE Shutdown
  <2> DEFINE life == IF Owned(main) = None THEN main.life ELSE "deactivating"
  <2>1. main.desired \in BOOLEAN /\ "shutdown" \in Kinds \ {"dispose"} /\ "shutting-down" \in Phases /\ life \in Lives
    BY <1>0 DEF Kinds, Phases, Lives, Record
  <2>2. FencedCall("shutdown", "shutting-down", main.desired, life)
    BY <1>11 DEF Shutdown
  <2> HIDE DEF life
  <2> QED
    BY <1>8, <2>1, <2>2
<1>12. CASE SetSetting
  <2>1. Enqueue("setting", 0, None) /\ UNCHANGED <<main, job, attempt, bridge, tries>>
    BY <1>12 DEF SetSetting
  <2>2. 0 \in Nat /\ "setting" \in Kinds /\ None \in Gens \cup {None}
    BY DEF Kinds
  <2>3. QueueNames'
    BY <2>1, <2>2, NamesEnqueued
  <2> QED
    BY <2>1, <2>3, RegistryCalm DEF bridge
<1>13. CASE Trigger
  <2>1. Activate(main) /\ UNCHANGED <<queue, job, attempt, tries>> /\ main.gen = None /\ main.cleanup = None
        /\ job.at \notin {"cleaned", "reconciled"}
    BY <1>13 DEF Trigger, ActivationAllowed, Busy
  <2>2. SameOwner(main, main)
    BY DEF SameOwner
  <2>3. PICK open : /\ open.act = "open" /\ pending' \subseteq pending \cup {open}
                    /\ main'.gen = main.count + 1 /\ main'.count = main.count + 1
                    /\ main'.cleanup = main.cleanup
    BY <1>0, <2>1, <2>2, ActivateStep
  <2> QED
    BY <1>b, <2>1, <2>3, RegistryActivates
<1>14. CASE DiskAnswers
  <2>1. job.at = "persist" /\ job.kind \in {"enable", "disable", "setting"} /\ UNCHANGED queue
    BY <1>14 DEF DiskAnswers, IRegistry
  <2>2. QueueNames'
    BY <1>b, <2>1
  <2>3. CASE main' = PersistThrows(main) /\ job' = NoJob /\ UNCHANGED <<attempt, bridge, tries>>
    <3>1. SameOwner(main', main)
      BY <1>0, <2>1, <2>3, ThrownStep
    <3> QED
      BY <1>c, <2>2, <2>3, <3>1, RegistryCalm DEF bridge
  <2>4. ASSUME NEW switch \in BOOLEAN, Written(switch)
        PROVE  IRegistry'
    <3>1. CASE WrittenOff(switch)
      <4>1. /\ main'.gen = None /\ main'.cleanup = Owned(main) /\ main'.count = main.count
            /\ job'.kind = job.kind
            /\ \/ Owned(main) = None /\ job'.at = "reconciled" /\ UNCHANGED <<attempt, pending, tries>>
               \/ /\ Owned(main) # None /\ job'.at = "reconcile"
                  /\ Trying(Owned(main), pending \ OpensOf({main.gen}))
        BY <2>4, <3>1, WrittenOffStep
      <4> QED
        BY <2>1, <2>2, <4>1, RegistryCleans
    <3>2. CASE WrittenOn(switch)
      <4>1. SameOwner(main', main) /\ job' = [job EXCEPT !.at = "persisted"] /\ UNCHANGED <<attempt, bridge, tries>>
        BY <2>4, <3>2, WrittenOnStep
      <4>2. job'.at = "persisted" /\ job'.kind = job.kind
        BY <1>0, <4>1 DEF Jobs
      <4> QED
        BY <1>c, <2>1, <2>2, <4>1, <4>2, RegistryCalm DEF bridge
    <3> QED
      BY <2>4, <3>1, <3>2 DEF Written
  <2>5. \/ main' = PersistThrows(main) /\ job' = NoJob /\ UNCHANGED <<attempt, bridge, tries>>
        \/ \E switch \in BOOLEAN : Written(switch)
    BY <1>14, DiskStep
  <2> QED
    BY <2>3, <2>4, <2>5
<1>15. CASE AckArrives
  <2>1. /\ UNCHANGED <<queue, tries>> /\ pending' \subseteq pending
        /\ \/ attempt' = attempt
           \/ attempt.st = "waiting" /\ \E st \in {"ok", "failed"} : attempt' = [attempt EXCEPT !.st = st]
        /\ main' = main \/ main' = [main EXCEPT !.life = "active"]
        /\ job' = job \/ job' = NoJob
    BY <1>15 DEF AckArrives
  <2>2. main'.gen = main.gen /\ main'.cleanup = main.cleanup /\ main'.count = main.count
    BY <1>0, <2>1 DEF Record
  <2> QED
    BY <1>b, <2>1, <2>2, RegistryCalm
<1>16. CASE CleanupTimesOut
  <2>1. /\ attempt.st = "waiting" /\ attempt' = [attempt EXCEPT !.st = "failed"]
        /\ UNCHANGED <<main, queue, job, bridge, tries>>
    BY <1>16 DEF CleanupTimesOut
  <2> QED
    BY <1>b, <2>1, RegistryCalm DEF bridge
<1>17. CASE RequestTimesOut
  <2>1. pending' \subseteq pending /\ UNCHANGED <<main, queue, job, attempt, tries>>
    BY <1>17 DEF RequestTimesOut, registry
  <2> QED
    BY <1>b, <2>1, RegistryCalm
<1>18. CASE Navigate
  <2>1. /\ pending' = {} /\ UNCHANGED <<main, job, tries>>
        /\ \/ attempt' = attempt
           \/ attempt.st = "waiting" /\ attempt' = [attempt EXCEPT !.st = "failed"]
    BY <1>18 DEF Navigate
  <2>2. QueueNames'
    BY <1>18, NamesDisposed DEF Navigate
  <2> QED
    BY <2>1, <2>2, RegistryCalm
<1>19. CASE PageReady
  <2>1. QueueNames'
    BY <1>19, NamesDisposed DEF PageReady
  <2> QED
    BY <1>19, <2>1, RegistryCalm DEF PageReady
<1>20. ASSUME UNCHANGED <<registry, bridge, tries>> PROVE IRegistry'
  BY <1>b, <1>20, RegistryCalm DEF registry, bridge
<1>21. CASE TakeOpen
  BY <1>20, <1>21 DEF TakeOpen
<1>22. CASE TakeClose
  BY <1>20, <1>22 DEF TakeClose
<1>23. ASSUME NEW g \in Gens, PluginStarted(g) PROVE IRegistry'
  BY <1>20, <1>23 DEF PluginStarted
<1>24. ASSUME NEW g \in Gens, HostReleased(g) PROVE IRegistry'
  BY <1>20, <1>24 DEF HostReleased
<1>25. ASSUME NEW g \in Gens, Detach(g) PROVE IRegistry'
  <2>1. Enqueue("dispose", 0, g) /\ UNCHANGED <<main, job, attempt, bridge, tries>>
    BY <1>25 DEF Detach
  <2>2. 0 \in Nat /\ "dispose" \in Kinds /\ g \in Gens \cup {None} /\ g # None
    BY DEF Kinds, Gens, None
  <2>3. QueueNames'
    BY <2>1, <2>2, NamesEnqueued
  <2> QED
    BY <2>1, <2>3, RegistryCalm DEF bridge
<1>26. CASE UNCHANGED vars
  BY <1>20, <1>26 DEF vars, registry, bridge
<1> QED
  BY <1>1, <1>2, <1>3, <1>4, <1>5, <1>6, <1>7, <1>9, <1>10, <1>11, <1>12, <1>13, <1>14, <1>15, <1>16,
     <1>17, <1>18, <1>19, <1>21, <1>22, <1>23, <1>24, <1>25, <1>26 DEF Next, Drain, Timers

-----------------------------------------------------------------------------
(***************************************************************************)
(* The window: what has ended there, and what the registry may forget.     *)
(***************************************************************************)
\* A lease has ended in the window when nothing of it runs or is held there and
\* no open of it is on its way.
OpenIn(wire, g) == \E i \in 1..Len(wire) : wire[i].act = "open" /\ wire[i].gen = g
EndedIn(hosted, wire, g) == hosted[g] \in {"none", "closed"} /\ ~OpenIn(wire, g)

\* Every lease but the owned one has ended; a cleanup succeeds, and a close is
\* answered, only of a lease that has ended; an open is sent once, of a lease
\* that is new to the page; so the host never has two leases, and no open waits.
IWindow ==
    /\ gone = ~page
    /\ ~page => toWindow = <<>> /\ toMain = <<>> /\ \A g \in Gens : host[g] = "none"
    /\ \A g \in Gens : host[g] # "queued"
    /\ \A g \in Gens : g # Owned(main) => EndedIn(host, toWindow, g)
    /\ attempt.st = "ok" => EndedIn(host, toWindow, attempt.gen)
    /\ \A i \in 1..Len(toMain) :
           toMain[i].ack = "closed" => EndedIn(host, toWindow, toMain[i].gen) /\ toMain[i].gen <= main.count
    /\ \A i \in 1..Len(toWindow) : toWindow[i].act = "open" =>
           host[toWindow[i].gen] = "none" /\ toWindow[i].gen \notin known \cup closed
    /\ \A i, j \in 1..Len(toWindow) :
           toWindow[i].act = "open" /\ toWindow[j].act = "open" /\ toWindow[i].gen = toWindow[j].gen => i = j
    /\ \A g \in Gens : g > main.count => host[g] = "none" /\ g \notin known \cup closed /\ ~OpenIn(toWindow, g)

\* At the start there is no page.
LEMMA WindowInit == Init => IWindow
<1>1. \A i \in 1..Len(<<>>) : FALSE
  BY EmptySeq
<1> SUFFICES ASSUME Init PROVE IWindow
  OBVIOUS
<1>2. \A g \in Gens : host[g] = "none"
  BY DEF Init
<1>3. gone = TRUE /\ page = FALSE /\ toWindow = <<>> /\ toMain = <<>> /\ known = {} /\ closed = {} /\ attempt.st # "ok"
  BY DEF Init, NoAttempt
<1>4. \A g : ~OpenIn(toWindow, g)
  BY <1>1, <1>3 DEF OpenIn
<1>5. \A g \in Gens : EndedIn(host, toWindow, g)
  BY <1>2, <1>4 DEF EndedIn
<1> QED
  BY <1>1, <1>2, <1>3, <1>4, <1>5 DEF IWindow

\* With no page nothing has not ended.
LEMMA NoPage ==
  ASSUME IWindow, gone
  PROVE  toWindow = <<>> /\ \A g \in Gens : EndedIn(host, toWindow, g)
<1>1. \A i \in 1..Len(<<>>) : FALSE
  BY EmptySeq
<1> QED
  BY <1>1 DEF IWindow, EndedIn, OpenIn

\* One request more on the wire.
LEMMA SentOne ==
  ASSUME ITyped, NEW r \in Requests, toWindow' = Append(toWindow, r)
  PROVE  /\ \A i \in 1..Len(toWindow') : \/ i \in 1..Len(toWindow) /\ toWindow'[i] = toWindow[i]
                                         \/ i = Len(toWindow) + 1 /\ toWindow'[i] = r
         /\ \A g : OpenIn(toWindow', g) <=> OpenIn(toWindow, g) \/ (r.act = "open" /\ r.gen = g)
<1>1. /\ Len(toWindow') = Len(toWindow) + 1 /\ toWindow'[Len(toWindow) + 1] = r
      /\ \A i \in 1..Len(toWindow) : toWindow'[i] = toWindow[i]
  BY Requested
<1>2. Len(toWindow) \in Nat
  BY LenProperties DEF ITyped, TypeOK
<1>3. \A i \in 1..Len(toWindow') : \/ i \in 1..Len(toWindow) /\ toWindow'[i] = toWindow[i]
                                   \/ i = Len(toWindow) + 1 /\ toWindow'[i] = r
  BY <1>1, <1>2
<1>4. Len(toWindow) + 1 \in 1..Len(toWindow') /\ \A i \in 1..Len(toWindow) : i \in 1..Len(toWindow')
  BY <1>1, <1>2
<1>5. \A g : OpenIn(toWindow', g) => OpenIn(toWindow, g) \/ (r.act = "open" /\ r.gen = g)
  BY <1>3 DEF OpenIn
<1>6. \A g : OpenIn(toWindow, g) => OpenIn(toWindow', g)
  BY <1>1, <1>4 DEF OpenIn
<1>7. \A g : r.act = "open" /\ r.gen = g => OpenIn(toWindow', g)
  BY <1>1, <1>4 DEF OpenIn
<1> QED
  BY <1>3, <1>5, <1>6, <1>7

\* A step of the main process that sends no open: what it lets go has ended.
LEMMA WindowCalm ==
  ASSUME ITyped, IWindow, UNCHANGED <<gone, page, known, closed, host>>,
         main'.count = main.count, \A g \in Gens : g # Owned(main') => EndedIn(host, toWindow, g),
         attempt'.gen \in Gens \cup {None},
         attempt'.st = "ok" => attempt'.gen \in Gens /\ EndedIn(host, toWindow, attempt'.gen),
         \A i \in 1..Len(toMain') : \E j \in 1..Len(toMain) : toMain'[i] = toMain[j],
         toMain = <<>> => toMain' = <<>>,
         \/ toWindow' = toWindow
         \/ ~gone /\ \E r \in Requests : r.act = "close" /\ toWindow' = Append(toWindow, r)
  PROVE  IWindow'
<1>1. \A g : OpenIn(toWindow', g) <=> OpenIn(toWindow, g)
  <2>1. CASE toWindow' = toWindow
    BY <2>1 DEF OpenIn
  <2>2. CASE \E r \in Requests : r.act = "close" /\ toWindow' = Append(toWindow, r)
    BY <2>2, SentOne
  <2> QED
    BY <2>1, <2>2
<1>2. \A i \in 1..Len(toWindow') : toWindow'[i].act = "open" => i \in 1..Len(toWindow) /\ toWindow'[i] = toWindow[i]
  <2>1. CASE toWindow' = toWindow
    BY <2>1
  <2>2. CASE \E r \in Requests : r.act = "close" /\ toWindow' = Append(toWindow, r)
    BY <2>2, SentOne
  <2> QED
    BY <2>1, <2>2
<1>3. \A g : EndedIn(host', toWindow', g) <=> EndedIn(host, toWindow, g)
  BY <1>1 DEF EndedIn
<1>4. gone' = ~page' /\ (\A g \in Gens : host'[g] # "queued")
      /\ (~page' => toWindow' = <<>> /\ toMain' = <<>> /\ \A g \in Gens : host'[g] = "none")
  BY DEF IWindow
<1>5. \A g \in Gens : g # Owned(main') => EndedIn(host', toWindow', g)
  BY <1>3
<1>6. attempt'.st = "ok" => EndedIn(host', toWindow', attempt'.gen)
  BY <1>1 DEF EndedIn, OpenIn
<1>7. \A i \in 1..Len(toMain') :
           toMain'[i].ack = "closed" => EndedIn(host', toWindow', toMain'[i].gen) /\ toMain'[i].gen <= main'.count
  <2>1. \A i \in 1..Len(toMain) : toMain[i].ack = "closed" => EndedIn(host, toWindow, toMain[i].gen) /\ toMain[i].gen <= main.count
    BY DEF IWindow
  <2> SUFFICES ASSUME NEW i \in 1..Len(toMain'), toMain'[i].ack = "closed"
              PROVE  EndedIn(host', toWindow', toMain'[i].gen) /\ toMain'[i].gen <= main'.count
    OBVIOUS
  <2>2. PICK j \in 1..Len(toMain) : toMain'[i] = toMain[j]
    OBVIOUS
  <2>3. EndedIn(host, toWindow, toMain[j].gen) /\ toMain[j].gen <= main.count
    BY <2>1, <2>2
  <2>4. EndedIn(host, toWindow, toMain'[i].gen) /\ toMain'[i].gen <= main.count
    BY <2>2, <2>3
  <2> QED
    BY <1>3, <2>4
<1>8. \A i \in 1..Len(toWindow') : toWindow'[i].act = "open" =>
           host'[toWindow'[i].gen] = "none" /\ toWindow'[i].gen \notin known' \cup closed'
  BY <1>2 DEF IWindow
<1>9. \A i, j \in 1..Len(toWindow') :
           toWindow'[i].act = "open" /\ toWindow'[j].act = "open" /\ toWindow'[i].gen = toWindow'[j].gen => i = j
  BY <1>2 DEF IWindow
<1>10. \A g \in Gens : g > main'.count => host'[g] = "none" /\ g \notin known' \cup closed' /\ ~OpenIn(toWindow', g)
  BY <1>1 DEF IWindow
<1> QED
  BY <1>4, <1>5, <1>6, <1>7, <1>8, <1>9, <1>10 DEF IWindow

\* A cleanup tried, of what is owned.
LEMMA WindowTries ==
  ASSUME ITyped, IWindow, UNCHANGED <<gone, page, known, closed, host, toMain>>, NEW waiting,
         main'.count = main.count, Owned(main') = Owned(main), Owned(main) \in Gens, Trying(Owned(main), waiting)
  PROVE  IWindow'
<1>1. \A g \in Gens : g # Owned(main') => EndedIn(host, toWindow, g)
  BY DEF IWindow
<1>2. attempt'.gen = Owned(main) /\ (attempt'.st = "ok" => EndedIn(host, toWindow, attempt'.gen))
  <2>1. attempt'.gen = Owned(main) /\ (attempt'.st = "ok" => gone \/ attempt' = attempt)
    BY DEF Trying
  <2>2. CASE gone
    BY <2>1, <2>2, NoPage
  <2>3. CASE attempt' = attempt
    BY <2>1, <2>3 DEF IWindow
  <2> QED
    BY <2>1, <2>2, <2>3
<1>3. \/ toWindow' = toWindow
      \/ ~gone /\ \E r \in Requests : r.act = "close" /\ toWindow' = Append(toWindow, r)
  BY DEF Trying
<1> QED
  BY <1>1, <1>2, <1>3, WindowCalm

\* A generation activated is new to the page, and the first there.
LEMMA WindowActivates ==
  ASSUME ITyped, IRegistry, IWindow, UNCHANGED <<gone, page, known, closed, host, toMain, attempt>>,
         Owned(main) = None, main'.count = main.count + 1, main'.count \in Gens, Owned(main') = main'.count,
         NEW open \in Requests, open.act = "open", open.gen = main'.count,
         \/ gone /\ toWindow' = toWindow
         \/ ~gone /\ toWindow' = Append(toWindow, open)
  PROVE  IWindow'
<1> DEFINE g == main'.count
<1>1. main.count \in Nat /\ g \in Gens /\ g > main.count /\ g \in Nat
  <2>1. main.count \in Nat
    BY BoundsAssumption DEF ITyped, TypeOK, Record
  <2>2. Gens \subseteq Nat
    BY DEF Gens
  <2> QED
    BY <2>1, <2>2
<1>2. host[g] = "none" /\ g \notin known \cup closed /\ ~OpenIn(toWindow, g)
  BY <1>1 DEF IWindow
<1>3. attempt.st = "none"
  BY DEF IRegistry, Owned, None
<1>4. \A h \in Gens : EndedIn(host, toWindow, h)
  BY DEF IWindow, Gens, None
<1>5. \A h : OpenIn(toWindow', h) => OpenIn(toWindow, h) \/ h = g
  <2>1. CASE toWindow' = toWindow
    BY <2>1 DEF OpenIn
  <2>2. CASE toWindow' = Append(toWindow, open)
    BY <2>2, SentOne
  <2> QED
    BY <2>1, <2>2
<1>6. \A i \in 1..Len(toWindow') : \/ i \in 1..Len(toWindow) /\ toWindow'[i] = toWindow[i]
                                   \/ i = Len(toWindow) + 1 /\ toWindow'[i] = open
  <2>1. CASE toWindow' = toWindow
    BY <2>1
  <2>2. CASE toWindow' = Append(toWindow, open)
    BY <2>2, SentOne
  <2> QED
    BY <2>1, <2>2
<1> HIDE DEF g
<1>7. \A h \in Gens : h # g => EndedIn(host', toWindow', h)
  BY <1>4, <1>5 DEF EndedIn
<1>8. gone' = ~page' /\ (\A h \in Gens : host'[h] # "queued")
      /\ (~page' => toWindow' = <<>> /\ toMain' = <<>> /\ \A h \in Gens : host'[h] = "none")
  BY DEF IWindow
<1>9. \A i \in 1..Len(toMain') :
           toMain'[i].ack = "closed" => EndedIn(host', toWindow', toMain'[i].gen) /\ toMain'[i].gen <= main'.count
  <2> SUFFICES ASSUME NEW i \in 1..Len(toMain'), toMain'[i].ack = "closed"
              PROVE  EndedIn(host', toWindow', toMain'[i].gen) /\ toMain'[i].gen <= main'.count
    OBVIOUS
  <2>1. toMain'[i] = toMain[i] /\ i \in 1..Len(toMain) /\ toMain[i].gen <= main.count
    BY DEF IWindow
  <2>2. toMain[i].gen \in Gens /\ toMain[i].gen \in Nat
    <3>1. toMain[i] \in Acks
      BY <2>1, ElementOfSeq DEF ITyped, TypeOK
    <3> QED
      BY <3>1 DEF Acks, Gens
  <2>3. toMain[i].gen # g /\ toMain[i].gen <= main'.count
    BY <1>1, <2>1, <2>2 DEF g
  <2>4. EndedIn(host', toWindow', toMain[i].gen)
    BY <1>4, <1>5, <2>1, <2>2, <2>3 DEF EndedIn, OpenIn
  <2> QED
    BY <2>1, <2>3, <2>4
<1>10. \A i \in 1..Len(toWindow') : toWindow'[i].act = "open" =>
           host'[toWindow'[i].gen] = "none" /\ toWindow'[i].gen \notin known' \cup closed'
  BY <1>2, <1>6 DEF IWindow, g
<1>11. \A i \in 1..Len(toWindow) : toWindow[i].act = "open" => toWindow[i].gen # g
  BY <1>2 DEF OpenIn
<1>12. \A i, j \in 1..Len(toWindow') :
           toWindow'[i].act = "open" /\ toWindow'[j].act = "open" /\ toWindow'[i].gen = toWindow'[j].gen => i = j
  BY <1>6, <1>11 DEF IWindow, g
<1>13. \A h \in Gens : h > main'.count => host'[h] = "none" /\ h \notin known' \cup closed' /\ ~OpenIn(toWindow', h)
  <2>1. \A h \in Gens : h > main'.count => h > main.count /\ h # g
    BY <1>1 DEF Gens, g
  <2> QED
    BY <1>5, <2>1 DEF IWindow
<1>14. attempt'.st # "ok"
  BY <1>3
<1> QED
  BY <1>7, <1>8, <1>9, <1>10, <1>12, <1>13, <1>14 DEF IWindow, g

\* A step of the window moves one lease, which had not ended, or takes a
\* request that changes none.
LEMMA WindowMoves ==
  ASSUME ITyped, IRegistry, IWindow, UNCHANGED <<main, attempt, gone, page>>, page, NEW g \in Gens,
         \/ toWindow' = toWindow
         \/ toWindow # <<>> /\ toWindow' = Tail(toWindow),
         ~EndedIn(host, toWindow, g) \/ host' = host, \A h \in Gens \ {g} : host'[h] = host[h], host'[g] # "queued",
         known' \cup closed' \subseteq known \cup closed \cup {g},
         \A i \in 1..Len(toMain') :
            \/ i \in 1..Len(toMain) /\ toMain'[i] = toMain[i]
            \/ toMain'[i].ack # "closed"
            \/ toMain'[i].gen = g /\ g <= main.count /\ host'[g] \in {"none", "closed"} /\ ~OpenIn(toWindow', g),
         \/ UNCHANGED <<host, known, closed>>
         \/ g <= main.count /\ ~OpenIn(toWindow', g)
  PROVE  IWindow'
<1>1. \/ toWindow' = toWindow
      \/ \A i \in 1..Len(toWindow') : i + 1 \in 1..Len(toWindow) /\ toWindow'[i] = toWindow[i + 1]
  BY RequestTaken
<1>2. \A h : OpenIn(toWindow', h) => OpenIn(toWindow, h)
  BY <1>1 DEF OpenIn
<1>3. \A h \in Gens : EndedIn(host, toWindow, h) => EndedIn(host', toWindow', h)
  BY <1>2 DEF EndedIn
<1>4. gone' = ~page' /\ (\A h \in Gens : host'[h] # "queued") /\ page'
  BY DEF IWindow
<1>5. \A h \in Gens : h # Owned(main') => EndedIn(host', toWindow', h)
  BY <1>3 DEF IWindow
<1>6. attempt'.st = "ok" => EndedIn(host', toWindow', attempt'.gen)
  <2>1. attempt.st = "ok" => attempt.gen \in Gens
    BY DEF IRegistry, ITyped, TypeOK, Attempts
  <2> QED
    BY <1>2, <1>3, <2>1 DEF IWindow, EndedIn, OpenIn
<1>7. \A i \in 1..Len(toMain') :
           toMain'[i].ack = "closed" => EndedIn(host', toWindow', toMain'[i].gen) /\ toMain'[i].gen <= main'.count
  <2> SUFFICES ASSUME NEW i \in 1..Len(toMain'), toMain'[i].ack = "closed"
              PROVE  EndedIn(host', toWindow', toMain'[i].gen) /\ toMain'[i].gen <= main'.count
    OBVIOUS
  <2>1. CASE i \in 1..Len(toMain) /\ toMain'[i] = toMain[i]
    <3>1. EndedIn(host, toWindow, toMain[i].gen) /\ toMain[i].gen <= main.count
      BY <2>1 DEF IWindow
    <3>2. toMain[i].gen \in Gens
      <4>1. toMain[i] \in Acks
        BY <2>1, ElementOfSeq DEF ITyped, TypeOK
      <4> QED
        BY <4>1 DEF Acks
    <3>3. EndedIn(host', toWindow', toMain[i].gen)
      BY <1>3, <3>1, <3>2
    <3> QED
      BY <2>1, <3>1, <3>3
  <2>2. CASE toMain'[i].gen = g /\ g <= main.count /\ host'[g] \in {"none", "closed"} /\ ~OpenIn(toWindow', g)
    BY <2>2 DEF EndedIn, OpenIn
  <2> QED
    BY <2>1, <2>2
<1>8. \A h \in Gens : OpenIn(toWindow, h) => host[h] = "none" /\ h \notin known \cup closed
  BY DEF IWindow, OpenIn
<1>9. \A h \in Gens : OpenIn(toWindow', h) => host'[h] = "none" /\ h \notin known' \cup closed'
  BY <1>2, <1>8
<1>10. \A i \in 1..Len(toWindow') : toWindow'[i].act = "open" =>
           host'[toWindow'[i].gen] = "none" /\ toWindow'[i].gen \notin known' \cup closed'
  <2> SUFFICES ASSUME NEW i \in 1..Len(toWindow'), toWindow'[i].act = "open"
              PROVE  host'[toWindow'[i].gen] = "none" /\ toWindow'[i].gen \notin known' \cup closed'
    OBVIOUS
  <2>1. PICK h : h = toWindow'[i].gen
    OBVIOUS
  <2>2. OpenIn(toWindow', h)
    BY <2>1 DEF OpenIn
  <2>3. h \in Gens
    <3>1. \E k \in 1..Len(toWindow) : toWindow'[i] = toWindow[k]
      BY <1>1
    <3>2. toWindow'[i] \in Requests
      BY <3>1, ElementOfSeq DEF ITyped, TypeOK
    <3> QED
      BY <2>1, <3>2 DEF Requests
  <2> QED
    BY <1>9, <2>1, <2>2, <2>3
<1>11. \A i, j \in 1..Len(toWindow') :
           toWindow'[i].act = "open" /\ toWindow'[j].act = "open" /\ toWindow'[i].gen = toWindow'[j].gen => i = j
  <2>1. CASE toWindow' = toWindow
    BY <2>1 DEF IWindow
  <2>2. CASE \A i \in 1..Len(toWindow') : i + 1 \in 1..Len(toWindow) /\ toWindow'[i] = toWindow[i + 1]
    <3> SUFFICES ASSUME NEW i \in 1..Len(toWindow'), NEW j \in 1..Len(toWindow'),
                        toWindow'[i].act = "open", toWindow'[j].act = "open", toWindow'[i].gen = toWindow'[j].gen
                PROVE  i = j
      OBVIOUS
    <3>1. /\ i + 1 \in 1..Len(toWindow) /\ toWindow'[i] = toWindow[i + 1]
          /\ j + 1 \in 1..Len(toWindow) /\ toWindow'[j] = toWindow[j + 1]
      BY <2>2
    <3>2. toWindow[i + 1].act = "open" /\ toWindow[j + 1].act = "open" /\ toWindow[i + 1].gen = toWindow[j + 1].gen
      BY <3>1
    <3>3. i + 1 = j + 1
      BY <3>1, <3>2 DEF IWindow
    <3> QED
      BY <3>3
  <2> QED
    BY <1>1, <2>1, <2>2
<1>12. \A h \in Gens : h > main'.count => host'[h] = "none" /\ h \notin known' \cup closed' /\ ~OpenIn(toWindow', h)
  <2> SUFFICES ASSUME NEW h \in Gens, h > main.count
              PROVE  host'[h] = "none" /\ h \notin known' \cup closed' /\ ~OpenIn(toWindow', h)
    OBVIOUS
  <2>1. host[h] = "none" /\ h \notin known \cup closed /\ ~OpenIn(toWindow, h)
    BY DEF IWindow
  <2>2. main.count \in Nat /\ h \in Nat /\ g \in Nat
    BY BoundsAssumption DEF ITyped, TypeOK, Record, Gens
  <2>3. UNCHANGED <<host, known, closed>> \/ h # g
    BY <2>2
  <2> QED
    BY <1>2, <2>1, <2>3
<1> QED
  BY <1>4, <1>5, <1>6, <1>7, <1>10, <1>11, <1>12 DEF IWindow

\* An open taken is of a lease that had not ended, new to the page, and the
\* first there: it starts at once, or is refused.
LEMMA OpenTaken ==
  ASSUME ITyped, IWindow, TakeOpen
  PROVE  \E g \in Gens :
           /\ UNCHANGED <<registry, bridge, page>> /\ page
           /\ toWindow # <<>> /\ toWindow' = Tail(toWindow)
           /\ \A i \in 1..Len(toWindow') : \E k \in 1..Len(toWindow) : toWindow'[i] = toWindow[k]
           /\ host[g] = "none" /\ ~EndedIn(host, toWindow, g) /\ g <= main.count /\ ~OpenIn(toWindow', g)
           /\ known' \cup closed' \subseteq known \cup closed \cup {g}
           /\ host'[g] # "queued" /\ \A h \in Gens \ {g} : host'[h] = host[h]
           /\ \A i \in 1..Len(toMain') : (i \in 1..Len(toMain) /\ toMain'[i] = toMain[i]) \/ toMain'[i].ack = "refused"
<1>0. main \in Record
  BY DEF ITyped, TypeOK
<1>b. \A g \in Gens : g # Owned(main) => EndedIn(host, toWindow, g)
  BY DEF IWindow
<1> DEFINE g == Head(toWindow).gen
           prior == {h \in Gens : host[h] \in Live \cup {"closing", "held"}}
<1>1. /\ Head(toWindow) \in Requests /\ Head(toWindow) = toWindow[1] /\ 1 \in 1..Len(toWindow)
      /\ \A i \in 1..Len(toWindow') : i + 1 \in 1..Len(toWindow) /\ toWindow'[i] = toWindow[i + 1]
  BY RequestTaken DEF TakeOpen
<1>2. /\ UNCHANGED <<registry, bridge, page>> /\ page
      /\ toWindow # <<>> /\ toWindow' = Tail(toWindow) /\ Head(toWindow).act = "open"
      /\ \/ /\ closed' = closed \cup {g} /\ Answer(OpenFailed(g))
            /\ UNCHANGED <<known, host>>
         \/ /\ known' = known \cup {g}
            /\ host' = [h \in Gens |->
                          IF h = g THEN IF prior = {} THEN "starting" ELSE "queued"
                          ELSE IF h \in prior THEN "closing" ELSE host[h]]
            /\ UNCHANGED <<closed, toMain>>
  BY DEF TakeOpen
<1>3. g \in Gens
  BY <1>1 DEF Requests
<1>4. OpenIn(toWindow, g) /\ host[g] = "none"
  BY <1>1, <1>2 DEF OpenIn, IWindow
<1>5. ~EndedIn(host, toWindow, g) /\ \A h \in Gens : h # g => EndedIn(host, toWindow, h)
  BY <1>b, <1>3, <1>4 DEF EndedIn
<1>6. prior = {}
  BY <1>4, <1>5 DEF EndedIn, Live
<1>7. ~OpenIn(toWindow', g)
  <2> SUFFICES ASSUME NEW i \in 1..Len(toWindow'), toWindow'[i].act = "open", toWindow'[i].gen = g
              PROVE  FALSE
    BY DEF OpenIn
  <2>1. i + 1 \in 1..Len(toWindow) /\ toWindow'[i] = toWindow[i + 1] /\ 1 \in 1..Len(toWindow)
    BY <1>1
  <2>2. toWindow[i + 1].act = "open" /\ toWindow[1].act = "open" /\ toWindow[i + 1].gen = toWindow[1].gen
    BY <1>1, <1>2, <2>1
  <2>3. i + 1 = 1
    BY <2>1, <2>2 DEF IWindow
  <2> QED
    BY <2>3
<1>8. g <= main.count
  <2>1. ~(g > main.count)
    BY <1>3, <1>4 DEF IWindow
  <2>2. g \in Nat /\ main.count \in Nat
    BY <1>0, <1>3, BoundsAssumption DEF Gens, Record
  <2> QED
    BY <2>1, <2>2
<1> HIDE DEF g, prior
<1>9. known' \cup closed' \subseteq known \cup closed \cup {g}
  BY <1>2
<1>10. /\ host'[g] # "queued" /\ \A h \in Gens \ {g} : host'[h] = host[h]
       /\ \A i \in 1..Len(toMain') : (i \in 1..Len(toMain) /\ toMain'[i] = toMain[i]) \/ toMain'[i].ack = "refused"
  <2>1. CASE closed' = closed \cup {g} /\ Answer(OpenFailed(g)) /\ UNCHANGED <<known, host>>
    <3>1. \A i \in 1..Len(toMain') : (i \in 1..Len(toMain) /\ toMain'[i] = toMain[i]) \/ toMain'[i].ack = "refused"
      BY <1>3, <2>1, RefusalSent
    <3> QED
      BY <1>4, <2>1, <3>1
  <2>2. CASE /\ known' = known \cup {g}
             /\ host' = [h \in Gens |->
                          IF h = g THEN IF prior = {} THEN "starting" ELSE "queued"
                          ELSE IF h \in prior THEN "closing" ELSE host[h]]
             /\ UNCHANGED <<closed, toMain>>
    BY <1>3, <1>6, <2>2
  <2> QED
    BY <1>2, <2>1, <2>2
<1>11. \A i \in 1..Len(toWindow') : \E k \in 1..Len(toWindow) : toWindow'[i] = toWindow[k]
  BY <1>1
<1> QED
  BY <1>2, <1>3, <1>4, <1>5, <1>7, <1>8, <1>9, <1>10, <1>11

\* Every step keeps the window's invariant.
LEMMA WindowStep == ITyped /\ IRegistry /\ IRegistry' /\ IWindow /\ [Next]_vars => IWindow'
<1> SUFFICES ASSUME ITyped, IRegistry, IRegistry', IWindow, [Next]_vars PROVE IWindow'
  OBVIOUS
<1>0. /\ main \in Record /\ job \in Jobs /\ attempt \in Attempts /\ toMain \in Seq(Acks)
      /\ host \in [Gens -> {"none", "queued", "starting", "active", "closing", "held", "closed"}]
  BY DEF ITyped, TypeOK
<1>a. attempt.gen \in Gens \cup {None} /\ (attempt.st = "ok" => attempt.gen \in Gens /\ EndedIn(host, toWindow, attempt.gen))
  BY <1>0 DEF IRegistry, IWindow, Attempts
<1>b. \A g \in Gens : g # Owned(main) => EndedIn(host, toWindow, g)
  BY DEF IWindow
<1>c. SameOwner(main', main) => Owned(main') = Owned(main) /\ main'.count = main.count
  BY OwnedAlike DEF SameOwner
<1>d. ASSUME Owned(main') = Owned(main), main'.count = main.count, UNCHANGED <<gone, wires, window>>,
             attempt' = attempt \/ attempt' = NoAttempt \/ attempt' = [attempt EXCEPT !.st = "failed"]
      PROVE  IWindow'
  <2>1. /\ attempt'.gen \in Gens \cup {None}
        /\ attempt'.st = "ok" => attempt'.gen \in Gens /\ EndedIn(host, toWindow, attempt'.gen)
    BY <1>0, <1>a, <1>d DEF NoAttempt, Attempts
  <2>2. UNCHANGED <<page, known, closed, host, toMain, toWindow, gone>>
    BY <1>d DEF wires, window
  <2>3. \A g \in Gens : g # Owned(main') => EndedIn(host, toWindow, g)
    BY <1>b, <1>d
  <2> QED
    BY <1>d, <2>1, <2>2, <2>3, WindowCalm
<1>e. ASSUME Owned(main') = Owned(main), main'.count = main.count, UNCHANGED <<gone, toMain, window>>,
             NEW waiting,
             \/ Owned(main) = None /\ UNCHANGED <<attempt, toWindow>>
             \/ Owned(main) # None /\ Owned(main) \in Gens /\ Trying(Owned(main), waiting)
      PROVE  IWindow'
  <2>1. UNCHANGED <<page, known, closed, host, toMain, gone>>
    BY <1>e DEF window
  <2>2. CASE Owned(main) # None /\ Owned(main) \in Gens /\ Trying(Owned(main), waiting)
    BY <1>e, <2>1, <2>2, WindowTries
  <2>3. CASE Owned(main) = None /\ UNCHANGED <<attempt, toWindow>>
    BY <1>d, <1>e, <2>3 DEF wires
  <2> QED
    BY <1>e, <2>2, <2>3
<1>f. ASSUME NEW m \in Record, SameOwner(m, main), Activate(m), Owned(main) = None,
             UNCHANGED <<gone, attempt, toMain, window>>
      PROVE  IWindow'
  <2> DEFINE g == main.count + 1
             open == [act |-> "open", gen |-> g, try |-> 0]
  <2>1. /\ g \in Gens /\ open \in Requests /\ main'.count = g /\ Owned(main') = g
        /\ \/ gone /\ toWindow' = toWindow
           \/ ~gone /\ toWindow' = Append(toWindow, open)
    BY <1>f, ActivateStep
  <2>2. open.act = "open" /\ open.gen = g
    OBVIOUS
  <2>3. UNCHANGED <<page, known, closed, host, toMain, gone, attempt>>
    BY <1>f DEF window
  <2> HIDE DEF open
  <2>4. main'.count = main.count + 1 /\ main'.count \in Gens /\ Owned(main') = main'.count /\ open.gen = main'.count
    BY <2>1, <2>2
  <2> QED
    BY <1>f, <2>1, <2>2, <2>3, <2>4, WindowActivates
<1>1. CASE StartJob
  <2> DEFINE op == Head(queue)
             j == [kind |-> op.kind, epoch |-> op.epoch, lease |-> op.lease, at |-> "persist", failed |-> FALSE]
  <2>1. op \in Operations
    BY <1>1, Dequeued DEF StartJob, CanStart
  <2>2. /\ UNCHANGED <<gone, toMain, window>>
        /\ \/ UNCHANGED <<main, attempt, toWindow>>
           \/ CleanUp(main, j, "cleanup", "cleaned")
           \/ LET m == BeginTransition(main, "disposed", main.desired, TRUE)
              IN  CleanUp([m EXCEPT !.life = "deactivating"],
                          [j EXCEPT !.epoch = m.epoch], "cleanup", "cleaned")
    BY <1>1 DEF StartJob, bridge
  <2>3. j \in Jobs
    BY <2>1 DEF Operations, Jobs
  <2> HIDE DEF op, j
  <2>4. CASE UNCHANGED <<main, attempt, toWindow>>
    BY <1>d, <2>2, <2>4 DEF wires
  <2>5. CASE CleanUp(main, j, "cleanup", "cleaned")
    <3>1. SameOwner(main, main)
      BY DEF SameOwner
    <3>2. /\ Owned(main') = Owned(main) /\ main'.count = main.count
          /\ \/ Owned(main) = None /\ UNCHANGED <<attempt, toWindow>>
             \/ Owned(main) # None /\ Owned(main) \in Gens /\ Trying(Owned(main), pending \ OpensOf({main.gen}))
      BY <1>0, <2>3, <2>5, <3>1, CleanStep
    <3> QED
      BY <1>e, <2>2, <3>2
  <2>6. CASE LET m == BeginTransition(main, "disposed", main.desired, TRUE)
             IN  CleanUp([m EXCEPT !.life = "deactivating"],
                         [j EXCEPT !.epoch = m.epoch], "cleanup", "cleaned")
    <3>1. /\ Owned(main') = Owned(main) /\ main'.count = main.count
          /\ \/ Owned(main) = None /\ UNCHANGED <<attempt, toWindow>>
             \/ Owned(main) # None /\ Owned(main) \in Gens /\ Trying(Owned(main), pending \ OpensOf({main.gen}))
      BY <2>3, <2>6, DisposeStep
    <3> QED
      BY <1>e, <2>2, <3>1
  <2> QED
    BY <2>2, <2>4, <2>5, <2>6
<1>2. CASE SettleAttempt
  <2>1. attempt.gen # None /\ main.cleanup = attempt.gen /\ main.gen = None /\ attempt.st \in {"ok", "failed"}
    BY <1>2 DEF SettleAttempt, IRegistry
  <2>2. /\ main'.gen = None /\ main'.count = main.count
        /\ (attempt.st = "ok" /\ main'.cleanup = None) \/ (attempt.st = "failed" /\ main'.cleanup = main.cleanup)
    BY <1>0, <1>2, <2>1 DEF SettleAttempt, Record
  <2>3. \A g \in Gens : g # Owned(main') => EndedIn(host, toWindow, g)
    <3>1. Owned(main) = attempt.gen /\ Owned(main') = main'.cleanup
      BY <2>1, <2>2 DEF Owned
    <3>2. CASE attempt.st = "ok"
      BY <1>a, <1>b, <3>1, <3>2
    <3>3. CASE attempt.st = "failed"
      BY <1>b, <2>1, <2>2, <3>1, <3>3
    <3> QED
      BY <2>1, <3>2, <3>3
  <2>4. attempt' = NoAttempt /\ UNCHANGED <<gone, page, known, closed, host, toMain, toWindow>>
    BY <1>2 DEF SettleAttempt, bridge, wires, window
  <2>5. NoAttempt.gen = None /\ NoAttempt.st = "none"
    BY DEF NoAttempt
  <2> QED
    BY <2>2, <2>3, <2>4, <2>5, WindowCalm
<1>3. CASE AfterCleanup
  <2>1. UNCHANGED <<attempt, toMain, window, gone>> /\ job.at = "cleaned" /\ main.gen = None
    BY <1>3 DEF AfterCleanup, IRegistry, bridge
  <2>2. {"failed", "idle", "disabled", main.life} \subseteq Lives /\ main.desired \in BOOLEAN
    BY <1>0 DEF Lives, Record
  <2>3. ASSUME NEW life \in Lives, NEW m, m = Finish(main, job.epoch, life), UNCHANGED toWindow,
               main'.gen = m.gen, main'.cleanup = m.cleanup, main'.count = m.count
        PROVE  IWindow'
    <3>1. SameOwner(m, main)
      BY <1>0, <2>3, Finished
    <3>2. Owned(main') = Owned(main) /\ main'.count = main.count
      BY <2>3, <3>1 DEF SameOwner, Owned
    <3> QED
      BY <1>d, <2>1, <2>3, <3>2 DEF wires
  <2>4. CASE job.kind = "disable"
    <3>1. UNCHANGED <<main, toWindow>>
      BY <1>3, <2>4 DEF AfterCleanup
    <3> QED
      BY <1>d, <2>1, <3>1 DEF wires
  <2>5. CASE job.kind = "dispose"
    <3> DEFINE m == Finish(main, job.epoch, "failed")
    <3>1. m \in Record
      BY <1>0, <2>2, Finished
    <3>2. UNCHANGED toWindow /\ main' = IF job.failed THEN m ELSE [m EXCEPT !.disposed = @ \cup {job.lease}]
      BY <1>3, <2>5 DEF AfterCleanup
    <3> HIDE DEF m
    <3>3. main'.gen = m.gen /\ main'.cleanup = m.cleanup /\ main'.count = m.count
      BY <3>1, <3>2 DEF Record
    <3> QED
      BY <2>2, <2>3, <3>2, <3>3 DEF m
  <2>6. CASE job.kind = "shutdown"
    <3> DEFINE l == IF job.failed THEN "failed" ELSE IF main.desired THEN "idle" ELSE "disabled"
    <3>1. main' = Finish(main, job.epoch, l) /\ UNCHANGED toWindow
      BY <1>3, <2>6 DEF AfterCleanup
    <3>2. l \in Lives
      BY <2>2
    <3> HIDE DEF l
    <3> QED
      BY <2>3, <3>1, <3>2
  <2>7. CASE job.kind = "replace" /\ (job.failed \/ main.epoch # job.epoch)
    <3>1. main' = Finish(main, job.epoch, "failed") /\ UNCHANGED toWindow
      BY <1>3, <2>7 DEF AfterCleanup
    <3> QED
      BY <2>2, <2>3, <3>1
  <2>8. CASE job.kind = "replace" /\ ~(job.failed \/ main.epoch # job.epoch)
    <3> DEFINE m == Finish(main, job.epoch, main.life)
    <3>1. m \in Record /\ SameOwner(m, main)
      BY <1>0, <2>2, Finished
    <3>2. \/ Activate(m)
          \/ main' = (IF m.desired THEN m ELSE [m EXCEPT !.life = "disabled"]) /\ UNCHANGED toWindow
      BY <1>3, <2>8 DEF AfterCleanup
    <3> HIDE DEF m
    <3>3. CASE Activate(m)
      <4>1. Owned(main) = None
        BY <2>1, <2>8 DEF IRegistry, Owned
      <4> QED
        BY <1>f, <2>1, <3>1, <3>3, <4>1
    <3>4. CASE main' = (IF m.desired THEN m ELSE [m EXCEPT !.life = "disabled"]) /\ UNCHANGED toWindow
      <4>1. main'.gen = m.gen /\ main'.cleanup = m.cleanup /\ main'.count = m.count
        BY <3>1, <3>4 DEF Record
      <4> QED
        BY <2>2, <2>3, <3>4, <4>1 DEF m
    <3> QED
      BY <3>2, <3>3, <3>4
  <2> QED
    BY <1>3, <2>4, <2>5, <2>6, <2>7, <2>8 DEF AfterCleanup
<1>4. CASE AfterReconcile
  <2> DEFINE l == IF job.failed THEN "failed" ELSE "disabled"
             m == [main EXCEPT !.phase = "stable", !.intent = FALSE, !.life = l]
  <2>1. m \in Record /\ SameOwner(m, main)
    <3>1. l \in Lives
      BY DEF Lives
    <3> HIDE DEF l
    <3> QED
      BY <1>0, <3>1 DEF Record, Phases, SameOwner
  <2>2. job.kind \in {"enable", "disable", "setting"}
    BY <1>4 DEF IRegistry, AfterReconcile
  <2>3. SameOwner(PersistThrows(m), m)
    BY <2>1, <2>2, ThrownStep
  <2>4. main' \in {m, PersistThrows(m)} /\ UNCHANGED <<attempt, gone, wires, window>>
    BY <1>4 DEF AfterReconcile, bridge
  <2> HIDE DEF m
  <2>5. SameOwner(main', main)
    BY <2>1, <2>3, <2>4 DEF SameOwner
  <2> QED
    BY <1>c, <1>d, <2>4, <2>5
<1>5. CASE AfterPersist
  <2>1. SameOwner(main', main)
    <3>1. job.kind \in {"enable", "disable", "setting"}
      BY <1>5 DEF IRegistry, AfterPersist
    <3>2. \/ main' = main
          \/ \E l \in Lives : main' = Finish(main, job.epoch, l)
      BY <1>0, <1>5, <3>1 DEF AfterPersist, Record, Lives
    <3>3. SameOwner(main, main)
      BY DEF SameOwner
    <3> QED
      BY <1>0, <3>2, <3>3, Finished
  <2>2. UNCHANGED <<attempt, gone, wires, window>>
    BY <1>5 DEF AfterPersist, bridge
  <2> QED
    BY <1>c, <1>d, <2>1, <2>2
<1>6. ASSUME NEW g \in Gens, ForgetOpen(g) PROVE IWindow'
  <2>1. /\ UNCHANGED <<gone, toMain, window>>
        /\ \/ /\ main' = Disown(main) /\ CanPublish(main, g)
              /\ \E known_ : TryCleanup(g, known_, pending, TRUE)
           \/ UNCHANGED <<main, attempt, toWindow>>
    BY <1>6 DEF ForgetOpen
  <2>2. CASE /\ main' = Disown(main) /\ CanPublish(main, g)
             /\ \E known_ : TryCleanup(g, known_, pending, TRUE)
    <3>1. main.gen = g /\ g # None /\ main.cleanup = None /\ Owned(main) = g
      BY <2>2 DEF CanPublish, ActivationAllowed, Gens, None, Owned
    <3>2. Owned(main') = Owned(main) /\ main'.count = main.count
      BY <1>0, <2>2, Disowned
    <3>3. attempt.gen = None /\ TRUE \in BOOLEAN
      BY <3>1 DEF IRegistry
    <3>4. Trying(g, pending)
      BY <2>2, <3>3, TryStep
    <3> QED
      BY <1>e, <2>1, <3>1, <3>2, <3>4
  <2>3. CASE UNCHANGED <<main, attempt, toWindow>>
    BY <1>d, <2>1, <2>3 DEF wires
  <2> QED
    BY <2>1, <2>2, <2>3
<1>7. CASE Enable
  <2> DEFINE m == IF main.desired /\ main.phase = "stable" THEN main
                  ELSE BeginTransition(main, "enabling", TRUE, FALSE)
  <2>1. SameOwner(m, main)
    <3>1. "enabling" \in Phases /\ TRUE \in BOOLEAN /\ FALSE \in BOOLEAN
      BY DEF Phases
    <3>2. SameOwner(BeginTransition(main, "enabling", TRUE, FALSE), main)
      BY <1>0, <3>1, Begun
    <3>3. SameOwner(main, main)
      BY DEF SameOwner
    <3> QED
      BY <3>2, <3>3
  <2>2. main' = m /\ UNCHANGED <<attempt, gone, wires, window>>
    BY <1>7 DEF Enable, bridge
  <2> HIDE DEF m
  <2> QED
    BY <1>c, <1>d, <2>1, <2>2
<1>8. ASSUME NEW kind \in Kinds, NEW phase \in Phases, NEW intent \in BOOLEAN, NEW life \in Lives,
             FencedCall(kind, phase, intent, life)
      PROVE  IWindow'
  <2>1. SameOwner(main', main) /\ UNCHANGED <<attempt, gone, wires, window>>
    BY <1>8, FencedStep
  <2> QED
    BY <1>c, <1>d, <2>1
<1>9. CASE Disable
  <2>1. FALSE \in BOOLEAN /\ "disable" \in Kinds /\ "disabling" \in Phases /\ "deactivating" \in Lives
    BY DEF Kinds, Phases, Lives
  <2> QED
    BY <1>8, <1>9, <2>1 DEF Disable
<1>10. CASE Replace
  <2>1. TRUE \in BOOLEAN /\ "replace" \in Kinds /\ "replacing" \in Phases /\ "deactivating" \in Lives
    BY DEF Kinds, Phases, Lives
  <2> QED
    BY <1>8, <1>10, <2>1 DEF Replace
<1>11. CASE Shutdown
  <2> DEFINE life == IF Owned(main) = None THEN main.life ELSE "deactivating"
  <2>1. main.desired \in BOOLEAN /\ "shutdown" \in Kinds /\ "shutting-down" \in Phases /\ life \in Lives
    BY <1>0 DEF Kinds, Phases, Lives, Record
  <2>2. FencedCall("shutdown", "shutting-down", main.desired, life)
    BY <1>11 DEF Shutdown
  <2> HIDE DEF life
  <2> QED
    BY <1>8, <2>1, <2>2
<1>12. CASE SetSetting
  BY <1>d, <1>12 DEF SetSetting, bridge
<1>13. CASE Trigger
  <2>1. /\ Activate(main) /\ UNCHANGED <<gone, attempt, toMain, window>>
        /\ main.gen = None /\ main.cleanup = None
    BY <1>13 DEF Trigger, ActivationAllowed
  <2>2. SameOwner(main, main) /\ Owned(main) = None
    BY <2>1 DEF SameOwner, Owned
  <2> QED
    BY <1>0, <1>f, <2>1, <2>2
<1>14. CASE DiskAnswers
  <2>1. job.kind \in {"enable", "disable", "setting"} /\ UNCHANGED <<toMain, window>>
    BY <1>14 DEF DiskAnswers, IRegistry
  <2>2. CASE main' = PersistThrows(main) /\ UNCHANGED <<attempt, bridge, toWindow>>
    <3>1. SameOwner(main', main)
      BY <1>0, <2>1, <2>2, ThrownStep
    <3> QED
      BY <1>c, <1>d, <2>1, <2>2, <3>1 DEF bridge, wires
  <2>3. ASSUME NEW switch \in BOOLEAN, Written(switch), UNCHANGED gone
        PROVE  IWindow'
    <3>1. CASE WrittenOff(switch)
      <4>1. /\ Owned(main') = Owned(main) /\ main'.count = main.count
            /\ \/ Owned(main) = None /\ UNCHANGED <<attempt, toWindow>>
               \/ Owned(main) # None /\ Owned(main) \in Gens /\ Trying(Owned(main), pending \ OpensOf({main.gen}))
        BY <2>3, <3>1, WrittenOffStep
      <4> QED
        BY <1>e, <2>1, <2>3, <4>1
    <3>2. CASE WrittenOn(switch)
      <4>1. SameOwner(main', main) /\ UNCHANGED <<attempt, toWindow>>
        BY <2>3, <3>2, WrittenOnStep
      <4> QED
        BY <1>c, <1>d, <2>1, <2>3, <4>1 DEF wires
    <3> QED
      BY <2>3, <3>1, <3>2 DEF Written
  <2>4. \/ main' = PersistThrows(main) /\ UNCHANGED <<attempt, bridge, toWindow>>
        \/ \E switch \in BOOLEAN : Written(switch)
    BY <1>14, DiskStep
  <2>5. UNCHANGED gone
    BY <1>14 DEF DiskAnswers, bridge
  <2> QED
    BY <2>2, <2>3, <2>4, <2>5
<1>15. CASE AckArrives
  <2> DEFINE a == Head(toMain)
             act == IF a.ack \in {"opened", "refused"} THEN "open" ELSE "close"
             answered == {p \in pending : p.act = act /\ p.gen = a.gen /\ p.try = a.try}
             awaited == answered # {} /\ act = "close" /\ attempt.st = "waiting" /\ attempt.try = a.try
  <2>1. a \in Acks /\ a = toMain[1] /\ 1 \in 1..Len(toMain)
        /\ \A i \in 1..Len(toMain') : i + 1 \in 1..Len(toMain) /\ toMain'[i] = toMain[i + 1]
    BY <1>15, AckTaken
  <2>2. /\ UNCHANGED <<gone, toWindow, window>> /\ toMain # <<>>
        /\ attempt' = IF awaited THEN [attempt EXCEPT !.st = IF a.ack = "closed" THEN "ok" ELSE "failed"]
                      ELSE attempt
        /\ main' = main \/ main' = [main EXCEPT !.life = "active"]
    BY <1>15 DEF AckArrives
  <2>3. Owned(main') = Owned(main) /\ main'.count = main.count
    BY <1>0, <2>2 DEF Record, Owned
  <2>4. attempt'.gen = attempt.gen
    BY <1>0, <2>2 DEF Attempts
  <2>5. attempt'.st = "ok" => attempt'.gen \in Gens /\ EndedIn(host, toWindow, attempt'.gen)
    <3>1. CASE ~awaited
      BY <1>a, <2>2, <3>1
    <3>2. CASE awaited
      <4>1. PICK p \in pending : p.act = "close" /\ p.gen = a.gen /\ p.try = attempt.try
        BY <3>2
      <4>2. p.gen = attempt.gen
        BY <3>2, <4>1 DEF IRegistry
      <4>3. attempt'.st = "ok" => a.ack = "closed"
        BY <1>0, <2>2, <3>2 DEF Attempts
      <4>4. a.ack = "closed" => EndedIn(host, toWindow, a.gen)
        BY <2>1 DEF IWindow
      <4>5. a.gen \in Gens
        BY <2>1 DEF Acks
      <4> QED
        BY <2>4, <4>1, <4>2, <4>3, <4>4, <4>5
    <3> QED
      BY <3>1, <3>2
  <2>6. \A i \in 1..Len(toMain') : \E k \in 1..Len(toMain) : toMain'[i] = toMain[k]
    BY <2>1
  <2>7. UNCHANGED <<page, known, closed, host, gone, toWindow>>
    BY <2>2 DEF window
  <2>8. \A g \in Gens : g # Owned(main') => EndedIn(host, toWindow, g)
    BY <1>b, <2>3
  <2> HIDE DEF a, act, answered, awaited
  <2> QED
    BY <1>a, <2>2, <2>3, <2>4, <2>5, <2>6, <2>7, <2>8, WindowCalm
<1>16. CASE CleanupTimesOut
  <2>1. attempt' = [attempt EXCEPT !.st = "failed"] /\ UNCHANGED <<main, gone, wires, window>>
    BY <1>16 DEF CleanupTimesOut, bridge
  <2> QED
    BY <1>d, <2>1
<1>17. CASE RequestTimesOut
  BY <1>d, <1>17 DEF RequestTimesOut, registry
<1>18. CASE Navigate
  <2>1. /\ gone' /\ ~page' /\ known' = {} /\ closed' = {} /\ toWindow' = <<>> /\ toMain' = <<>>
        /\ host' = [g \in Gens |-> "none"] /\ main' = main
        /\ attempt' = attempt \/ attempt' = [attempt EXCEPT !.st = "failed"]
    BY <1>18 DEF Navigate
  <2>2. \A i \in 1..Len(<<>>) : FALSE
    BY EmptySeq
  <2>3. \A g : ~OpenIn(toWindow', g)
    BY <2>1, <2>2 DEF OpenIn
  <2>4. \A g \in Gens : host'[g] = "none" /\ EndedIn(host', toWindow', g)
    BY <2>1, <2>3 DEF EndedIn
  <2>5. attempt'.st = "ok" => attempt'.gen \in Gens
    BY <1>0, <1>a, <2>1 DEF Attempts
  <2>6. gone' = TRUE /\ page' = FALSE
    BY <1>18 DEF Navigate
  <2> QED
    BY <2>1, <2>2, <2>3, <2>4, <2>5, <2>6 DEF IWindow
<1>19. CASE PageReady
  <2>1. page' = TRUE /\ gone' = FALSE /\ UNCHANGED <<main, attempt, toWindow, toMain, known, closed, host>>
    BY <1>19 DEF PageReady, wires
  <2> QED
    BY <2>1 DEF IWindow
<1>20. CASE TakeOpen
  <2>1. PICK g \in Gens :
          /\ UNCHANGED <<main, attempt, gone, page>> /\ page
          /\ toWindow # <<>> /\ toWindow' = Tail(toWindow)
          /\ ~EndedIn(host, toWindow, g) /\ g <= main.count /\ ~OpenIn(toWindow', g)
          /\ known' \cup closed' \subseteq known \cup closed \cup {g}
          /\ host'[g] # "queued" /\ \A h \in Gens \ {g} : host'[h] = host[h]
          /\ \A i \in 1..Len(toMain') : (i \in 1..Len(toMain) /\ toMain'[i] = toMain[i]) \/ toMain'[i].ack = "refused"
    BY <1>20, OpenTaken DEF registry, bridge
  <2> QED
    BY <2>1, WindowMoves
<1>21. CASE TakeClose
  <2> DEFINE r == Head(toWindow)
             g == r.gen
  <2>1. /\ r \in Requests /\ r = toWindow[1] /\ 1 \in 1..Len(toWindow)
        /\ \A i \in 1..Len(toWindow') : i + 1 \in 1..Len(toWindow) /\ toWindow'[i] = toWindow[i + 1]
    BY <1>21, RequestTaken DEF TakeClose
  <2>2. /\ UNCHANGED <<main, attempt, gone, page>> /\ page
        /\ toWindow # <<>> /\ toWindow' = Tail(toWindow)
        /\ \/ /\ Answer(<<[ack |-> "unknown", gen |-> g, try |-> r.try]>>)
              /\ UNCHANGED <<known, closed, host>>
           \/ /\ g \in known \cup closed /\ host[g] \in {"none", "closed", "queued"}
              /\ known' = known \ {g} /\ closed' = closed \cup {g}
              /\ Answer(<<[ack |-> "closed", gen |-> g, try |-> r.try]>>)
              /\ UNCHANGED host
           \/ /\ g \in known \cup closed /\ host[g] \in Live \cup {"closing", "held"}
              /\ host' = [host EXCEPT ![g] = "closing"]
              /\ UNCHANGED <<known, closed, toMain>>
    BY <1>21 DEF TakeClose, registry, bridge
  <2>3. g \in Gens /\ r.try \in Nat
    BY <2>1 DEF Requests
  <2>4. \A h : OpenIn(toWindow', h) => OpenIn(toWindow, h)
    BY <2>1 DEF OpenIn
  <2>5. g \in known \cup closed => g <= main.count /\ ~OpenIn(toWindow, g)
    <3>1. g \in known \cup closed => ~(g > main.count) /\ ~OpenIn(toWindow, g)
      BY <2>3 DEF IWindow, OpenIn
    <3>2. g \in Nat /\ main.count \in Nat
      BY <1>0, <2>3, BoundsAssumption DEF Gens, Record
    <3> QED
      BY <3>1, <3>2
  <2>6. host[g] # "queued"
    BY <2>3 DEF IWindow
  <2> HIDE DEF r, g
  <2>7. CASE /\ Answer(<<[ack |-> "unknown", gen |-> g, try |-> r.try]>>)
             /\ UNCHANGED <<known, closed, host>>
    <3>1. \A i \in 1..Len(toMain') : (i \in 1..Len(toMain) /\ toMain'[i] = toMain[i]) \/ toMain'[i].ack = "unknown"
      BY <2>3, <2>7, OneSent
    <3> QED
      BY <2>2, <2>3, <2>6, <2>7, <3>1, WindowMoves
  <2>8. CASE /\ g \in known \cup closed /\ host[g] \in {"none", "closed", "queued"}
             /\ known' = known \ {g} /\ closed' = closed \cup {g}
             /\ Answer(<<[ack |-> "closed", gen |-> g, try |-> r.try]>>)
             /\ UNCHANGED host
    <3>1. \A i \in 1..Len(toMain') : \/ i \in 1..Len(toMain) /\ toMain'[i] = toMain[i]
                                     \/ toMain'[i].ack = "closed" /\ toMain'[i].gen = g
      BY <2>3, <2>8, OneSent
    <3>2. g <= main.count /\ ~OpenIn(toWindow', g) /\ host'[g] \in {"none", "closed"} /\ host'[g] # "queued"
      BY <2>4, <2>5, <2>6, <2>8
    <3>3. known' \cup closed' \subseteq known \cup closed \cup {g}
      BY <2>8
    <3> QED
      BY <2>2, <2>3, <2>8, <3>1, <3>2, <3>3, WindowMoves
  <2>9. CASE /\ g \in known \cup closed /\ host[g] \in Live \cup {"closing", "held"}
             /\ host' = [host EXCEPT ![g] = "closing"]
             /\ UNCHANGED <<known, closed, toMain>>
    <3>1. ~EndedIn(host, toWindow, g)
      BY <2>9 DEF EndedIn, Live
    <3>2. host'[g] # "queued" /\ \A h \in Gens \ {g} : host'[h] = host[h]
      BY <1>0, <2>3, <2>9
    <3>3. g <= main.count /\ ~OpenIn(toWindow', g)
      BY <2>4, <2>5, <2>9
    <3> QED
      BY <2>2, <2>3, <2>9, <3>1, <3>2, <3>3, WindowMoves
  <2> QED
    BY <2>2, <2>7, <2>8, <2>9
<1>22. ASSUME NEW g \in Gens, host[g] \in {"starting", "closing"}
       PROVE  ~EndedIn(host, toWindow, g) /\ g <= main.count /\ ~OpenIn(toWindow, g)
  <2>1. ~EndedIn(host, toWindow, g) /\ ~(g > main.count) /\ ~OpenIn(toWindow, g)
    BY <1>22 DEF IWindow, EndedIn, OpenIn
  <2>2. g \in Nat /\ main.count \in Nat
    BY <1>0, <1>22, BoundsAssumption DEF Gens, Record
  <2> QED
    BY <2>1, <2>2
<1>23. ASSUME NEW g \in Gens, PluginStarted(g) PROVE IWindow'
  <2>1. /\ UNCHANGED <<main, attempt, gone, page, toWindow, known, closed>> /\ page /\ host[g] = "starting"
        /\ \E st \in {"active", "closing"} : host' = [host EXCEPT ![g] = st]
        /\ toMain' = toMain \/ Answer(<<[ack |-> "opened", gen |-> g, try |-> 0]>>)
    BY <1>23 DEF PluginStarted, registry, bridge
  <2>2. host'[g] # "queued" /\ \A h \in Gens \ {g} : host'[h] = host[h]
    BY <1>0, <2>1
  <2>3. \A i \in 1..Len(toMain') : (i \in 1..Len(toMain) /\ toMain'[i] = toMain[i]) \/ toMain'[i].ack # "closed"
    <3>1. CASE toMain' = toMain
      BY <3>1
    <3>2. CASE Answer(<<[ack |-> "opened", gen |-> g, try |-> 0]>>)
      <4>1. \A i \in 1..Len(toMain') : (i \in 1..Len(toMain) /\ toMain'[i] = toMain[i]) \/ toMain'[i].ack = "opened"
        BY <3>2, OneSent
      <4> QED
        BY <4>1
    <3> QED
      BY <2>1, <3>1, <3>2
  <2>4. ~EndedIn(host, toWindow, g) /\ g <= main.count /\ ~OpenIn(toWindow', g)
    BY <1>22, <2>1
  <2> QED
    BY <2>1, <2>2, <2>3, <2>4, WindowMoves
<1>24. ASSUME NEW g \in Gens, HostReleased(g) PROVE IWindow'
  <2>1. /\ UNCHANGED <<main, attempt, gone, page, toWindow>> /\ page /\ host[g] = "closing"
        /\ known' \subseteq known
        /\ \A h \in Gens : h # g /\ host[h] # "queued" => host'[h] = host[h]
        /\ host'[g] \in {"closed", "held"}
        /\ (\A h \in Gens : host[h] # "queued") => closed' \subseteq closed \cup {g}
        /\ \A i \in 1..Len(toMain') :
              \/ i \in 1..Len(toMain) /\ toMain'[i] = toMain[i]
              \/ toMain'[i].ack \in {"refused", "incomplete"}
              \/ toMain'[i].gen = g /\ host'[g] = "closed"
    BY <1>24, ReleaseStep DEF registry, bridge
  <2>2. \A h \in Gens : host[h] # "queued"
    BY DEF IWindow
  <2>3. ~EndedIn(host, toWindow, g) /\ g <= main.count /\ ~OpenIn(toWindow', g)
    BY <1>22, <2>1
  <2>4. known' \cup closed' \subseteq known \cup closed \cup {g}
    BY <2>1, <2>2
  <2>5. host'[g] # "queued" /\ \A h \in Gens \ {g} : host'[h] = host[h]
    BY <2>1, <2>2
  <2>6. \A i \in 1..Len(toMain') :
            \/ i \in 1..Len(toMain) /\ toMain'[i] = toMain[i]
            \/ toMain'[i].ack # "closed"
            \/ toMain'[i].gen = g /\ g <= main.count /\ host'[g] \in {"none", "closed"} /\ ~OpenIn(toWindow', g)
    BY <2>1, <2>3
  <2> QED
    BY <2>1, <2>3, <2>4, <2>5, <2>6, WindowMoves
<1>25. ASSUME NEW g \in Gens, Detach(g) PROVE IWindow'
  <2>1. UNCHANGED <<main, attempt, gone, wires, window>>
    BY <1>25 DEF Detach, bridge
  <2> QED
    BY <1>d, <2>1
<1>26. CASE UNCHANGED vars
  BY <1>d, <1>26 DEF vars, wires, window
<1> QED
  BY <1>1, <1>2, <1>3, <1>4, <1>5, <1>6, <1>7, <1>9, <1>10, <1>11, <1>12, <1>13, <1>14, <1>15, <1>16,
     <1>17, <1>18, <1>19, <1>20, <1>21, <1>23, <1>24, <1>25, <1>26 DEF Next, Drain, Timers

\* What runs in the window is the registry's to end, and alone.
LEMMA WindowOwns == IWindow => RunningIsOwned
<1> SUFFICES ASSUME IWindow PROVE RunningIsOwned
  OBVIOUS
<1>1. Running \subseteq {Owned(main)}
  BY DEF IWindow, EndedIn, Running, Live
<1>2. Owned(main) \in {main.gen, main.cleanup}
  BY DEF Owned
<1>3. Cardinality(Running) <= 1
  <2>1. IsFiniteSet({Owned(main)}) /\ Cardinality({Owned(main)}) = 1
    BY FS_Singleton
  <2> QED
    BY <1>1, <2>1, FS_Subset
<1> QED
  BY <1>1, <1>2, <1>3 DEF RunningIsOwned

-----------------------------------------------------------------------------
(***************************************************************************)
(* The switch: what "off" says.                                            *)
(***************************************************************************)
\* No operation is newer than the registry's epoch, so one that a later has
\* overtaken can tell; "off" owns nothing; and a disable that nothing overtook
\* owns nothing while it writes, or knows that its cleanup failed.
EpochsPast == \A i \in 1..Len(queue) : queue[i].epoch <= main.epoch
ISwitch ==
    /\ EpochsPast /\ job.epoch <= main.epoch
    /\ main.life = "disabled" => Owned(main) = None
    /\ job.kind = "disable" /\ ~job.failed /\ main.epoch = job.epoch =>
           /\ job.at = "persist" /\ main.phase # "stable" => Owned(main) = None
           /\ job.at = "persisted" /\ ~main.desired => Owned(main) = None

\* At the start "off" is off.
LEMMA SwitchInit == Init => ISwitch
<1>1. \A i \in 1..Len(<<>>) : FALSE
  BY EmptySeq
<1> QED
  BY <1>1 DEF Init, ISwitch, EpochsPast, NoJob, Owned

\* A step whose job stays where it is, or tells of what it owns.
LEMMA SwitchCalm ==
  ASSUME ITyped, ITyped', ISwitch, EpochsPast', main'.epoch >= main.epoch,
         main'.life = "disabled" => main.life = "disabled" \/ Owned(main') = None,
         Owned(main') \in {Owned(main), None} \/ main'.life # "disabled",
         \/ /\ job' = job /\ Owned(main') \in {Owned(main), None}
            /\ main'.epoch = main.epoch => main'.phase \in {main.phase, "stable"} /\ main'.desired = main.desired
         \/ /\ job'.epoch <= main'.epoch
            /\ job'.kind = "disable" /\ ~job'.failed /\ main'.epoch = job'.epoch =>
                 /\ job'.at = "persist" /\ main'.phase # "stable" => Owned(main') = None
                 /\ job'.at = "persisted" /\ ~main'.desired => Owned(main') = None
  PROVE  ISwitch'
<1>1. main.epoch \in Nat /\ main'.epoch \in Nat /\ job.epoch \in Nat /\ job'.epoch \in Nat
  BY DEF ITyped, TypeOK, Record, Jobs
<1>2. main'.life = "disabled" => Owned(main') = None
  BY DEF ISwitch
<1>3. CASE /\ job' = job /\ Owned(main') \in {Owned(main), None}
           /\ main'.epoch = main.epoch => main'.phase \in {main.phase, "stable"} /\ main'.desired = main.desired
  <2>1. job'.epoch <= main'.epoch /\ (main'.epoch = job'.epoch => main'.epoch = main.epoch)
    BY <1>1, <1>3 DEF ISwitch
  <2> QED
    BY <1>2, <1>3, <2>1 DEF ISwitch
<1>4. CASE /\ job'.epoch <= main'.epoch
           /\ job'.kind = "disable" /\ ~job'.failed /\ main'.epoch = job'.epoch =>
                 /\ job'.at = "persist" /\ main'.phase # "stable" => Owned(main') = None
                 /\ job'.at = "persisted" /\ ~main'.desired => Owned(main') = None
  BY <1>2, <1>4 DEF ISwitch
<1> QED
  BY <1>3, <1>4

\* The queue as it was, or with its head taken.
LEMMA EpochsKept ==
  ASSUME ITyped, ITyped', ISwitch, main'.epoch >= main.epoch
  PROVE  /\ UNCHANGED queue => EpochsPast'
         /\ queue # <<>> /\ queue' = Tail(queue) => EpochsPast' /\ Head(queue).epoch <= main'.epoch
<1>1. main.epoch \in Nat /\ main'.epoch \in Nat /\ \A i \in 1..Len(queue) : queue[i].epoch \in Nat
  <2>1. \A i \in 1..Len(queue) : queue[i] \in Operations
    BY ElementOfSeq DEF ITyped, TypeOK
  <2> QED
    BY <2>1 DEF ITyped, TypeOK, Record, Operations
<1>2. \A i \in 1..Len(queue) : queue[i].epoch <= main'.epoch
  <2> SUFFICES ASSUME NEW i \in 1..Len(queue) PROVE queue[i].epoch <= main'.epoch
    OBVIOUS
  <2>1. queue[i].epoch <= main.epoch /\ queue[i].epoch \in Nat
    BY <1>1 DEF ISwitch, EpochsPast
  <2> QED
    BY <1>1, <2>1
<1>3. UNCHANGED queue => EpochsPast'
  BY <1>2 DEF EpochsPast
<1>4. queue # <<>> /\ queue' = Tail(queue) => EpochsPast' /\ Head(queue).epoch <= main'.epoch
  BY <1>2, Dequeued DEF EpochsPast
<1> QED
  BY <1>3, <1>4

\* The queue with an operation of this epoch, or one that has none.
LEMMA EpochEnqueued ==
  ASSUME ITyped, ITyped', ISwitch, main'.epoch >= main.epoch,
         NEW kind \in Kinds, NEW epoch \in Nat, NEW lease \in Gens \cup {None},
         epoch <= main'.epoch, Enqueue(kind, epoch, lease)
  PROVE  EpochsPast'
<1> DEFINE op == [kind |-> kind, epoch |-> epoch, lease |-> lease]
<1>1. /\ Len(queue') = Len(queue) + 1 /\ queue'[Len(queue) + 1] = op
      /\ \A i \in 1..Len(queue) : queue'[i] = queue[i]
  BY Enqueued
<1>2. op.epoch = epoch
  OBVIOUS
<1> HIDE DEF op
<1>3. Len(queue) \in Nat /\ main.epoch \in Nat /\ main'.epoch \in Nat
  BY LenProperties DEF ITyped, TypeOK, Record
<1> SUFFICES ASSUME NEW i \in 1..Len(queue') PROVE queue'[i].epoch <= main'.epoch
  BY DEF EpochsPast
<1>4. CASE i \in 1..Len(queue)
  <2>1. queue[i] \in Operations
    BY <1>4, ElementOfSeq DEF ITyped, TypeOK
  <2>2. queue[i].epoch \in Nat /\ queue[i].epoch <= main.epoch
    BY <1>4, <2>1 DEF Operations, ISwitch, EpochsPast
  <2> QED
    BY <1>1, <1>3, <1>4, <2>2
<1>5. CASE i = Len(queue) + 1
  BY <1>1, <1>2, <1>5
<1>6. i \in 1..Len(queue) \/ i = Len(queue) + 1
  BY <1>1, <1>3
<1> QED
  BY <1>4, <1>5, <1>6

\* The queue with disposals, which have no epoch.
LEMMA EpochDisposals ==
  ASSUME ITyped, ITyped', ISwitch, main' = main, queue' = queue \o Disposals(leases)
  PROVE  EpochsPast'
<1>1. /\ \A i \in 1..Len(queue) : queue'[i] = queue[i]
      /\ \A i \in 1..Len(queue') : i \in 1..Len(queue) \/ queue'[i].epoch = 0
  BY DisposalsQueued
<1>2. main.epoch \in Nat
  BY DEF ITyped, TypeOK, Record
<1> SUFFICES ASSUME NEW i \in 1..Len(queue') PROVE queue'[i].epoch <= main'.epoch
  BY DEF EpochsPast
<1>3. CASE i \in 1..Len(queue)
  BY <1>1, <1>3 DEF ISwitch, EpochsPast
<1>4. CASE queue'[i].epoch = 0
  BY <1>2, <1>4
<1> QED
  BY <1>1, <1>3, <1>4

\* Every step keeps the switch true.
LEMMA SwitchStep == ITyped /\ ITyped' /\ IRegistry /\ ISwitch /\ [Next]_vars => ISwitch'
<1> SUFFICES ASSUME ITyped, ITyped', IRegistry, ISwitch, [Next]_vars PROVE ISwitch'
  OBVIOUS
<1>00. main \in Record /\ job \in Jobs /\ main.epoch \in Nat /\ job.epoch \in Nat
  BY DEF ITyped, TypeOK, Record, Jobs
<1>0. /\ main \in Record /\ job \in Jobs /\ main.epoch \in Nat /\ job.epoch \in Nat
      /\ main.epoch + 1 >= main.epoch /\ main.epoch >= main.epoch
  BY <1>00
<1>a. NoJob.kind = "none" /\ \A n \in Nat : NoJob.epoch <= n
  BY DEF NoJob
<1>b. main'.epoch \in Nat
  BY DEF ITyped, TypeOK, Record
<1>c. ASSUME UNCHANGED <<main, job, queue>> PROVE ISwitch'
  BY <1>c DEF ISwitch, EpochsPast
<1>d. ASSUME main'.epoch = main.epoch, UNCHANGED queue, job' = NoJob, Owned(main') = Owned(main),
             main'.life = "disabled" => main.life = "disabled" \/ Owned(main') = None
      PROVE  ISwitch'
  <2>1. EpochsPast'
    BY <1>0, <1>d, EpochsKept
  <2> QED
    BY <1>0, <1>a, <1>b, <1>d, <2>1, SwitchCalm
<1>e. ASSUME job'.epoch <= main'.epoch, EpochsPast',
             main'.epoch >= main.epoch, main'.life = "disabled" => main.life = "disabled",
             Owned(main') = Owned(main), job'.at \notin {"persist", "persisted"}
      PROVE  ISwitch'
  BY <1>e, SwitchCalm
<1>1. CASE StartJob
  <2> DEFINE op == Head(queue)
             j == [kind |-> op.kind, epoch |-> op.epoch, lease |-> op.lease, at |-> "persist", failed |-> FALSE]
  <2>1. op \in Operations /\ queue # <<>> /\ queue' = Tail(queue)
    BY <1>1, Dequeued DEF StartJob, CanStart
  <2>2. \/ /\ job' = j \/ job' = [j EXCEPT !.at = "persisted"]
           /\ op.kind \in {"setting", "enable"} /\ main' = main
        \/ CleanUp(main, j, "cleanup", "cleaned")
        \/ job' = NoJob /\ main' = main
        \/ LET m == BeginTransition(main, "disposed", main.desired, TRUE)
           IN  CleanUp([m EXCEPT !.life = "deactivating"],
                       [j EXCEPT !.epoch = m.epoch], "cleanup", "cleaned")
    BY <1>1 DEF StartJob
  <2>3. j \in Jobs /\ j.kind = op.kind /\ j.epoch = op.epoch
        /\ [j EXCEPT !.at = "persisted"].kind = op.kind /\ [j EXCEPT !.at = "persisted"].epoch = op.epoch
    BY <2>1 DEF Operations, Jobs
  <2>4. main'.epoch >= main.epoch => EpochsPast' /\ op.epoch <= main'.epoch
    BY <2>1, EpochsKept
  <2> HIDE DEF op, j
  <2>5. CASE /\ job' = j \/ job' = [j EXCEPT !.at = "persisted"]
             /\ op.kind \in {"setting", "enable"} /\ main' = main
    BY <1>0, <2>3, <2>4, <2>5, SwitchCalm
  <2>6. CASE CleanUp(main, j, "cleanup", "cleaned")
    <3>1. SameOwner(main, main)
      BY DEF SameOwner
    <3>2. /\ Owned(main') = Owned(main) /\ main'.epoch = main.epoch /\ main'.life = main.life
          /\ job'.epoch = j.epoch /\ job'.at \in {"cleanup", "cleaned"}
      BY <1>0, <2>3, <2>6, <3>1, CleanStep
    <3> QED
      BY <1>0, <1>e, <2>3, <2>4, <3>2
  <2>7. CASE job' = NoJob /\ main' = main
    BY <1>0, <1>a, <2>4, <2>7, SwitchCalm
  <2>8. CASE LET m == BeginTransition(main, "disposed", main.desired, TRUE)
             IN  CleanUp([m EXCEPT !.life = "deactivating"],
                         [j EXCEPT !.epoch = m.epoch], "cleanup", "cleaned")
    <3>1. /\ Owned(main') = Owned(main) /\ main'.epoch = main.epoch + 1 /\ main'.life = "deactivating"
          /\ job'.epoch = main'.epoch /\ job'.at \in {"cleanup", "cleaned"} /\ job' \in Jobs
      BY <2>3, <2>8, DisposeStep
    <3>2. main'.epoch >= main.epoch /\ job'.epoch <= main'.epoch
      BY <1>0, <3>1
    <3> QED
      BY <1>e, <2>4, <3>1, <3>2
  <2> QED
    BY <2>2, <2>5, <2>6, <2>7, <2>8
<1>2. CASE SettleAttempt
  <2>1. attempt.gen # None /\ main.cleanup = attempt.gen /\ main.gen = None
    BY <1>2 DEF SettleAttempt, IRegistry
  <2>2. /\ main'.gen = None /\ main'.cleanup \in {main.cleanup, None}
        /\ main'.epoch = main.epoch /\ main'.phase = main.phase /\ main'.desired = main.desired
        /\ main'.life \in {main.life, "failed"}
    BY <1>0, <1>2, <2>1 DEF SettleAttempt, Record
  <2>3. Owned(main') \in {Owned(main), None}
    BY <2>1, <2>2 DEF Owned
  <2>4. job' = job \/ (job'.epoch = job.epoch /\ job'.at \in {"cleaned", "reconciled"})
    BY <1>0, <1>2 DEF SettleAttempt, Jobs
  <2>5. EpochsPast'
    BY <1>0, <1>2, <2>2, EpochsKept DEF SettleAttempt
  <2>6. job.epoch <= main.epoch
    BY DEF ISwitch
  <2> QED
    BY <1>0, <2>2, <2>3, <2>4, <2>5, <2>6, SwitchCalm
<1>3. CASE AfterCleanup
  <2>1. UNCHANGED queue /\ job.at = "cleaned" /\ main.gen = None /\ (job.failed \/ main.cleanup = None)
    BY <1>3 DEF AfterCleanup, IRegistry
  <2>2. {"failed", "idle", "disabled", main.life} \subseteq Lives /\ main.desired \in BOOLEAN
    BY <1>0 DEF Lives, Record
  <2>3. ~job.failed => Owned(main) = None
    BY <2>1 DEF Owned
  <2>4. CASE job.kind = "disable"
    <3>1. main' = main /\ job' \in {[job EXCEPT !.at = "persist"], [job EXCEPT !.at = "persisted"]}
      BY <1>3, <2>4 DEF AfterCleanup
    <3>2. job'.epoch = job.epoch /\ job'.failed = job.failed
      BY <1>0, <3>1 DEF Jobs
    <3>3. EpochsPast' /\ job.epoch <= main.epoch
      BY <1>0, <2>1, <3>1, EpochsKept DEF ISwitch
    <3> QED
      BY <1>0, <2>3, <3>1, <3>2, <3>3, SwitchCalm
  <2>5. ASSUME NEW life \in Lives, NEW m, m = Finish(main, job.epoch, life), job' = NoJob,
               main'.gen = m.gen, main'.cleanup = m.cleanup, main'.epoch = m.epoch,
               main'.life = "disabled" => m.life = "disabled" \/ ~job.failed,
               life = "disabled" => main.life = "disabled" \/ ~job.failed
        PROVE  ISwitch'
    <3>1. SameOwner(m, main) /\ m.epoch = main.epoch /\ m.life \in {life, main.life}
      BY <1>0, <2>5, Finished
    <3>2. Owned(main') = Owned(main) /\ main'.epoch = main.epoch
      BY <2>5, <3>1 DEF SameOwner, Owned
    <3>3. main'.life = "disabled" => main.life = "disabled" \/ Owned(main') = None
      BY <2>3, <2>5, <3>1, <3>2
    <3> QED
      BY <1>d, <2>1, <2>5, <3>2, <3>3
  <2>6. CASE job.kind = "dispose"
    <3> DEFINE m == Finish(main, job.epoch, "failed")
    <3>1. m \in Record
      BY <1>0, <2>2, Finished
    <3>2. job' = NoJob /\ main' = IF job.failed THEN m ELSE [m EXCEPT !.disposed = @ \cup {job.lease}]
      BY <1>3, <2>6 DEF AfterCleanup
    <3> HIDE DEF m
    <3>3. main'.gen = m.gen /\ main'.cleanup = m.cleanup /\ main'.epoch = m.epoch /\ main'.life = m.life
      BY <3>1, <3>2 DEF Record
    <3> QED
      BY <2>2, <2>5, <3>2, <3>3 DEF m
  <2>7. CASE job.kind = "shutdown"
    <3> DEFINE l == IF job.failed THEN "failed" ELSE IF main.desired THEN "idle" ELSE "disabled"
    <3>1. main' = Finish(main, job.epoch, l) /\ job' = NoJob
      BY <1>3, <2>7 DEF AfterCleanup
    <3>2. l \in Lives /\ (l = "disabled" => ~job.failed)
      BY <2>2
    <3> HIDE DEF l
    <3> QED
      BY <2>5, <3>1, <3>2
  <2>8. CASE job.kind = "replace" /\ (job.failed \/ main.epoch # job.epoch)
    <3>1. main' = Finish(main, job.epoch, "failed") /\ job' = NoJob
      BY <1>3, <2>8 DEF AfterCleanup
    <3> QED
      BY <2>2, <2>5, <3>1
  <2>9. CASE job.kind = "replace" /\ ~(job.failed \/ main.epoch # job.epoch)
    <3> DEFINE m == Finish(main, job.epoch, main.life)
    <3>1. m \in Record /\ SameOwner(m, main) /\ m.epoch = main.epoch
      BY <1>0, <2>2, Finished
    <3>2. \/ Activate(m) /\ job' = [job EXCEPT !.at = "activation"]
          \/ main' = (IF m.desired THEN m ELSE [m EXCEPT !.life = "disabled"]) /\ job' = NoJob
      BY <1>3, <2>9 DEF AfterCleanup
    <3> HIDE DEF m
    <3>3. CASE Activate(m) /\ job' = [job EXCEPT !.at = "activation"]
      <4>1. main'.epoch = main.epoch /\ main'.life = "activating"
        BY <3>1, <3>3, ActivateStep
      <4>2. job'.epoch = job.epoch /\ job'.at = "activation"
        BY <1>0, <3>3 DEF Jobs
      <4>3. EpochsPast' /\ job.epoch <= main.epoch
        BY <1>0, <2>1, <4>1, EpochsKept DEF ISwitch
      <4> QED
        BY <1>0, <4>1, <4>2, <4>3, SwitchCalm
    <3>4. CASE main' = (IF m.desired THEN m ELSE [m EXCEPT !.life = "disabled"]) /\ job' = NoJob
      <4>1. main'.gen = m.gen /\ main'.cleanup = m.cleanup /\ main'.epoch = m.epoch
        BY <3>1, <3>4 DEF Record
      <4> QED
        BY <2>2, <2>5, <2>9, <3>4, <4>1 DEF m
    <3> QED
      BY <3>2, <3>3, <3>4
  <2> QED
    BY <1>3, <2>4, <2>6, <2>7, <2>8, <2>9 DEF AfterCleanup
<1>4. CASE AfterReconcile
  <2> DEFINE l == IF job.failed THEN "failed" ELSE "disabled"
             m == [main EXCEPT !.phase = "stable", !.intent = FALSE, !.life = l]
  <2>1. m \in Record /\ SameOwner(m, main) /\ m.epoch = main.epoch /\ (m.life = "disabled" => ~job.failed)
    <3>1. l \in Lives
      BY DEF Lives
    <3>2. l = "disabled" => ~job.failed
      OBVIOUS
    <3> HIDE DEF l
    <3> QED
      BY <1>0, <3>1, <3>2 DEF Record, Phases, SameOwner
  <2>2. job.kind \in {"enable", "disable", "setting"} /\ main.gen = None /\ (job.failed \/ main.cleanup = None)
    BY <1>4 DEF IRegistry, AfterReconcile
  <2>3. SameOwner(PersistThrows(m), m) /\ PersistThrows(m).epoch = m.epoch /\ PersistThrows(m).life \in {m.life, "failed"}
    BY <2>1, <2>2, ThrownStep
  <2>4. \/ main' = m /\ job' = [job EXCEPT !.at = "persisted"] /\ ~job.failed
        \/ main' = PersistThrows(m) /\ job' = NoJob
    BY <1>4 DEF AfterReconcile
  <2> HIDE DEF m
  <2>5. /\ SameOwner(main', main) /\ main'.epoch = main.epoch
        /\ main'.life = "disabled" => ~job.failed
    BY <2>1, <2>3, <2>4 DEF SameOwner
  <2>6. Owned(main') = Owned(main) /\ (~job.failed => Owned(main') = None)
    BY <2>2, <2>5 DEF SameOwner, Owned
  <2>7. UNCHANGED queue
    BY <1>4 DEF AfterReconcile
  <2>8. CASE job' = NoJob
    BY <1>d, <2>5, <2>6, <2>7, <2>8
  <2>9. CASE job' = [job EXCEPT !.at = "persisted"] /\ ~job.failed
    <3>1. job'.epoch = job.epoch
      BY <1>0, <2>9 DEF Jobs
    <3>2. EpochsPast' /\ job.epoch <= main.epoch
      BY <1>0, <2>5, <2>7, EpochsKept DEF ISwitch
    <3> QED
      BY <1>0, <2>5, <2>6, <2>9, <3>1, <3>2, SwitchCalm
  <2> QED
    BY <2>4, <2>8, <2>9
<1>5. CASE AfterPersist
  <2>1. job.at = "persisted" /\ job.kind \in {"enable", "disable", "setting"} /\ UNCHANGED queue /\ job' = NoJob
    BY <1>5 DEF IRegistry, AfterPersist
  <2>2. CASE job.kind = "setting"
    <3>1. main' = main
      BY <1>5, <2>2 DEF AfterPersist
    <3> QED
      BY <1>d, <2>1, <3>1
  <2>3. ASSUME NEW l \in Lives, main' = Finish(main, job.epoch, l),
               main.epoch = job.epoch /\ l = "disabled" => main.life = "disabled" \/ Owned(main) = None
        PROVE  ISwitch'
    <3>1. /\ SameOwner(main', main) /\ main'.epoch = main.epoch
          /\ main.epoch = job.epoch => main'.life = l
          /\ main.epoch # job.epoch => main' = main
      BY <1>0, <2>3, Finished
    <3>2. Owned(main') = Owned(main)
      BY <3>1, OwnedAlike
    <3>3. main'.life = "disabled" => main.life = "disabled" \/ Owned(main') = None
      BY <2>3, <3>1, <3>2
    <3> QED
      BY <1>d, <2>1, <3>1, <3>2, <3>3
  <2>4. CASE job.kind = "enable"
    <3> DEFINE l == IF ~main.desired \/ main.cleanup # None THEN "failed"
                    ELSE IF main.gen = None THEN "idle" ELSE main.life
    <3>1. main' = Finish(main, job.epoch, l)
      BY <1>5, <2>4 DEF AfterPersist
    <3>2. l \in Lives /\ (l = "disabled" => main.life = "disabled")
      BY <1>0 DEF Record, Lives
    <3> HIDE DEF l
    <3> QED
      BY <2>3, <3>1, <3>2
  <2>5. CASE job.kind = "disable"
    <3> DEFINE l == IF job.failed \/ main.desired THEN "failed" ELSE "disabled"
    <3>1. main' = Finish(main, job.epoch, l)
      BY <1>5, <2>5 DEF AfterPersist
    <3>2. l \in Lives /\ (l = "disabled" => ~job.failed /\ ~main.desired)
      BY DEF Lives
    <3> HIDE DEF l
    <3>3. main.epoch = job.epoch /\ l = "disabled" => Owned(main) = None
      BY <2>1, <2>5, <3>2 DEF ISwitch
    <3> QED
      BY <2>3, <3>1, <3>2, <3>3
  <2> QED
    BY <2>1, <2>2, <2>4, <2>5
<1>6. ASSUME NEW g \in Gens, ForgetOpen(g) PROVE ISwitch'
  <2>1. UNCHANGED queue /\ job' \in {job, NoJob} /\ main' \in {main, Disown(main)}
    BY <1>6 DEF ForgetOpen
  <2>2. /\ Owned(main') = Owned(main) /\ main'.epoch = main.epoch /\ main'.life = main.life
        /\ main'.phase = main.phase /\ main'.desired = main.desired
    BY <1>0, <2>1, Disowned
  <2>3. CASE job' = NoJob
    BY <1>d, <2>1, <2>2, <2>3
  <2>4. CASE job' = job
    <3>1. EpochsPast'
      BY <1>0, <2>1, <2>2, EpochsKept
    <3> QED
      BY <1>0, <2>2, <2>4, <3>1, SwitchCalm
  <2> QED
    BY <2>1, <2>3, <2>4
<1>7. CASE Enable
  <2> DEFINE m == IF main.desired /\ main.phase = "stable" THEN main
                  ELSE BeginTransition(main, "enabling", TRUE, FALSE)
  <2>1. m \in Record /\ SameOwner(m, main) /\ m.life = main.life /\ (m = main \/ m.epoch = main.epoch + 1)
    <3>1. "enabling" \in Phases /\ TRUE \in BOOLEAN /\ FALSE \in BOOLEAN
      BY DEF Phases
    <3> DEFINE b == BeginTransition(main, "enabling", TRUE, FALSE)
    <3>2. b \in Record /\ SameOwner(b, main) /\ b.epoch = main.epoch + 1 /\ b.life = main.life
      BY <1>0, <3>1, Begun
    <3>3. SameOwner(main, main) /\ m \in {main, b}
      BY DEF SameOwner
    <3> HIDE DEF b, m
    <3> QED
      BY <1>0, <3>2, <3>3
  <2>2. main' = m /\ Enqueue("enable", m.epoch, None) /\ job' = job
    BY <1>7 DEF Enable
  <2> HIDE DEF m
  <2>3. m.epoch \in Nat /\ "enable" \in Kinds /\ None \in Gens \cup {None} /\ m.epoch >= main.epoch /\ m.epoch <= m.epoch
    BY <1>0, <2>1 DEF Record, Kinds
  <2>4. EpochsPast'
    BY <2>2, <2>3, EpochEnqueued
  <2>5. Owned(main') = Owned(main)
    BY <2>1, <2>2, OwnedAlike
  <2>6. main'.epoch = main.epoch => main' = main
    BY <1>0, <2>1, <2>2
  <2> QED
    BY <2>1, <2>2, <2>3, <2>4, <2>5, <2>6, SwitchCalm
<1>8. ASSUME NEW kind \in Kinds, NEW phase \in Phases, NEW intent \in BOOLEAN, NEW life \in Lives,
             life = "disabled" => main.life = "disabled", FencedCall(kind, phase, intent, life)
      PROVE  ISwitch'
  <2>1. /\ SameOwner(main', main) /\ main'.epoch = main.epoch + 1 /\ main'.epoch \in Nat /\ main'.life = life
        /\ Enqueue(kind, main'.epoch, None) /\ job' = job
    BY <1>8, FencedStep
  <2>2. main'.epoch >= main.epoch /\ main'.epoch <= main'.epoch /\ main'.epoch # main.epoch /\ None \in Gens \cup {None}
    BY <1>0, <2>1
  <2>3. EpochsPast'
    BY <2>1, <2>2, EpochEnqueued
  <2>4. Owned(main') = Owned(main)
    BY <2>1, OwnedAlike
  <2> QED
    BY <1>8, <2>1, <2>2, <2>3, <2>4, SwitchCalm
<1>9. CASE Disable
  <2>1. FALSE \in BOOLEAN /\ "disable" \in Kinds /\ "disabling" \in Phases /\ "deactivating" \in Lives
    BY DEF Kinds, Phases, Lives
  <2> QED
    BY <1>8, <1>9, <2>1 DEF Disable
<1>10. CASE Replace
  <2>1. TRUE \in BOOLEAN /\ "replace" \in Kinds /\ "replacing" \in Phases /\ "deactivating" \in Lives
    BY DEF Kinds, Phases, Lives
  <2> QED
    BY <1>8, <1>10, <2>1 DEF Replace
<1>11. CASE Shutdown
  <2> DEFINE life == IF Owned(main) = None THEN main.life ELSE "deactivating"
  <2>1. /\ main.desired \in BOOLEAN /\ "shutdown" \in Kinds /\ "shutting-down" \in Phases /\ life \in Lives
        /\ life = "disabled" => main.life = "disabled"
    BY <1>0 DEF Kinds, Phases, Lives, Record
  <2>2. FencedCall("shutdown", "shutting-down", main.desired, life)
    BY <1>11 DEF Shutdown
  <2> HIDE DEF life
  <2> QED
    BY <1>8, <2>1, <2>2
<1>12. ASSUME NEW kind \in Kinds, NEW lease \in Gens \cup {None}, Enqueue(kind, 0, lease), UNCHANGED <<main, job>>
       PROVE  ISwitch'
  <2>1. 0 \in Nat /\ 0 <= main'.epoch /\ main'.epoch >= main.epoch
    BY <1>0, <1>12
  <2>2. EpochsPast'
    BY <1>12, <2>1, EpochEnqueued
  <2> QED
    BY <1>12, <2>1, <2>2, SwitchCalm
<1>13. CASE SetSetting
  <2>1. "setting" \in Kinds /\ None \in Gens \cup {None}
    BY DEF Kinds
  <2> QED
    BY <1>12, <1>13, <2>1 DEF SetSetting
<1>14. CASE Trigger
  <2>1. /\ Activate(main) /\ UNCHANGED <<queue, job>> /\ main.phase = "stable" /\ job.at # "persisted"
    BY <1>14 DEF Trigger, ActivationAllowed, Busy
  <2>2. SameOwner(main, main)
    BY DEF SameOwner
  <2>3. main'.epoch = main.epoch /\ main'.life = "activating" /\ main'.phase = main.phase
    BY <1>0, <2>1, <2>2, ActivateStep
  <2>4. EpochsPast' /\ job.epoch <= main.epoch
    BY <1>0, <2>1, <2>3, EpochsKept DEF ISwitch
  <2> QED
    BY <1>0, <2>1, <2>3, <2>4, SwitchCalm
<1>15. CASE DiskAnswers
  <2>1. job.at = "persist" /\ job.kind \in {"enable", "disable", "setting"} /\ UNCHANGED queue
    BY <1>15 DEF DiskAnswers, IRegistry
  <2>2. CASE main' = PersistThrows(main) /\ job' = NoJob
    <3>1. SameOwner(main', main) /\ main'.epoch = main.epoch /\ main'.life \in {main.life, "failed"}
      BY <1>0, <2>1, <2>2, ThrownStep
    <3>2. Owned(main') = Owned(main)
      BY <3>1, OwnedAlike
    <3> QED
      BY <1>d, <2>1, <2>2, <3>1, <3>2
  <2>3. ASSUME NEW switch \in BOOLEAN, Written(switch)
        PROVE  ISwitch'
    <3>1. CASE WrittenOff(switch)
      <4>1. /\ Owned(main') = Owned(main) /\ main'.epoch = main.epoch + 1 /\ main'.life = "deactivating"
            /\ job'.epoch = job.epoch /\ job'.at \in {"reconcile", "reconciled"} /\ job' \in Jobs
        BY <2>3, <3>1, WrittenOffStep
      <4>2. main'.epoch >= main.epoch /\ job'.epoch <= main'.epoch
        BY <1>0, <4>1 DEF ISwitch
      <4>3. EpochsPast'
        BY <2>1, <4>2, EpochsKept
      <4> QED
        BY <1>e, <4>1, <4>2, <4>3
    <3>2. CASE WrittenOn(switch) /\ (switch \/ Owned(main) = None \/ OwnDisable)
      <4>1. /\ SameOwner(main', main) /\ main'.epoch = main.epoch /\ main'.phase = main.phase /\ main'.desired = switch
            /\ \/ main'.life = main.life
               \/ Owned(main) = None /\ main'.life \in {"idle", "disabled"}
            /\ job' = [job EXCEPT !.at = "persisted"]
        BY <2>3, <3>2, WrittenOnStep
      <4>2. Owned(main') = Owned(main)
        BY <4>1, OwnedAlike
      <4>3. job'.epoch = job.epoch /\ job'.kind = job.kind /\ job'.failed = job.failed /\ job'.at = "persisted"
        BY <1>0, <4>1 DEF Jobs
      <4>4. EpochsPast' /\ job.epoch <= main.epoch
        BY <1>0, <2>1, <4>1, EpochsKept DEF ISwitch
      <4>5. job.kind = "disable" /\ ~job.failed /\ main.epoch = job.epoch /\ ~switch => Owned(main) = None
        BY <2>1, <3>2 DEF ISwitch, OwnDisable
      <4> QED
        BY <1>0, <4>1, <4>2, <4>3, <4>4, <4>5, SwitchCalm
    <3> QED
      BY <2>3, <3>1, <3>2 DEF Written
  <2>4. \/ main' = PersistThrows(main) /\ job' = NoJob
        \/ \E switch \in BOOLEAN : Written(switch)
    BY <1>15, DiskStep
  <2> QED
    BY <2>2, <2>3, <2>4
<1>16. CASE AckArrives
  <2>1. /\ UNCHANGED queue /\ job' \in {job, NoJob}
        /\ main' = main \/ main' = [main EXCEPT !.life = "active"]
    BY <1>16 DEF AckArrives
  <2>2. /\ Owned(main') = Owned(main) /\ main'.epoch = main.epoch /\ main'.life \in {main.life, "active"}
        /\ main'.phase = main.phase /\ main'.desired = main.desired
    BY <1>0, <2>1 DEF Record, Owned
  <2>3. CASE job' = NoJob
    BY <1>d, <2>1, <2>2, <2>3
  <2>4. CASE job' = job
    <3>1. EpochsPast'
      BY <1>0, <2>1, <2>2, EpochsKept
    <3> QED
      BY <1>0, <2>2, <2>4, <3>1, SwitchCalm
  <2> QED
    BY <2>1, <2>3, <2>4
<1>17. CASE CleanupTimesOut
  BY <1>c, <1>17 DEF CleanupTimesOut
<1>18. CASE RequestTimesOut
  BY <1>c, <1>18 DEF RequestTimesOut, registry
<1>19. CASE Navigate \/ PageReady
  <2>1. UNCHANGED <<main, job>> /\ queue' = queue \o Disposals(leases)
    BY <1>19 DEF Navigate, PageReady
  <2>2. EpochsPast'
    BY <2>1, EpochDisposals
  <2> QED
    BY <1>0, <2>1, <2>2, SwitchCalm
<1>20. CASE TakeOpen \/ TakeClose
  BY <1>c, <1>20 DEF TakeOpen, TakeClose, registry
<1>21. ASSUME NEW g \in Gens, PluginStarted(g) \/ HostReleased(g) PROVE ISwitch'
  BY <1>c, <1>21 DEF PluginStarted, HostReleased, registry
<1>22. ASSUME NEW g \in Gens, Detach(g) PROVE ISwitch'
  <2>1. "dispose" \in Kinds /\ g \in Gens \cup {None}
    BY DEF Kinds
  <2> QED
    BY <1>12, <1>22, <2>1 DEF Detach
<1>23. CASE UNCHANGED vars
  BY <1>c, <1>23 DEF vars
<1> QED
  BY <1>1, <1>2, <1>3, <1>4, <1>5, <1>6, <1>7, <1>9, <1>10, <1>11, <1>13, <1>14, <1>15, <1>16,
     <1>17, <1>18, <1>19, <1>20, <1>21, <1>22, <1>23 DEF Next, Drain, Timers

-----------------------------------------------------------------------------
(***************************************************************************)
(* The leases: what "active" says.                                         *)
(***************************************************************************)
OpenOf(waiting, g) == \E p \in waiting : p.act = "open" /\ p.gen = g
Disposing(ops, g) == \E i \in 1..Len(ops) : ops[i].kind = "dispose" /\ ops[i].lease = g

\* No request, answer or disposal is of a generation not yet counted.
ICounted ==
    /\ \A g \in main.disposed \cup forget : g <= main.count
    /\ \A p \in pending : p.gen <= main.count /\ (p.act = "open" => p.try = 0)
    /\ \A i \in 1..Len(toWindow) : toWindow[i].gen <= main.count
    /\ \A i \in 1..Len(toMain) : toMain[i].ack = "opened" => toMain[i].gen <= main.count

\* The generation there is has not been disposed of and nobody closes it; an
\* answer that it is open is true still; while its open waits, and once it is
\* active, the bridge holds its lease and has not given it up; once it is active
\* no open of it waits, and it runs, or its page is gone or its disposal queued.
ICurrent == main.gen # None =>
    /\ main.gen \notin main.disposed
    /\ \A p \in pending : p.act = "close" => p.gen # main.gen
    /\ \A i \in 1..Len(toWindow) : toWindow[i].act = "close" => toWindow[i].gen # main.gen
    /\ \A i \in 1..Len(toMain) : toMain[i].ack = "opened" /\ toMain[i].gen = main.gen => host[main.gen] = "active"
    /\ main.life = "active" \/ OpenOf(pending, main.gen) => main.gen \in leases \ forget
    /\ main.life = "active" => ~OpenOf(pending, main.gen)
    /\ main.life = "active" /\ page => host[main.gen] = "active" \/ Disposing(queue, main.gen)

\* At the start there is no generation.
LEMMA LeaseInit == Init => ICounted /\ ICurrent
<1>1. \A i \in 1..Len(<<>>) : FALSE
  BY EmptySeq
<1> QED
  BY <1>1 DEF Init, ICounted, ICurrent

\* What a step adds is of a generation counted by then.
LEMMA CountedCalm ==
  ASSUME ITyped, ICounted, main'.count \in {main.count, main.count + 1},
         \A g \in main'.disposed : g \in main.disposed \/ g <= main'.count,
         \A g \in forget' : g \in forget \/ g <= main'.count,
         \A p \in pending' : p \in pending \/ (p.gen <= main'.count /\ (p.act = "open" => p.try = 0)),
         \A i \in 1..Len(toWindow') :
            (\E k \in 1..Len(toWindow) : toWindow'[i] = toWindow[k]) \/ toWindow'[i].gen <= main'.count,
         \A i \in 1..Len(toMain') : toMain'[i].ack = "opened" =>
            (\E k \in 1..Len(toMain) : toMain'[i] = toMain[k]) \/ toMain'[i].gen <= main'.count
  PROVE  ICounted'
<1>0. main.count \in Nat
  BY BoundsAssumption DEF ITyped, TypeOK, Record
<1>1. \A g \in Nat : g <= main.count => g <= main'.count
  BY <1>0
<1>2. /\ main.disposed \cup forget \subseteq Nat
      /\ \A p \in pending : p.gen \in Nat
      /\ \A i \in 1..Len(toWindow) : toWindow[i].gen \in Nat
      /\ \A i \in 1..Len(toMain) : toMain[i].gen \in Nat
  <2>1. Gens \subseteq Nat
    BY DEF Gens
  <2>2. main.disposed \cup forget \subseteq Gens
    BY DEF ITyped, TypeOK, Record
  <2>3. \A p \in pending : p.gen \in Gens
    BY DEF ITyped, TypeOK, Requests
  <2>4. \A i \in 1..Len(toWindow) : toWindow[i] \in Requests
    BY ElementOfSeq DEF ITyped, TypeOK
  <2>5. \A i \in 1..Len(toMain) : toMain[i] \in Acks
    BY ElementOfSeq DEF ITyped, TypeOK
  <2>6. /\ \A i \in 1..Len(toWindow) : toWindow[i].gen \in Gens
        /\ \A i \in 1..Len(toMain) : toMain[i].gen \in Gens
    BY <2>4, <2>5 DEF Requests, Acks
  <2> QED
    BY <2>1, <2>2, <2>3, <2>6
<1>3. \A g \in main'.disposed \cup forget' : g <= main'.count
  BY <1>1, <1>2 DEF ICounted
<1>4. \A p \in pending' : p.gen <= main'.count /\ (p.act = "open" => p.try = 0)
  BY <1>1, <1>2 DEF ICounted
<1>5. \A i \in 1..Len(toWindow') : toWindow'[i].gen <= main'.count
  BY <1>1, <1>2 DEF ICounted
<1>6. \A i \in 1..Len(toMain') : toMain'[i].ack = "opened" => toMain'[i].gen <= main'.count
  BY <1>1, <1>2 DEF ICounted
<1> QED
  BY <1>3, <1>4, <1>5, <1>6 DEF ICounted

\* A step that keeps the generation, and takes nothing from it that it needs.
LEMMA LeaseCalm ==
  ASSUME ITyped, ICounted, ICurrent,
         main'.gen = main.gen, main'.count = main.count, main'.disposed = main.disposed,
         pending' \subseteq pending, forget' \subseteq forget \cup {p.gen : p \in pending},
         \A i \in 1..Len(toWindow') : \E k \in 1..Len(toWindow) : toWindow'[i] = toWindow[k],
         \A i \in 1..Len(toMain') : toMain'[i].ack = "opened" =>
            (\E k \in 1..Len(toMain) : toMain'[i] = toMain[k]) \/ toMain'[i].gen <= main'.count,
         main.gen # None =>
            /\ \A i \in 1..Len(toMain') : toMain'[i].ack = "opened" /\ toMain'[i].gen = main.gen => host'[main.gen] = "active"
            /\ main'.life = "active" \/ OpenOf(pending', main.gen) => main.gen \in leases' \ forget'
            /\ main'.life = "active" => ~OpenOf(pending', main.gen)
            /\ main'.life = "active" /\ page' => host'[main.gen] = "active" \/ Disposing(queue', main.gen)
  PROVE  ICounted' /\ ICurrent'
<1>1. \A g \in forget' : g \in forget \/ g <= main'.count
  BY DEF ICounted
<1>2. ICounted'
  BY <1>1, CountedCalm
<1>3. main.gen # None =>
         /\ main'.gen \notin main'.disposed
         /\ \A p \in pending' : p.act = "close" => p.gen # main'.gen
         /\ \A i \in 1..Len(toWindow') : toWindow'[i].act = "close" => toWindow'[i].gen # main'.gen
  BY DEF ICurrent
<1> QED
  BY <1>2, <1>3 DEF ICurrent

\* A step that lets the generation go, or had none.
LEMMA LeaseEnds ==
  ASSUME ITyped, IRegistry, ICounted, main'.gen = None, main'.count = main.count,
         \A g \in main'.disposed : g \in main.disposed \/ g <= main.count,
         forget' \subseteq forget \cup {main.gen}, NEW waiting, waiting \subseteq pending, UNCHANGED toMain,
         \/ UNCHANGED <<pending, toWindow>>
         \/ Owned(main) # None /\ Trying(Owned(main), waiting)
  PROVE  ICounted' /\ ICurrent'
<1>1. main.gen <= main.count /\ Owned(main) <= main.count
  BY DEF IRegistry, Owned
<1>2. \A g \in forget' : g \in forget \/ g <= main'.count
  BY <1>1
<1>3. \A p \in pending' : p \in pending \/ (p.gen <= main'.count /\ p.act # "open")
  BY <1>1 DEF Trying
<1>4. \A i \in 1..Len(toWindow') :
        (\E k \in 1..Len(toWindow) : toWindow'[i] = toWindow[k]) \/ toWindow'[i].gen <= main'.count
  <2>1. CASE UNCHANGED toWindow
    BY <2>1
  <2>2. CASE \E r \in Requests : r.gen = Owned(main) /\ toWindow' = Append(toWindow, r)
    BY <1>1, <2>2, SentOne
  <2> QED
    BY <2>1, <2>2 DEF Trying
<1>5. \A i \in 1..Len(toMain') : \E k \in 1..Len(toMain) : toMain'[i] = toMain[k]
  OBVIOUS
<1>6. ICounted'
  BY <1>2, <1>3, <1>4, <1>5, CountedCalm
<1> QED
  BY <1>6 DEF ICurrent

\* A generation activated is new, and its open waits unless there is no window.
LEMMA LeaseActivates ==
  ASSUME ITyped, ICounted, NEW m \in Record, SameOwner(m, main), Activate(m), UNCHANGED toMain
  PROVE  ICounted' /\ ICurrent'
<1> DEFINE g == main.count + 1
           open == [act |-> "open", gen |-> g, try |-> 0]
<1>1. /\ g \in Gens /\ open \in Requests
      /\ main'.gen = g /\ main'.count = g /\ main'.disposed = main.disposed /\ main'.life = "activating"
      /\ \/ /\ gone /\ forget' = forget \cup {g} /\ UNCHANGED <<leases, pending, toWindow>>
         \/ /\ ~gone /\ leases' = leases \cup {g} /\ pending' = pending \cup {open}
            /\ toWindow' = Append(toWindow, open) /\ UNCHANGED forget
  BY ActivateStep
<1>2. open.act = "open" /\ open.gen = g /\ open.try = 0
  OBVIOUS
<1>0. main.count \in Nat
  BY BoundsAssumption DEF ITyped, TypeOK, Record
<1>3. g \in Nat /\ g <= g /\ ~(g <= main.count) /\ main'.count = main.count + 1
  BY <1>0, <1>1
<1> HIDE DEF g, open
<1>4. \A i \in 1..Len(toWindow') : (\E k \in 1..Len(toWindow) : toWindow'[i] = toWindow[k]) \/ toWindow'[i] = open
  <2>1. CASE UNCHANGED toWindow
    BY <2>1
  <2>2. CASE toWindow' = Append(toWindow, open)
    BY <1>1, <2>2, SentOne
  <2> QED
    BY <1>1, <2>1, <2>2
<1>5. ICounted'
  <2>1. \A h \in forget' : h \in forget \/ h <= main'.count
    BY <1>1, <1>3
  <2>2. \A p \in pending' : p \in pending \/ (p.gen <= main'.count /\ (p.act = "open" => p.try = 0))
    BY <1>1, <1>2, <1>3
  <2>3. \A i \in 1..Len(toWindow') :
          (\E k \in 1..Len(toWindow) : toWindow'[i] = toWindow[k]) \/ toWindow'[i].gen <= main'.count
    BY <1>1, <1>2, <1>3, <1>4
  <2>4. \A i \in 1..Len(toMain') : \E k \in 1..Len(toMain) : toMain'[i] = toMain[k]
    OBVIOUS
  <2> QED
    BY <1>1, <1>3, <2>1, <2>2, <2>3, <2>4, CountedCalm
<1>6. /\ g \notin main'.disposed
      /\ \A p \in pending' : p.act = "close" => p.gen # g
      /\ \A i \in 1..Len(toWindow') : toWindow'[i].act = "close" => toWindow'[i].gen # g
      /\ \A i \in 1..Len(toMain') : toMain'[i].ack = "opened" => toMain'[i].gen # g
  BY <1>1, <1>2, <1>3, <1>4 DEF ICounted
<1>7. OpenOf(pending', g) => g \in leases' \ forget'
  BY <1>1, <1>2, <1>3 DEF OpenOf, ICounted
<1> QED
  BY <1>1, <1>5, <1>6, <1>7 DEF ICurrent

\* One operation more disposes of what the others do.
LEMMA DisposingEnqueued ==
  ASSUME ITyped, NEW kind \in Kinds, NEW epoch \in Nat, NEW lease \in Gens \cup {None},
         Enqueue(kind, epoch, lease), NEW g, Disposing(queue, g)
  PROVE  Disposing(queue', g)
<1>1. Len(queue') = Len(queue) + 1 /\ \A i \in 1..Len(queue) : queue'[i] = queue[i]
  BY Enqueued
<1>2. Len(queue) \in Nat
  BY LenProperties DEF ITyped, TypeOK
<1> QED
  BY <1>1, <1>2 DEF Disposing

\* One operation less, and it was no disposal of this lease.
LEMMA DisposingDequeued ==
  ASSUME ITyped, queue # <<>>, queue' = Tail(queue), NEW g, Disposing(queue, g),
         Head(queue).kind = "dispose" => Head(queue).lease # g
  PROVE  Disposing(queue', g)
<1>1. PICK i \in 1..Len(queue) : queue[i].kind = "dispose" /\ queue[i].lease = g
  BY DEF Disposing
<1>2. Len(queue') = Len(queue) - 1 /\ Head(queue) = queue[1]
      /\ \A k \in 1..Len(queue') : queue'[k] = queue[k + 1]
  BY Dequeued
<1>3. i # 1 /\ Len(queue) \in Nat
  BY <1>1, <1>2, LenProperties DEF ITyped, TypeOK
<1>4. i - 1 \in 1..Len(queue') /\ (i - 1) + 1 = i
  BY <1>2, <1>3
<1>5. queue'[i - 1] = queue[i]
  BY <1>2, <1>4
<1> QED
  BY <1>1, <1>4, <1>5 DEF Disposing

\* The disposals of a page's leases come behind those queued.
LEMMA DisposingAll ==
  ASSUME ITyped, queue' = queue \o Disposals(leases)
  PROVE  \A g : Disposing(queue, g) \/ g \in leases => Disposing(queue', g)
  BY DisposalsQueued DEF Disposing

\* Every step keeps the leases.
LEMMA LeaseStep ==
  ITyped /\ IRegistry /\ IRegistry' /\ IWindow /\ ICounted /\ ICurrent /\ [Next]_vars => ICounted' /\ ICurrent'
<1> SUFFICES ASSUME ITyped, IRegistry, IRegistry', IWindow, ICounted, ICurrent, [Next]_vars
             PROVE  ICounted' /\ ICurrent'
  OBVIOUS
<1>0. /\ main \in Record /\ job \in Jobs /\ attempt \in Attempts
      /\ host \in [Gens -> {"none", "queued", "starting", "active", "closing", "held", "closed"}]
      /\ main.gen # None => main.gen \in Gens
  BY DEF ITyped, TypeOK, Record
\* Nothing but the record and the queue.
<1>a. ASSUME main'.gen = main.gen, main'.count = main.count, main'.disposed = main.disposed,
             main.gen # None /\ main'.life = "active" => main.life = "active",
             UNCHANGED <<leases, forget, pending, wires, page, host>>,
             main.gen # None /\ Disposing(queue, main.gen) => Disposing(queue', main.gen)
      PROVE  ICounted' /\ ICurrent'
  <2>1. UNCHANGED <<toWindow, toMain>>
    BY <1>a DEF wires
  <2>2. /\ \A i \in 1..Len(toWindow') : \E k \in 1..Len(toWindow) : toWindow'[i] = toWindow[k]
        /\ \A i \in 1..Len(toMain') : \E k \in 1..Len(toMain) : toMain'[i] = toMain[k]
    BY <2>1
  <2>3. main.gen # None =>
            /\ \A i \in 1..Len(toMain') : toMain'[i].ack = "opened" /\ toMain'[i].gen = main.gen => host'[main.gen] = "active"
            /\ main'.life = "active" \/ OpenOf(pending', main.gen) => main.gen \in leases' \ forget'
            /\ main'.life = "active" => ~OpenOf(pending', main.gen)
            /\ main'.life = "active" /\ page' => host'[main.gen] = "active" \/ Disposing(queue', main.gen)
    BY <1>a, <2>1 DEF ICurrent
  <2> QED
    BY <1>a, <2>2, <2>3, LeaseCalm
\* A cleanup begun, or not needed.
<1>b. ASSUME main'.gen = None, main'.count = main.count, main'.disposed = main.disposed, UNCHANGED toMain,
             \/ UNCHANGED <<forget, pending, toWindow>>
             \/ /\ Owned(main) # None /\ Trying(Owned(main), pending \ OpensOf({main.gen})) /\ Abort
      PROVE  ICounted' /\ ICurrent'
  <2>1. forget' \subseteq forget \cup {main.gen}
    BY <1>b, Aborted
  <2>2. pending \ OpensOf({main.gen}) \subseteq pending
    OBVIOUS
  <2> QED
    BY <1>b, <2>1, <2>2, LeaseEnds
\* Nothing is owned but a cleanup, and nothing is sent.
<1>c. ASSUME main'.gen = None, main'.count = main.count, UNCHANGED <<forget, pending, wires>>,
             \A g \in main'.disposed : g \in main.disposed \/ g <= main.count
      PROVE  ICounted' /\ ICurrent'
  <2>1. UNCHANGED <<toWindow, toMain>> /\ forget' \subseteq forget \cup {main.gen} /\ pending \subseteq pending
    BY <1>c DEF wires
  <2> QED
    BY <1>c, <2>1, LeaseEnds
<1>d. SameOwner(main', main) => main'.gen = main.gen /\ main'.count = main.count /\ main'.disposed = main.disposed
  BY DEF SameOwner
<1>1. CASE StartJob
  <2> DEFINE op == Head(queue)
             j == [kind |-> op.kind, epoch |-> op.epoch, lease |-> op.lease, at |-> "persist", failed |-> FALSE]
  <2>1. op \in Operations /\ queue # <<>> /\ queue' = Tail(queue)
    BY <1>1, Dequeued DEF StartJob, CanStart
  <2>2. /\ UNCHANGED <<toMain, window>>
        /\ \/ UNCHANGED <<main, bridge, toWindow>> /\ op.kind # "dispose"
           \/ UNCHANGED <<main, bridge, toWindow>> /\ (op.lease \in main.disposed \/ Owned(main) # op.lease)
           \/ CleanUp(main, j, "cleanup", "cleaned")
           \/ LET m == BeginTransition(main, "disposed", main.desired, TRUE)
              IN  CleanUp([m EXCEPT !.life = "deactivating"],
                          [j EXCEPT !.epoch = m.epoch], "cleanup", "cleaned")
    BY <1>1 DEF StartJob
  <2>3. j \in Jobs
    BY <2>1 DEF Operations, Jobs
  <2> HIDE DEF j
  <2>4. CASE /\ UNCHANGED <<main, bridge, toWindow>>
             /\ op.kind # "dispose" \/ op.lease \in main.disposed \/ Owned(main) # op.lease
    <3>1. main.gen # None => (op.kind = "dispose" => op.lease # main.gen)
      BY <2>4 DEF ICurrent, Owned
    <3>2. main.gen # None /\ Disposing(queue, main.gen) => Disposing(queue', main.gen)
      BY <2>1, <3>1, DisposingDequeued
    <3> QED
      BY <1>a, <2>2, <2>4, <3>2 DEF bridge, wires, window
  <2>5. CASE CleanUp(main, j, "cleanup", "cleaned")
    <3>1. SameOwner(main, main)
      BY DEF SameOwner
    <3>2. /\ main'.gen = None /\ main'.count = main.count /\ main'.disposed = main.disposed
          /\ \/ UNCHANGED <<forget, pending, toWindow>>
             \/ Owned(main) # None /\ Trying(Owned(main), pending \ OpensOf({main.gen})) /\ Abort
      BY <1>0, <2>3, <2>5, <3>1, CleanStep
    <3> QED
      BY <1>b, <2>2, <3>2
  <2>6. CASE LET m == BeginTransition(main, "disposed", main.desired, TRUE)
             IN  CleanUp([m EXCEPT !.life = "deactivating"],
                         [j EXCEPT !.epoch = m.epoch], "cleanup", "cleaned")
    <3>1. /\ main'.gen = None /\ main'.count = main.count /\ main'.disposed = main.disposed
          /\ \/ UNCHANGED <<forget, pending, toWindow>>
             \/ Owned(main) # None /\ Trying(Owned(main), pending \ OpensOf({main.gen})) /\ Abort
      BY <2>3, <2>6, DisposeStep
    <3> QED
      BY <1>b, <2>2, <3>1
  <2> QED
    BY <2>2, <2>4, <2>5, <2>6
<1>2. CASE SettleAttempt
  <2>1. attempt.gen # None /\ main.gen = None
    BY <1>2 DEF SettleAttempt, IRegistry
  <2>2. main'.gen = main.gen /\ main'.count = main.count /\ main'.disposed = main.disposed
    BY <1>0, <1>2 DEF SettleAttempt, Record
  <2> QED
    BY <1>2, <1>c, <2>1, <2>2 DEF SettleAttempt, bridge
<1>3. CASE AfterCleanup
  <2>1. UNCHANGED <<toMain, window, queue>> /\ job.at = "cleaned" /\ main.gen = None
    BY <1>3 DEF AfterCleanup, IRegistry
  <2>2. {"failed", "idle", "disabled", main.life} \subseteq Lives /\ main.desired \in BOOLEAN
    BY <1>0 DEF Lives, Record
  <2>3. ASSUME NEW life \in Lives, NEW m, m = Finish(main, job.epoch, life), UNCHANGED <<bridge, toWindow>>,
               main'.gen = m.gen, main'.count = m.count,
               \A g \in main'.disposed : g \in m.disposed \/ g <= main.count
        PROVE  ICounted' /\ ICurrent'
    <3>1. SameOwner(m, main)
      BY <1>0, <2>3, Finished
    <3>2. main'.gen = None /\ main'.count = main.count
          /\ \A g \in main'.disposed : g \in main.disposed \/ g <= main.count
      BY <2>1, <2>3, <3>1 DEF SameOwner
    <3> QED
      BY <1>c, <2>1, <2>3, <3>2 DEF wires, bridge
  <2>4. CASE job.kind = "disable"
    <3>1. UNCHANGED <<main, bridge, toWindow>>
      BY <1>3, <2>4 DEF AfterCleanup
    <3> QED
      BY <1>c, <2>1, <3>1 DEF wires, bridge
  <2>5. CASE job.kind = "dispose"
    <3> DEFINE m == Finish(main, job.epoch, "failed")
    <3>1. m \in Record /\ job.lease <= main.count
      BY <1>0, <2>2, <2>5, Finished DEF IRegistry
    <3>2. UNCHANGED <<bridge, toWindow>> /\ main' = IF job.failed THEN m ELSE [m EXCEPT !.disposed = @ \cup {job.lease}]
      BY <1>3, <2>5 DEF AfterCleanup
    <3> HIDE DEF m
    <3>3. main'.gen = m.gen /\ main'.count = m.count /\ main'.disposed \subseteq m.disposed \cup {job.lease}
      BY <3>1, <3>2 DEF Record
    <3>4. \A g \in main'.disposed : g \in m.disposed \/ g <= main.count
      BY <3>1, <3>3
    <3> QED
      BY <2>2, <2>3, <3>2, <3>3, <3>4 DEF m
  <2>6. CASE job.kind = "shutdown"
    <3> DEFINE l == IF job.failed THEN "failed" ELSE IF main.desired THEN "idle" ELSE "disabled"
    <3>1. main' = Finish(main, job.epoch, l) /\ UNCHANGED <<bridge, toWindow>>
      BY <1>3, <2>6 DEF AfterCleanup
    <3>2. l \in Lives
      BY <2>2
    <3> HIDE DEF l
    <3> QED
      BY <2>3, <3>1, <3>2
  <2>7. CASE job.kind = "replace" /\ (job.failed \/ main.epoch # job.epoch)
    <3>1. main' = Finish(main, job.epoch, "failed") /\ UNCHANGED <<bridge, toWindow>>
      BY <1>3, <2>7 DEF AfterCleanup
    <3> QED
      BY <2>2, <2>3, <3>1
  <2>8. CASE job.kind = "replace" /\ ~(job.failed \/ main.epoch # job.epoch)
    <3> DEFINE m == Finish(main, job.epoch, main.life)
    <3>1. m \in Record /\ SameOwner(m, main)
      BY <1>0, <2>2, Finished
    <3>2. \/ Activate(m)
          \/ main' = (IF m.desired THEN m ELSE [m EXCEPT !.life = "disabled"]) /\ UNCHANGED <<bridge, toWindow>>
      BY <1>3, <2>8 DEF AfterCleanup
    <3> HIDE DEF m
    <3>3. CASE Activate(m)
      BY <2>1, <3>1, <3>3, LeaseActivates
    <3>4. CASE main' = (IF m.desired THEN m ELSE [m EXCEPT !.life = "disabled"]) /\ UNCHANGED <<bridge, toWindow>>
      <4>1. main'.gen = m.gen /\ main'.count = m.count /\ main'.disposed = m.disposed
        BY <3>1, <3>4 DEF Record
      <4> QED
        BY <2>2, <2>3, <3>4, <4>1 DEF m
    <3> QED
      BY <3>2, <3>3, <3>4
  <2> QED
    BY <1>3, <2>4, <2>5, <2>6, <2>7, <2>8 DEF AfterCleanup
<1>4. CASE AfterReconcile
  <2> DEFINE l == IF job.failed THEN "failed" ELSE "disabled"
             m == [main EXCEPT !.phase = "stable", !.intent = FALSE, !.life = l]
  <2>1. m \in Record /\ SameOwner(m, main)
    <3>1. l \in Lives
      BY DEF Lives
    <3> HIDE DEF l
    <3> QED
      BY <1>0, <3>1 DEF Record, Phases, SameOwner
  <2>2. job.kind \in {"enable", "disable", "setting"} /\ main.gen = None
    BY <1>4 DEF IRegistry, AfterReconcile
  <2>3. SameOwner(PersistThrows(m), m)
    BY <2>1, <2>2, ThrownStep
  <2>4. main' \in {m, PersistThrows(m)} /\ UNCHANGED <<bridge, wires>>
    BY <1>4 DEF AfterReconcile
  <2> HIDE DEF m
  <2>5. SameOwner(main', main)
    BY <2>1, <2>3, <2>4 DEF SameOwner
  <2> QED
    BY <1>c, <1>d, <2>2, <2>4, <2>5 DEF bridge
<1>5. CASE AfterPersist
  <2>1. job.kind \in {"enable", "disable", "setting"} /\ UNCHANGED <<queue, bridge, wires, window>>
    BY <1>5 DEF IRegistry, AfterPersist
  <2>2. \/ main' = main
        \/ \E l \in Lives \ {"active"} : main' = Finish(main, job.epoch, l)
        \/ main' = Finish(main, job.epoch, main.life) /\ main.life \in Lives
    BY <1>0, <1>5, <2>1 DEF AfterPersist, Record, Lives
  <2>3. SameOwner(main', main) /\ (main'.life = "active" => main.life = "active")
    <3>1. CASE main' = main
      BY <3>1 DEF SameOwner
    <3>2. ASSUME NEW l \in Lives, l = "active" => main.life = "active", main' = Finish(main, job.epoch, l)
          PROVE  SameOwner(main', main) /\ (main'.life = "active" => main.life = "active")
      BY <1>0, <3>2, Finished
    <3> QED
      BY <2>2, <3>1, <3>2
  <2> QED
    BY <1>a, <1>d, <2>1, <2>3 DEF bridge, window
<1>6. ASSUME NEW g \in Gens, ForgetOpen(g) PROVE ICounted' /\ ICurrent'
  <2>1. /\ UNCHANGED <<queue, toMain, window>> /\ g \in forget /\ forget' = forget \ {g}
        /\ \/ /\ main' = Disown(main) /\ CanPublish(main, g)
              /\ \E known_ : TryCleanup(g, known_, pending, TRUE)
           \/ UNCHANGED <<main, pending, toWindow>> /\ leases \ {g} \subseteq leases'
    BY <1>6 DEF ForgetOpen
  <2>2. CASE /\ main' = Disown(main) /\ CanPublish(main, g)
             /\ \E known_ : TryCleanup(g, known_, pending, TRUE)
    <3>1. main.gen = g /\ g # None /\ main.cleanup = None /\ Owned(main) = g
      BY <2>2 DEF CanPublish, ActivationAllowed, Gens, None, Owned
    <3>2. main'.gen = None /\ main'.count = main.count /\ main'.disposed = main.disposed
      BY <1>0, <2>2, Disowned
    <3>3. attempt.gen = None /\ TRUE \in BOOLEAN
      BY <3>1 DEF IRegistry
    <3>4. Trying(g, pending)
      BY <2>2, <3>3, TryStep
    <3>5. forget' \subseteq forget \cup {main.gen} /\ pending \subseteq pending
      BY <2>1
    <3> QED
      BY <2>1, <3>1, <3>2, <3>4, <3>5, LeaseEnds
  <2>3. CASE UNCHANGED <<main, pending, toWindow>> /\ leases \ {g} \subseteq leases'
    <3>1. /\ \A i \in 1..Len(toWindow') : \E k \in 1..Len(toWindow) : toWindow'[i] = toWindow[k]
          /\ \A i \in 1..Len(toMain') : \E k \in 1..Len(toMain) : toMain'[i] = toMain[k]
      BY <2>1, <2>3
    <3>2. UNCHANGED <<host, page>> /\ pending' \subseteq pending /\ forget' \subseteq forget \cup {p.gen : p \in pending}
      BY <2>1, <2>3 DEF window
    <3>3. main.gen # None =>
            /\ \A i \in 1..Len(toMain') : toMain'[i].ack = "opened" /\ toMain'[i].gen = main.gen => host'[main.gen] = "active"
            /\ main'.life = "active" \/ OpenOf(pending', main.gen) => main.gen \in leases' \ forget'
            /\ main'.life = "active" => ~OpenOf(pending', main.gen)
            /\ main'.life = "active" /\ page' => host'[main.gen] = "active" \/ Disposing(queue', main.gen)
      BY <2>1, <2>3, <3>2 DEF ICurrent
    <3> QED
      BY <2>3, <3>1, <3>2, <3>3, LeaseCalm
  <2> QED
    BY <2>1, <2>2, <2>3
<1>e. ASSUME NEW kind \in Kinds, NEW epoch \in Nat, NEW lease \in Gens \cup {None}, Enqueue(kind, epoch, lease)
      PROVE  main.gen # None /\ Disposing(queue, main.gen) => Disposing(queue', main.gen)
  BY <1>e, DisposingEnqueued
<1>7. CASE Enable
  <2> DEFINE m == IF main.desired /\ main.phase = "stable" THEN main
                  ELSE BeginTransition(main, "enabling", TRUE, FALSE)
  <2>1. m \in Record /\ SameOwner(m, main) /\ m.life = main.life
    <3>1. "enabling" \in Phases /\ TRUE \in BOOLEAN /\ FALSE \in BOOLEAN
      BY DEF Phases
    <3> DEFINE b == BeginTransition(main, "enabling", TRUE, FALSE)
    <3>2. b \in Record /\ SameOwner(b, main) /\ b.life = main.life
      BY <1>0, <3>1, Begun
    <3>3. SameOwner(main, main) /\ m \in {main, b}
      BY DEF SameOwner
    <3> HIDE DEF b, m
    <3> QED
      BY <1>0, <3>2, <3>3
  <2>2. main' = m /\ Enqueue("enable", m.epoch, None) /\ UNCHANGED <<bridge, wires, window>>
    BY <1>7 DEF Enable
  <2> HIDE DEF m
  <2>3. m.epoch \in Nat /\ "enable" \in Kinds /\ None \in Gens \cup {None}
    BY <2>1 DEF Record, Kinds
  <2>4. main.gen # None /\ Disposing(queue, main.gen) => Disposing(queue', main.gen)
    BY <1>e, <2>2, <2>3
  <2> QED
    BY <1>a, <1>d, <2>1, <2>2, <2>4 DEF bridge, window
<1>8. ASSUME NEW kind \in Kinds, NEW phase \in Phases, NEW intent \in BOOLEAN, NEW life \in Lives,
             life = "active" => main.gen = None, FencedCall(kind, phase, intent, life)
      PROVE  ICounted' /\ ICurrent'
  <2>1. /\ SameOwner(main', main) /\ main'.life = life
        /\ Abort /\ pending' = pending \ OpensOf({main.gen}) /\ UNCHANGED <<leases, wires, window>>
    BY <1>8, FencedStep
  <2>2. pending' \subseteq pending /\ ~OpenOf(pending', main.gen)
    BY <2>1 DEF OpenOf, OpensOf
  <2>3. forget' \subseteq forget \cup {p.gen : p \in pending}
    BY <2>1 DEF Abort, OpensOf
  <2>4. UNCHANGED <<toWindow, toMain, host, page>>
    BY <2>1 DEF wires, window
  <2>5. /\ \A i \in 1..Len(toWindow') : \E k \in 1..Len(toWindow) : toWindow'[i] = toWindow[k]
        /\ \A i \in 1..Len(toMain') : \E k \in 1..Len(toMain) : toMain'[i] = toMain[k]
    BY <2>4
  <2>6. main.gen # None =>
            /\ \A i \in 1..Len(toMain') : toMain'[i].ack = "opened" /\ toMain'[i].gen = main.gen => host'[main.gen] = "active"
            /\ main'.life # "active" /\ ~OpenOf(pending', main.gen)
    BY <1>8, <2>1, <2>2, <2>4 DEF ICurrent
  <2> QED
    BY <1>d, <2>1, <2>2, <2>3, <2>5, <2>6, LeaseCalm
<1>9. CASE Disable
  <2>1. FALSE \in BOOLEAN /\ "disable" \in Kinds /\ "disabling" \in Phases /\ "deactivating" \in Lives
    BY DEF Kinds, Phases, Lives
  <2> QED
    BY <1>8, <1>9, <2>1 DEF Disable
<1>10. CASE Replace
  <2>1. TRUE \in BOOLEAN /\ "replace" \in Kinds /\ "replacing" \in Phases /\ "deactivating" \in Lives
    BY DEF Kinds, Phases, Lives
  <2> QED
    BY <1>8, <1>10, <2>1 DEF Replace
<1>11. CASE Shutdown
  <2> DEFINE life == IF Owned(main) = None THEN main.life ELSE "deactivating"
  <2>1. /\ main.desired \in BOOLEAN /\ "shutdown" \in Kinds /\ "shutting-down" \in Phases /\ life \in Lives
        /\ life = "active" => main.gen = None
    BY <1>0 DEF Kinds, Phases, Lives, Record, Owned
  <2>2. FencedCall("shutdown", "shutting-down", main.desired, life)
    BY <1>11 DEF Shutdown
  <2> HIDE DEF life
  <2> QED
    BY <1>8, <2>1, <2>2
<1>12. ASSUME NEW kind \in Kinds, NEW lease \in Gens \cup {None}, Enqueue(kind, 0, lease),
              UNCHANGED <<main, bridge, wires, window>>
       PROVE  ICounted' /\ ICurrent'
  <2>1. main.gen # None /\ Disposing(queue, main.gen) => Disposing(queue', main.gen)
    BY <1>12, <1>e
  <2> QED
    BY <1>12, <1>a, <2>1 DEF bridge, window
<1>13. CASE SetSetting
  <2>1. "setting" \in Kinds /\ None \in Gens \cup {None}
    BY DEF Kinds
  <2>2. Enqueue("setting", 0, None) /\ UNCHANGED <<main, bridge, wires, window>>
    BY <1>13 DEF SetSetting
  <2> QED
    BY <1>12, <2>1, <2>2
<1>14. CASE Trigger
  <2>1. Activate(main) /\ UNCHANGED toMain /\ SameOwner(main, main)
    BY <1>14 DEF Trigger, SameOwner
  <2> QED
    BY <1>0, <2>1, LeaseActivates
<1>15. CASE DiskAnswers
  <2>1. job.kind \in {"enable", "disable", "setting"} /\ UNCHANGED <<queue, toMain, window>>
    BY <1>15 DEF DiskAnswers, IRegistry
  <2>2. CASE main' = PersistThrows(main) /\ UNCHANGED <<bridge, toWindow>>
    <3>1. SameOwner(main', main) /\ main'.life \in {main.life, "failed"}
      BY <1>0, <2>1, <2>2, ThrownStep
    <3> QED
      BY <1>a, <1>d, <2>1, <2>2, <3>1 DEF bridge, wires, window
  <2>3. ASSUME NEW switch \in BOOLEAN, Written(switch)
        PROVE  ICounted' /\ ICurrent'
    <3>1. CASE WrittenOff(switch)
      <4>1. /\ main'.gen = None /\ main'.count = main.count /\ main'.disposed = main.disposed
            /\ \/ UNCHANGED <<forget, pending, toWindow>>
               \/ Owned(main) # None /\ Trying(Owned(main), pending \ OpensOf({main.gen})) /\ Abort
        BY <2>3, <3>1, WrittenOffStep
      <4> QED
        BY <1>b, <2>1, <4>1
    <3>2. CASE WrittenOn(switch)
      <4>1. /\ SameOwner(main', main) /\ UNCHANGED <<bridge, toWindow>>
            /\ main'.life = main.life \/ main'.life \in {"idle", "disabled"}
        BY <2>3, <3>2, WrittenOnStep
      <4> QED
        BY <1>a, <1>d, <2>1, <4>1 DEF bridge, wires, window
    <3> QED
      BY <2>3, <3>1, <3>2 DEF Written
  <2>4. \/ main' = PersistThrows(main) /\ UNCHANGED <<bridge, toWindow>>
        \/ \E switch \in BOOLEAN : Written(switch)
    BY <1>15, DiskStep
  <2> QED
    BY <2>2, <2>3, <2>4
<1>16. CASE AckArrives
  <2> DEFINE a == Head(toMain)
             act == IF a.ack \in {"opened", "refused"} THEN "open" ELSE "close"
             answered == {p \in pending : p.act = act /\ p.gen = a.gen /\ p.try = a.try}
             current == answered # {} /\ act = "open" /\ CanPublish(main, a.gen)
  <2>1. a \in Acks /\ a = toMain[1] /\ 1 \in 1..Len(toMain)
        /\ \A i \in 1..Len(toMain') : i + 1 \in 1..Len(toMain) /\ toMain'[i] = toMain[i + 1]
    BY <1>16, AckTaken
  <2>2. /\ UNCHANGED <<queue, toWindow, window>> /\ pending' = pending \ answered
        /\ leases' = IF answered # {} /\ a.ack = "closed" THEN leases \ {a.gen} ELSE leases
        /\ forget' = IF answered # {} /\ a.ack = "refused" THEN forget \cup {a.gen} ELSE forget
        /\ main' = IF current /\ a.ack = "opened" THEN [main EXCEPT !.life = "active"] ELSE main
    BY <1>16 DEF AckArrives
  <2>3. /\ main'.gen = main.gen /\ main'.count = main.count /\ main'.disposed = main.disposed
        /\ ~(current /\ a.ack = "opened") => main' = main
    BY <1>0, <2>2 DEF Record
  <2>4. /\ \A i \in 1..Len(toWindow') : \E k \in 1..Len(toWindow) : toWindow'[i] = toWindow[k]
        /\ \A i \in 1..Len(toMain') : \E k \in 1..Len(toMain) : toMain'[i] = toMain[k]
        /\ UNCHANGED <<host, page>>
    BY <2>1, <2>2 DEF window
  <2>5. \A p \in answered : p \in pending /\ p.act = act /\ p.gen = a.gen /\ p.try = a.try
    OBVIOUS
  <2>6. pending' \subseteq pending /\ forget' \subseteq forget \cup {p.gen : p \in pending}
    BY <2>2, <2>5
  <2>7. answered # {} /\ act = "open" => ~OpenOf(pending', a.gen)
    <3> SUFFICES ASSUME answered # {}, act = "open", NEW p \in pending', p.act = "open", p.gen = a.gen PROVE FALSE
      BY DEF OpenOf
    <3>1. PICK q \in pending : q.act = "open" /\ q.gen = a.gen /\ q.try = a.try
      OBVIOUS
    <3>2. p \in pending /\ p.try = 0 /\ q.try = 0
      BY <2>6, <3>1 DEF ICounted
    <3>3. p \in answered
      BY <3>1, <3>2
    <3> QED
      BY <2>2, <3>3
  <2>8. ASSUME main.gen # None
        PROVE  /\ \A i \in 1..Len(toMain') : toMain'[i].ack = "opened" /\ toMain'[i].gen = main.gen => host'[main.gen] = "active"
               /\ main'.life = "active" \/ OpenOf(pending', main.gen) => main.gen \in leases' \ forget'
               /\ main'.life = "active" => ~OpenOf(pending', main.gen)
               /\ main'.life = "active" /\ page' => host'[main.gen] = "active" \/ Disposing(queue', main.gen)
    <3>1. \A i \in 1..Len(toMain') : toMain'[i].ack = "opened" /\ toMain'[i].gen = main.gen => host'[main.gen] = "active"
      BY <2>4, <2>8 DEF ICurrent
    <3>2. answered # {} /\ act = "close" => a.gen # main.gen
      BY <2>5, <2>8 DEF ICurrent
    <3>3. OpenOf(pending', main.gen) => OpenOf(pending, main.gen)
      BY <2>6 DEF OpenOf
    <3>4. a.ack = "closed" => act = "close"
      OBVIOUS
    <3>5. a.ack \in {"opened", "refused"} => act = "open"
      OBVIOUS
    <3>6. answered # {} /\ act = "open" => OpenOf(pending, a.gen)
      BY <2>5 DEF OpenOf
    <3> HIDE DEF answered, act
    <3>7. main.gen \in leases => main.gen \in leases'
      BY <2>2, <3>2, <3>4
    <3>8. CASE current /\ a.ack = "opened"
      <4>1. main.gen = a.gen /\ OpenOf(pending, main.gen) /\ ~OpenOf(pending', main.gen)
        BY <2>7, <3>6, <3>8 DEF CanPublish
      <4>2. main.gen \in leases' \ forget'
        BY <2>2, <2>8, <3>7, <3>8, <4>1 DEF ICurrent
      <4>3. host[main.gen] = "active"
        BY <2>1, <2>8, <3>8, <4>1 DEF ICurrent
      <4> QED
        BY <2>4, <3>1, <4>1, <4>2, <4>3
    <3>9. CASE ~(current /\ a.ack = "opened")
      <4>1. main' = main
        BY <2>3, <3>9
      <4>2. CASE main.gen \in forget'
        <5>1. CASE main.gen \in forget
          BY <2>8, <3>1, <3>3, <4>1, <5>1 DEF ICurrent
        <5>2. CASE main.gen \notin forget
          <6>1. answered # {} /\ a.ack = "refused" /\ main.gen = a.gen
            BY <2>2, <4>2, <5>2
          <6>2. OpenOf(pending, main.gen) /\ ~OpenOf(pending', main.gen)
            BY <2>7, <3>5, <3>6, <6>1
          <6>3. main.life # "active"
            BY <2>8, <6>2 DEF ICurrent
          <6> QED
            BY <3>1, <4>1, <6>2, <6>3
        <5> QED
          BY <5>1, <5>2
      <4>3. CASE main.gen \notin forget'
        BY <2>2, <2>4, <2>8, <3>1, <3>3, <3>7, <4>1, <4>3 DEF ICurrent
      <4> QED
        BY <4>2, <4>3
    <3> QED
      BY <3>8, <3>9
  <2> HIDE DEF a, act, answered, current
  <2> QED
    BY <2>3, <2>4, <2>6, <2>8, LeaseCalm
<1>17. CASE CleanupTimesOut
  BY <1>a, <1>17 DEF CleanupTimesOut, bridge, window
<1>18. CASE RequestTimesOut
  <2>1. /\ UNCHANGED <<main, queue, leases, wires, window>>
        /\ \E p \in pending : /\ pending' = pending \ {p}
                              /\ forget' = IF p.act = "open" THEN forget \cup {p.gen} ELSE forget
    BY <1>18 DEF RequestTimesOut, registry
  <2>2. PICK p \in pending : /\ pending' = pending \ {p}
                             /\ forget' = IF p.act = "open" THEN forget \cup {p.gen} ELSE forget
    BY <2>1
  <2>3. pending' \subseteq pending /\ forget' \subseteq forget \cup {q.gen : q \in pending}
    BY <2>2
  <2>4. UNCHANGED <<toWindow, toMain, host, page>>
    BY <2>1 DEF wires, window
  <2>5. /\ \A i \in 1..Len(toWindow') : \E k \in 1..Len(toWindow) : toWindow'[i] = toWindow[k]
        /\ \A i \in 1..Len(toMain') : \E k \in 1..Len(toMain) : toMain'[i] = toMain[k]
    BY <2>4
  <2>6. p.act = "open" => OpenOf(pending, p.gen) /\ ~OpenOf(pending', p.gen)
    <3>1. p.act = "open" => OpenOf(pending, p.gen)
      BY DEF OpenOf
    <3> SUFFICES ASSUME p.act = "open", NEW q \in pending', q.act = "open", q.gen = p.gen PROVE FALSE
      BY <3>1 DEF OpenOf
    <3>2. q \in pending /\ q # p /\ q.try = 0 /\ p.try = 0
      BY <2>2 DEF ICounted
    <3>3. p \in Requests /\ q \in Requests
      BY <3>2 DEF ITyped, TypeOK
    <3>4. p = [act |-> p.act, gen |-> p.gen, try |-> p.try] /\ q = [act |-> q.act, gen |-> q.gen, try |-> q.try]
      BY <3>3 DEF Requests
    <3> QED
      BY <3>2, <3>4
  <2>7. OpenOf(pending', main.gen) => OpenOf(pending, main.gen)
    BY <2>3 DEF OpenOf
  <2>8. ASSUME main.gen # None
        PROVE  /\ \A i \in 1..Len(toMain') : toMain'[i].ack = "opened" /\ toMain'[i].gen = main.gen => host'[main.gen] = "active"
               /\ main'.life = "active" \/ OpenOf(pending', main.gen) => main.gen \in leases' \ forget'
               /\ main'.life = "active" => ~OpenOf(pending', main.gen)
               /\ main'.life = "active" /\ page' => host'[main.gen] = "active" \/ Disposing(queue', main.gen)
    <3>1. CASE p.act = "open" /\ p.gen = main.gen
      <4>1. main.life # "active" /\ ~OpenOf(pending', main.gen)
        BY <2>6, <2>8, <3>1 DEF ICurrent
      <4> QED
        BY <2>1, <2>4, <2>8, <4>1 DEF ICurrent
    <3>2. CASE ~(p.act = "open" /\ p.gen = main.gen)
      <4>1. main.gen \in forget' => main.gen \in forget
        BY <2>2, <3>2
      <4> QED
        BY <2>1, <2>4, <2>7, <2>8, <4>1 DEF ICurrent
    <3> QED
      BY <3>1, <3>2
  <2> QED
    BY <2>1, <2>3, <2>5, <2>8, LeaseCalm
<1>19. CASE Navigate
  <2>1. /\ UNCHANGED <<main, leases>> /\ pending' = {} /\ ~page' /\ toWindow' = <<>> /\ toMain' = <<>>
        /\ forget' = forget \cup {p.gen : p \in OpensOf(Gens)}
    BY <1>19 DEF Navigate
  <2>2. \A i \in 1..Len(<<>>) : FALSE
    BY EmptySeq
  <2>3. pending' \subseteq pending /\ forget' \subseteq forget \cup {p.gen : p \in pending}
    BY <2>1 DEF OpensOf
  <2>4. ~OpenOf(pending', main.gen)
    BY <2>1 DEF OpenOf
  <2>5. main.gen # None /\ main.life = "active" => main.gen \in leases' \ forget'
    <3>1. main.gen \in forget' => main.gen \in forget \/ OpenOf(pending, main.gen)
      BY <2>1 DEF OpensOf, OpenOf
    <3> QED
      BY <2>1, <3>1 DEF ICurrent
  <2>6. /\ \A i \in 1..Len(toWindow') : FALSE
        /\ \A i \in 1..Len(toMain') : FALSE
    BY <2>1, <2>2
  <2> QED
    BY <2>1, <2>3, <2>4, <2>5, <2>6, LeaseCalm
<1>20. CASE PageReady
  <2>1. UNCHANGED <<main, leases, pending, forget, toWindow, toMain, host>> /\ queue' = queue \o Disposals(leases)
    BY <1>20 DEF PageReady, wires
  <2>2. main.gen \in leases => Disposing(queue', main.gen)
    BY <2>1, DisposingAll
  <2>3. /\ \A i \in 1..Len(toWindow') : \E k \in 1..Len(toWindow) : toWindow'[i] = toWindow[k]
        /\ \A i \in 1..Len(toMain') : \E k \in 1..Len(toMain) : toMain'[i] = toMain[k]
    BY <2>1
  <2>4. main.gen # None =>
            /\ \A i \in 1..Len(toMain') : toMain'[i].ack = "opened" /\ toMain'[i].gen = main.gen => host'[main.gen] = "active"
            /\ main'.life = "active" \/ OpenOf(pending', main.gen) => main.gen \in leases' \ forget'
            /\ main'.life = "active" => ~OpenOf(pending', main.gen) /\ Disposing(queue', main.gen)
    BY <2>1, <2>2 DEF ICurrent
  <2> QED
    BY <2>1, <2>3, <2>4, LeaseCalm
\* The window's steps: they leave the generation's lease as it is, unless it starts.
<1>f. ASSUME UNCHANGED <<main, queue, leases, forget, pending, page>>, NEW g \in Gens,
             \A h \in Gens \ {g} : host'[h] = host[h],
             main.gen = g => host[g] # "active" \/ host'[g] = "active",
             \A i \in 1..Len(toWindow') : \E k \in 1..Len(toWindow) : toWindow'[i] = toWindow[k],
             \A i \in 1..Len(toMain') :
                \/ i \in 1..Len(toMain) /\ toMain'[i] = toMain[i]
                \/ toMain'[i].ack # "opened"
                \/ toMain'[i].gen = g /\ g <= main.count /\ host'[g] = "active"
      PROVE  ICounted' /\ ICurrent'
  <2>1. main.gen # None /\ host[main.gen] = "active" => host'[main.gen] = "active"
    BY <1>0, <1>f
  <2>2. main.gen # None =>
            \A i \in 1..Len(toMain') : toMain'[i].ack = "opened" /\ toMain'[i].gen = main.gen => host'[main.gen] = "active"
    BY <1>f, <2>1 DEF ICurrent
  <2>3. main.gen # None =>
            /\ main'.life = "active" \/ OpenOf(pending', main.gen) => main.gen \in leases' \ forget'
            /\ main'.life = "active" => ~OpenOf(pending', main.gen)
            /\ main'.life = "active" /\ page' => host'[main.gen] = "active" \/ Disposing(queue', main.gen)
    BY <1>f, <2>1 DEF ICurrent
  <2>4. \A i \in 1..Len(toMain') : toMain'[i].ack = "opened" =>
            (\E k \in 1..Len(toMain) : toMain'[i] = toMain[k]) \/ toMain'[i].gen <= main'.count
    BY <1>f
  <2>5. pending' \subseteq pending /\ forget' \subseteq forget \cup {p.gen : p \in pending}
    BY <1>f
  <2> QED
    BY <1>f, <2>2, <2>3, <2>4, <2>5, LeaseCalm
<1>21. CASE TakeOpen
  <2>1. PICK g \in Gens :
          /\ UNCHANGED <<main, queue, leases, forget, pending, page>> /\ host[g] = "none"
          /\ \A h \in Gens \ {g} : host'[h] = host[h]
          /\ \A i \in 1..Len(toWindow') : \E k \in 1..Len(toWindow) : toWindow'[i] = toWindow[k]
          /\ \A i \in 1..Len(toMain') : (i \in 1..Len(toMain) /\ toMain'[i] = toMain[i]) \/ toMain'[i].ack = "refused"
    BY <1>21, OpenTaken DEF registry, bridge
  <2> QED
    BY <1>f, <2>1
<1>22. CASE TakeClose
  <2> DEFINE r == Head(toWindow)
             g == r.gen
  <2>1. /\ r \in Requests /\ r = toWindow[1] /\ 1 \in 1..Len(toWindow)
        /\ \A i \in 1..Len(toWindow') : i + 1 \in 1..Len(toWindow) /\ toWindow'[i] = toWindow[i + 1]
    BY <1>22, RequestTaken DEF TakeClose
  <2>2. /\ UNCHANGED <<main, queue, leases, forget, pending, page>> /\ r.act = "close"
        /\ host' = host \/ host' = [host EXCEPT ![g] = "closing"]
        /\ \/ toMain' = toMain
           \/ \E ack \in {"unknown", "closed"} : Answer(<<[ack |-> ack, gen |-> g, try |-> r.try]>>)
    BY <1>22 DEF TakeClose, registry, bridge
  <2>3. g \in Gens /\ r.try \in Nat /\ g # main.gen
    <3>1. g \in Gens /\ r.try \in Nat
      BY <2>1 DEF Requests
    <3>2. main.gen # None => g # main.gen
      BY <2>1, <2>2 DEF ICurrent
    <3> QED
      BY <3>1, <3>2 DEF Gens, None
  <2> HIDE DEF r, g
  <2>4. \A h \in Gens \ {g} : host'[h] = host[h]
    BY <1>0, <2>2
  <2>5. \A i \in 1..Len(toWindow') : \E k \in 1..Len(toWindow) : toWindow'[i] = toWindow[k]
    BY <2>1
  <2>6. \A i \in 1..Len(toMain') : (i \in 1..Len(toMain) /\ toMain'[i] = toMain[i]) \/ toMain'[i].ack # "opened"
    <3>1. CASE toMain' = toMain
      BY <3>1
    <3>2. ASSUME NEW ack \in {"unknown", "closed"}, Answer(<<[ack |-> ack, gen |-> g, try |-> r.try]>>)
          PROVE  \A i \in 1..Len(toMain') : (i \in 1..Len(toMain) /\ toMain'[i] = toMain[i]) \/ toMain'[i].ack # "opened"
      <4>1. \A i \in 1..Len(toMain') : (i \in 1..Len(toMain) /\ toMain'[i] = toMain[i]) \/ toMain'[i].ack = ack
        BY <2>3, <3>2, OneSent
      <4> QED
        BY <4>1
    <3> QED
      BY <2>2, <3>1, <3>2
  <2> QED
    BY <1>f, <2>2, <2>3, <2>4, <2>5, <2>6
<1>23. ASSUME NEW g \in Gens, PluginStarted(g) PROVE ICounted' /\ ICurrent'
  <2>1. /\ UNCHANGED <<main, queue, leases, forget, pending, page, toWindow>> /\ host[g] = "starting"
        /\ \/ host' = [host EXCEPT ![g] = "active"] /\ Answer(<<[ack |-> "opened", gen |-> g, try |-> 0]>>)
           \/ host' = [host EXCEPT ![g] = "closing"] /\ toMain' = toMain
    BY <1>23 DEF PluginStarted, registry, bridge
  <2>2. \A h \in Gens \ {g} : host'[h] = host[h]
    BY <1>0, <2>1
  <2>3. g <= main.count
    <3>1. ~(g > main.count)
      BY <2>1 DEF IWindow
    <3>2. g \in Nat /\ main.count \in Nat
      BY <1>0, BoundsAssumption DEF Gens, Record
    <3> QED
      BY <3>1, <3>2
  <2>4. \A i \in 1..Len(toMain') :
            \/ i \in 1..Len(toMain) /\ toMain'[i] = toMain[i]
            \/ toMain'[i].gen = g /\ host'[g] = "active"
    <3>1. CASE toMain' = toMain
      BY <3>1
    <3>2. CASE host' = [host EXCEPT ![g] = "active"] /\ Answer(<<[ack |-> "opened", gen |-> g, try |-> 0]>>)
      <4>1. host'[g] = "active"
        BY <1>0, <3>2
      <4>2. \A i \in 1..Len(toMain') : (i \in 1..Len(toMain) /\ toMain'[i] = toMain[i]) \/ toMain'[i].gen = g
        BY <3>2, OneSent
      <4> QED
        BY <4>1, <4>2
    <3> QED
      BY <2>1, <3>1, <3>2
  <2>5. \A i \in 1..Len(toWindow') : \E k \in 1..Len(toWindow) : toWindow'[i] = toWindow[k]
    BY <2>1
  <2>6. host[g] # "active"
    BY <2>1
  <2> QED
    BY <1>f, <2>1, <2>2, <2>3, <2>4, <2>5, <2>6
<1>24. ASSUME NEW g \in Gens, HostReleased(g) PROVE ICounted' /\ ICurrent'
  <2>1. /\ UNCHANGED <<main, queue, leases, forget, pending, page, toWindow>> /\ host[g] = "closing"
        /\ \A h \in Gens : h # g /\ host[h] # "queued" => host'[h] = host[h]
        /\ \A i \in 1..Len(toMain') :
              \/ i \in 1..Len(toMain) /\ toMain'[i] = toMain[i]
              \/ toMain'[i].ack \in {"refused", "incomplete", "closed"}
    BY <1>24, ReleaseStep DEF registry, bridge
  <2>2. \A h \in Gens \ {g} : host'[h] = host[h]
    BY <2>1 DEF IWindow
  <2>3. \A i \in 1..Len(toWindow') : \E k \in 1..Len(toWindow) : toWindow'[i] = toWindow[k]
    BY <2>1
  <2>4. host[g] # "active"
    BY <2>1
  <2>5. \A i \in 1..Len(toMain') : (i \in 1..Len(toMain) /\ toMain'[i] = toMain[i]) \/ toMain'[i].ack # "opened"
    BY <2>1
  <2> QED
    BY <1>f, <2>1, <2>2, <2>3, <2>4, <2>5
<1>25. ASSUME NEW g \in Gens, Detach(g) PROVE ICounted' /\ ICurrent'
  <2>1. "dispose" \in Kinds /\ g \in Gens \cup {None}
    BY DEF Kinds
  <2>2. Enqueue("dispose", 0, g) /\ UNCHANGED <<main, bridge, wires, window>>
    BY <1>25 DEF Detach
  <2> QED
    BY <1>12, <2>1, <2>2
<1>26. CASE UNCHANGED vars
  BY <1>a, <1>26 DEF vars, wires
<1> QED
  BY <1>1, <1>2, <1>3, <1>4, <1>5, <1>6, <1>7, <1>9, <1>10, <1>11, <1>13, <1>14, <1>15, <1>16,
     <1>17, <1>18, <1>19, <1>20, <1>21, <1>22, <1>23, <1>24, <1>25, <1>26 DEF Next, Drain, Timers

\* What Settings shows is so.
LEMMA LeasesTell == ITyped /\ IWindow /\ ISwitch /\ ICurrent => SettingsTell
<1> SUFFICES ASSUME ITyped, IWindow, ISwitch, ICurrent PROVE SettingsTell
  OBVIOUS
<1>1. ActiveRuns
  <2>1. DOMAIN queue = 1..Len(queue)
    BY LenProperties DEF ITyped, TypeOK
  <2>2. main.gen # None => (Disposing(queue, main.gen) => DisposalQueued(main.gen))
    BY <2>1 DEF Disposing, DisposalQueued
  <2> QED
    BY <2>2 DEF ActiveRuns, ICurrent
<1>2. DisabledIsOff
  <2>1. None \notin Gens
    BY DEF Gens, None
  <2>2. Owned(main) = None => \A g \in Gens : EndedIn(host, toWindow, g)
    BY <2>1 DEF IWindow
  <2>3. Owned(main) = None => Running = {}
    BY <2>2 DEF EndedIn, Running, Live
  <2> QED
    BY <2>3 DEF ISwitch, DisabledIsOff
<1> QED
  BY <1>1, <1>2 DEF SettingsTell

-----------------------------------------------------------------------------
(***************************************************************************)
(* The theorems.                                                           *)
(***************************************************************************)
\* The inductive invariant.
LEMMA Owning == Spec => [](ITyped /\ IRegistry /\ IWindow /\ ISwitch /\ ICounted /\ ICurrent)
<1> DEFINE IInv == ITyped /\ IRegistry /\ IWindow /\ ISwitch /\ ICounted /\ ICurrent
<1>1. Init => IInv
  BY TypeInit, RegistryInit, WindowInit, SwitchInit, LeaseInit
<1>2. IInv /\ [Next]_vars => IInv'
  BY TypeStep, RegistryStep, WindowStep, SwitchStep, LeaseStep
<1> HIDE DEF IInv
<1>3. Spec => []IInv
  BY <1>1, <1>2, PTL DEF Spec
<1> QED
  BY <1>3 DEF IInv

\* Every variable keeps its type, whatever is called, answered and lost.
THEOREM TypeCorrect == Spec => []TypeOK
<1>1. ITyped => TypeOK
  BY DEF ITyped
<1> QED
  BY <1>1, Owning, PTL

\* However a plugin is switched, replaced, triggered and disposed of, its window
\* reloads, its cleanups fail or time out and its answers come late, what runs
\* in the window is the registry's generation or the cleanup it owes, and alone.
THEOREM OwnedRunsAlone == Spec => []RunningIsOwned
  BY Owning, WindowOwns, PTL
\* However its calls, faults, reloads and late answers interleave, what Settings
\* says of the plugin is so: "active" is a generation that runs, or whose page is
\* gone or disposal queued, and "off", once nothing is under way, owes nothing
\* and runs nothing.
THEOREM SettingsAreTrue == Spec => []SettingsTell
  BY Owning, LeasesTell, PTL

-----------------------------------------------------------------------------
(***************************************************************************)
(* The service process and its host, which share no state with the plugin. *)
(* The host is one record, and what its methods share are functions on it: *)
(* so are the parts of the invariant, and the lemmas say what each of the  *)
(* functions leaves of them.                                               *)
(***************************************************************************)
\* A call of start() has yet to end.
Calling(h, g) == h.calls[g].at # "none"

\* The host has one process, the one it waits for: nobody starts another while
\* that one is there.
OneProcess(h) ==
    /\ h.child # Service!None => h.active = h.child
    /\ \A w \in h.stops : w.service = h.child /\ h.state \notin {"starting", "ready"}

\* Every start has a process of its own, and is about the one there is from
\* the fork on.
CallsApart(h) ==
    \A g \in Service!Gens :
        /\ h.calls[g].at = "none" => h.calls[g] = Service!Idle
        /\ Calling(h, g) => h.calls[g].service \in 1..h.count
        /\ \A j \in Service!Gens \ {g} :
             Calling(h, g) /\ Calling(h, j) => h.calls[g].service # h.calls[j].service
        /\ h.calls[g].at \in {"handshake", "stopping"} => h.child = h.calls[g].service
        /\ h.calls[g].at = "resolving" /\ h.active = h.calls[g].service => h.child = Service!None

\* What runs is the host's; what is ready, and what was asked, is of a process
\* that has said so.
ProcessesFollow(h, p) ==
    /\ \A s \in Service!Services : p[s] \in {"booting", "running"} => h.child = s
    /\ \A s \in Service!Services : s > h.count => p[s] = "none"
    /\ \A g \in Service!Gens : h.calls[g].at = "resolving" => p[h.calls[g].service] = "none"
    /\ h.ready # Service!None => p[h.ready] \in {"running", "exited"}
    /\ \A r \in Service!Requests : h.asked[r].at # "none" =>
          /\ h.asked[r].gen # Service!None /\ h.asked[r].service # Service!None
          /\ p[h.asked[r].service] \in {"running", "exited"}

Sound(h, p) == h \in Service!HostStates /\ OneProcess(h) /\ CallsApart(h) /\ ProcessesFollow(h, p)

\* A start that has yet to fork is either the host's, or it is over.
StartsGoOn(h) ==
    \A g \in Service!Gens : h.calls[g].at = "resolving" /\ h.registry = g =>
        h.state = "starting" /\ h.active = h.calls[g].service

\* What is asked, read and granted while a lease lives is of the generation
\* there is.
Current(h) ==
    /\ \A r \in Service!Requests : h.asked[r].at # "none" /\ Service!LeaseLive(h, h.asked[r].service) =>
          h.asked[r].gen = h.registry
    /\ h.read # Service!None =>
          h.asked[h.read].at # "none" /\ Service!LeaseLive(h, h.asked[h.read].service)
    /\ h.grant # Service!NoGrant =>
          /\ h.grant.gen # Service!None /\ h.grant.service # Service!None
          /\ Service!LeaseLive(h, h.grant.service) /\ h.grant.gen = h.registry

Good(h, p) == Sound(h, p) /\ StartsGoOn(h) /\ Current(h)

\* Nothing is ready, read or granted.
Dark(h) == h.state # "ready" /\ h.read = Service!None /\ h.grant = Service!NoGrant

\* No start that has yet to fork is of the generation there is.
Settled(h) == \A g \in Service!Gens : h.calls[g].at = "resolving" => h.registry # g

-----------------------------------------------------------------------------
\* What is not ready serves nobody.
LEMMA NotReadyIsDark ==
  ASSUME NEW h, Current(h), h.state # "ready"
  PROVE  Dark(h)
BY DEF Current, Dark, Service!LeaseLive

\* Where nothing is served, all that is served is current.
LEMMA DarkIsCurrent ==
  ASSUME NEW h, Dark(h)
  PROVE  Current(h)
BY DEF Current, Dark, Service!LeaseLive

\* A process that is there has forked.
LEMMA ChildIsSettled ==
  ASSUME NEW h, NEW p, Sound(h, p), StartsGoOn(h), h.child # Service!None
  PROVE  Settled(h)
BY DEF Sound, CallsApart, StartsGoOn, Settled

\* Where no start is left to fork, none has to go on.
LEMMA SettledGoesOn ==
  ASSUME NEW h, Settled(h)
  PROVE  StartsGoOn(h)
BY DEF Settled, StartsGoOn

\* The host has what it had, but for what it serves and how it does.
Same(h, s) ==
    /\ s.count = h.count /\ s.calls = h.calls /\ s.child = h.child
    /\ s.registry = h.registry
    /\ \A r \in Service!Requests :
        /\ s.asked[r].at = "none" <=> h.asked[r].at = "none"
        /\ s.asked[r].gen = h.asked[r].gen /\ s.asked[r].service = h.asked[r].service

\* What tells nothing new of calls and processes leaves them sound.
LEMMA SameIsSound ==
  ASSUME NEW h, NEW p, Sound(h, p), NEW s \in Service!HostStates, Same(h, s), s.ready \in {Service!None, h.ready},
         s.active = h.active \/ (s.active = Service!None /\ h.child = Service!None),
         \A w \in s.stops : w.service = h.child /\ s.state \notin {"starting", "ready"}
  PROVE  Sound(s, p)
<1>1. OneProcess(s)
  BY DEF Sound, OneProcess, Same
<1>2. CallsApart(s)
  BY DEF Sound, CallsApart, Calling, Same
<1>3. ProcessesFollow(s, p)
  BY DEF Sound, ProcessesFollow, Same
<1> QED
  BY <1>1, <1>2, <1>3 DEF Sound

\* Readiness goes, and the grant of what was ready with it.
LEMMA ClearedIsSame ==
  ASSUME NEW h \in Service!HostStates
  PROVE  LET c == Service!ClearReadiness(h)
         IN  /\ c \in Service!HostStates /\ c.ready = Service!None /\ (Current(h) => c.grant = Service!NoGrant) /\ Same(h, c)
             /\ c.state = h.state /\ c.active = h.active /\ c.read = h.read /\ c.stops = h.stops
             /\ c.asked = h.asked /\ c.meant = h.meant
<1> DEFINE d == IF h.registry # Service!None /\ h.grant.gen = h.registry /\ h.grant.service = h.active
                THEN Service!NoGrant ELSE h.grant
           c == [h EXCEPT !.ready = Service!None, !.grant = d]
<1>1. Service!ClearReadiness(h) = c
  BY DEF Service!ClearReadiness
<1>2. d \in [gen : Service!Gens \cup {Service!None}, service : Service!Services \cup {Service!None}, id : Service!Requests \cup {Service!None}]
  BY DEF Service!HostStates, Service!NoGrant
<1>3. Current(h) => d = Service!NoGrant
  BY DEF Current, Service!LeaseLive
<1> HIDE DEF d
<1>4. c \in Service!HostStates
  BY <1>2, ZenonT(60) DEF Service!HostStates
<1>5. /\ c.ready = Service!None /\ c.grant = d /\ c.state = h.state /\ c.active = h.active
      /\ c.read = h.read /\ c.stops = h.stops /\ c.asked = h.asked /\ c.meant = h.meant
      /\ c.count = h.count /\ c.calls = h.calls /\ c.child = h.child /\ c.registry = h.registry
  BY DEF Service!HostStates
<1> HIDE DEF c
<1>6. Same(h, c)
  BY <1>5 DEF Same
<1> QED
  BY <1>1, <1>3, <1>4, <1>5, <1>6

\* The read of what was ready ends.
LEMMA ReadEnded ==
  ASSUME NEW h \in Service!HostStates, h.read # Service!None =>
            h.asked[h.read].gen = h.registry /\ h.asked[h.read].service = h.active
                                             /\ h.asked[h.read].at # "none"
  PROVE  /\ Service!EndRead(h) \in Service!HostStates /\ Service!EndRead(h).read = Service!None /\ Same(h, Service!EndRead(h))
         /\ Service!EndRead(h).state = h.state /\ Service!EndRead(h).active = h.active
         /\ Service!EndRead(h).ready = h.ready /\ Service!EndRead(h).stops = h.stops
         /\ Service!EndRead(h).grant = h.grant
<1>1. CASE h.read = Service!None
  BY <1>1 DEF Service!EndRead, Same
<1>2. CASE h.read # Service!None
  <2> DEFINE a == [h.asked EXCEPT ![h.read].at = "ended"]
  <2>1. Service!EndRead(h) = [h EXCEPT !.asked = a, !.read = Service!None]
    BY <1>2 DEF Service!EndRead
  <2>r. h.asked[h.read].at # "none"
    BY <1>2
  <2>2. a \in [Service!Requests -> [at : {"none", "first", "second", "pending", "ended"},
                           kind : {"grant", "revoke", "read"}, gen : Service!Gens \cup {Service!None},
                           service : Service!Services \cup {Service!None}, grant : Service!Requests \cup {Service!None}]]
    BY <1>2 DEF Service!HostStates
  <2>3. \A r \in Service!Requests :
          /\ a[r].at = "none" <=> h.asked[r].at = "none"
          /\ a[r].gen = h.asked[r].gen /\ a[r].service = h.asked[r].service
    BY <1>2, <2>r DEF Service!HostStates
  <2> HIDE DEF a
  <2>4. [h EXCEPT !.asked = a, !.read = Service!None] \in Service!HostStates
    BY <2>2 DEF Service!HostStates
  <2> QED
    BY <2>1, <2>3, <2>4 DEF Service!HostStates, Same
<1> QED
  BY <1>1, <1>2

\* A stop leaves nothing served, and what it waits for is the process.
LEMMA Stopped ==
  ASSUME NEW h, NEW p, Sound(h, p), Current(h),
         NEW for \in {"cleanup", "fallback", "failure", "late"}, NEW g \in Service!Gens
  PROVE  /\ Sound(Service!Stop(h, for, g), p) /\ Dark(Service!Stop(h, for, g)) /\ Same(h, Service!Stop(h, for, g))
         /\ Service!Stop(h, for, g).state \in {"stopping", "stopped"}
<1> DEFINE c == Service!ClearReadiness(h)
           s == Service!Stop(h, for, g)
<1>t. h \in Service!HostStates
  BY DEF Sound
<1>1. /\ c \in Service!HostStates /\ c.ready = Service!None /\ c.grant = Service!NoGrant /\ Same(h, c)
      /\ c.state = h.state /\ c.active = h.active /\ c.read = h.read /\ c.stops = h.stops
      /\ c.asked = h.asked /\ c.meant = h.meant
  BY <1>t, ClearedIsSame
<1>o. h.child # Service!None => h.active = h.child
  BY DEF Sound, OneProcess
<1>2. CASE Service!StopWaits(h)
  <2> DEFINE e == Service!EndRead(c)
             w == [service |-> h.child, for |-> for, gen |-> g]
  <2> HIDE DEF c
  <2>1. c.read # Service!None => c.asked[c.read].gen = c.registry /\ c.asked[c.read].service = c.active
                         /\ c.asked[c.read].at # "none"
    BY <1>1, <1>t DEF Current, Service!LeaseLive, Same, Service!HostStates
  <2>2. /\ e \in Service!HostStates /\ e.read = Service!None /\ Same(c, e) /\ e.state = c.state
        /\ e.active = c.active /\ e.ready = Service!None /\ e.stops = h.stops /\ e.grant = Service!NoGrant
    BY <1>1, <2>1, ReadEnded
  <2>3. Same(h, e)
    BY <1>1, <2>2 DEF Same
  <2>4. s = [e EXCEPT !.state = "stopping", !.meant = @ \cup {h.active}, !.stops = @ \cup {w}]
    BY <1>2 DEF Service!Stop, c
  <2>5. h.active \in Service!Services /\ w \in [service : Service!Services, for : {"cleanup", "fallback", "failure", "late"}, gen : Service!Gens]
    BY <1>2, <1>t DEF Service!StopWaits, Service!HostStates
  <2>6. w.service = h.child
    OBVIOUS
  <2> HIDE DEF e, w
  <2>7. e.meant \cup {h.active} \in SUBSET Service!Services
    BY <2>2, <2>5 DEF Service!HostStates
  <2>8. e.stops \cup {w} \in SUBSET [service : Service!Services, for : {"cleanup", "fallback", "failure", "late"}, gen : Service!Gens]
    BY <2>2, <2>5 DEF Service!HostStates
  <2>9. [e EXCEPT !.state = "stopping", !.meant = e.meant \cup {h.active}, !.stops = e.stops \cup {w}]
        \in Service!HostStates
    BY <2>2, <2>7, <2>8 DEF Service!HostStates
  <2> HIDE DEF s
  <2>10. /\ s \in Service!HostStates /\ s.state = "stopping" /\ s.stops = h.stops \cup {w} /\ s.read = Service!None
         /\ s.grant = Service!NoGrant /\ s.ready = Service!None /\ s.active = h.active /\ Same(h, s)
    BY <1>1, <2>2, <2>3, <2>4, <2>9 DEF Service!HostStates, Same
  <2>11. \A v \in s.stops : v.service = h.child
    BY <2>6, <2>10 DEF Sound, OneProcess
  <2> QED
    BY <2>10, <2>11, SameIsSound DEF Dark, s
<1>3. CASE ~Service!StopWaits(h)
  <2>1. s = [c EXCEPT !.state = "stopped", !.child = Service!None, !.active = Service!None]
    BY <1>3 DEF Service!Stop
  <2>2. h.child = Service!None
    BY <1>3, <1>o DEF Service!StopWaits
  <2>3. h.read = Service!None
    BY <2>2, <1>t DEF Current, Service!LeaseLive, Sound, ProcessesFollow, Service!HostStates
  <2> HIDE DEF c
  <2>4. [c EXCEPT !.state = "stopped", !.child = Service!None, !.active = Service!None] \in Service!HostStates
    <3>1. [c EXCEPT !.state = "stopped"] \in Service!HostStates
      BY <1>1 DEF Service!HostStates
    <3>2. \A k \in Service!HostStates : [k EXCEPT !.child = Service!None, !.active = Service!None] \in Service!HostStates
      BY ZenonT(60) DEF Service!HostStates
    <3>3. [c EXCEPT !.state = "stopped", !.child = Service!None, !.active = Service!None]
          = [[c EXCEPT !.state = "stopped"] EXCEPT !.child = Service!None, !.active = Service!None]
      OBVIOUS
    <3> QED
      BY <3>1, <3>2, <3>3
  <2> HIDE DEF s
  <2>5. /\ s \in Service!HostStates /\ s.state = "stopped" /\ s.stops = h.stops /\ s.read = Service!None
        /\ s.grant = Service!NoGrant /\ s.ready = Service!None /\ s.active = Service!None /\ Same(h, s)
    BY <1>1, <2>1, <2>2, <2>3, <2>4 DEF Service!HostStates, Same
  <2>6. \A v \in s.stops : v.service = h.child
    BY <2>5 DEF Sound, OneProcess
  <2> QED
    BY <2>2, <2>5, <2>6, SameIsSound DEF Dark, s
<1> QED
  BY <1>2, <1>3

\* A failure leaves nothing served either.
LEMMA Failed ==
  ASSUME NEW h, NEW p, Sound(h, p), Current(h), NEW s, s = h.active
  PROVE  /\ Sound(Service!Fail(h, s), p) /\ Dark(Service!Fail(h, s)) /\ Same(h, Service!Fail(h, s))
         /\ Service!Fail(h, s).state = "failed" /\ Service!Fail(h, s).active = h.active
<1> DEFINE c == Service!ClearReadiness(h)
           f == [c EXCEPT !.state = "failed"]
<1>t. h \in Service!HostStates
  BY DEF Sound
<1>1. /\ c \in Service!HostStates /\ c.ready = Service!None /\ c.grant = Service!NoGrant /\ Same(h, c)
      /\ c.active = h.active /\ c.read = h.read /\ c.stops = h.stops /\ c.asked = h.asked
  BY <1>t, ClearedIsSame
<1> HIDE DEF c
<1>2. /\ f \in Service!HostStates /\ f.state = "failed" /\ f.ready = Service!None /\ f.grant = Service!NoGrant /\ Same(h, f)
      /\ f.active = h.active /\ f.read = h.read /\ f.stops = h.stops /\ f.asked = h.asked
  BY <1>1 DEF Same, Service!HostStates
<1>3. Service!Fail(h, s) = Service!EndRead(f)
  BY DEF Service!Fail, c
<1> HIDE DEF f
<1>4. f.read # Service!None => f.asked[f.read].gen = f.registry /\ f.asked[f.read].service = f.active
                       /\ f.asked[f.read].at # "none"
  BY <1>2, <1>t DEF Current, Service!LeaseLive, Same, Service!HostStates
<1> DEFINE e == Service!EndRead(f)
<1>5. /\ e \in Service!HostStates /\ e.read = Service!None /\ Same(f, e) /\ e.state = "failed"
      /\ e.active = h.active /\ e.ready = Service!None /\ e.stops = h.stops /\ e.grant = Service!NoGrant
  BY <1>2, <1>4, ReadEnded
<1> HIDE DEF e
<1>6. Same(h, e)
  BY <1>2, <1>5 DEF Same
<1>7. \A v \in e.stops : v.service = h.child
  BY <1>5 DEF Sound, OneProcess
<1>8. Sound(e, p)
  BY <1>5, <1>6, <1>7, SameIsSound
<1> QED
  BY <1>3, <1>5, <1>6, <1>8 DEF e, Dark

\* A generation lets go of the host when nothing is served, or without having
\* been the one it has.
LEMMA LetGoIsGood ==
  ASSUME NEW h, NEW p, Sound(h, p), NEW g \in Service!Gens
  PROVE  /\ Sound(Service!LetGo(h, g), p)
         /\ Dark(h) => Dark(Service!LetGo(h, g))
         /\ Settled(h) => Settled(Service!LetGo(h, g))
         /\ h.registry = g => Settled(Service!LetGo(h, g))
         /\ h.registry # g => Service!LetGo(h, g) = h
         /\ Service!LetGo(h, g).state = h.state
<1> DEFINE l == Service!LetGo(h, g)
           r == IF h.registry = g THEN Service!None ELSE h.registry
<1>t. h \in Service!HostStates
  BY DEF Sound
<1>1. l = [h EXCEPT !.registry = r] /\ r \in {Service!None, h.registry} /\ (h.registry = g => r = Service!None)
  BY <1>t DEF Service!LetGo, Service!HostStates
<1>e. h.registry # g => l = h
  BY <1>t DEF Service!LetGo, Service!HostStates
<1> HIDE DEF r, l
<1>2. l \in Service!HostStates
  BY <1>1, <1>t DEF Service!HostStates
<1>3. /\ l.count = h.count /\ l.calls = h.calls /\ l.child = h.child /\ l.active = h.active
      /\ l.asked = h.asked /\ l.ready = h.ready /\ l.stops = h.stops /\ l.state = h.state
      /\ l.grant = h.grant /\ l.read = h.read /\ l.registry = r
  BY <1>1, <1>t DEF Service!HostStates
<1>4. OneProcess(l)
  BY <1>3 DEF Sound, OneProcess
<1>5. CallsApart(l)
  BY <1>3 DEF Sound, CallsApart, Calling
<1>6. ProcessesFollow(l, p)
  BY <1>3 DEF Sound, ProcessesFollow
<1>7. Settled(h) => Settled(l)
  BY <1>1, <1>3 DEF Settled, Service!Gens, Service!None
<1>8. h.registry = g => Settled(l)
  BY <1>1, <1>3 DEF Settled, Service!Gens, Service!None
<1> QED
  BY <1>2, <1>3, <1>4, <1>5, <1>6, <1>7, <1>8, <1>e DEF Sound, Dark, l

\* A call that ends takes nothing with it.
LEMMA CallEnds ==
  ASSUME NEW h, NEW p, Sound(h, p), NEW g \in Service!Gens
  PROVE  LET i == [h EXCEPT !.calls[g] = Service!Idle]
         IN  /\ Sound(i, p) /\ i.registry = h.registry /\ i.child = h.child /\ i.state = h.state
             /\ i.active = h.active /\ i.calls[g] = Service!Idle /\ i.stops = h.stops
             /\ \A j \in Service!Gens \ {g} : i.calls[j] = h.calls[j]
             /\ Dark(h) => Dark(i)
             /\ Current(h) => Current(i)
             /\ Settled(h) => Settled(i)
             /\ StartsGoOn(h) => StartsGoOn(i)
<1> DEFINE i == [h EXCEPT !.calls[g] = Service!Idle]
           a == [h.calls EXCEPT ![g] = Service!Idle]
<1>t. h \in Service!HostStates
  BY DEF Sound
<1>1. i = [h EXCEPT !.calls = a]
  BY <1>t DEF Service!HostStates
<1>2. /\ a \in [Service!Gens -> [at : {"none", "resolving", "handshake", "stopping"},
                         service : Service!Services \cup {Service!None}, probing : BOOLEAN]]
      /\ a[g] = Service!Idle /\ \A j \in Service!Gens \ {g} : a[j] = h.calls[j]
  BY <1>t DEF Service!HostStates, Service!Idle
<1>3. Service!Idle.at = "none"
  BY DEF Service!Idle
<1> HIDE DEF a
<1>4. i \in Service!HostStates
  BY <1>1, <1>2, <1>t, ZenonT(60) DEF Service!HostStates
<1> HIDE DEF i
<1>5. /\ i.count = h.count /\ i.calls = a /\ i.child = h.child /\ i.active = h.active
      /\ i.asked = h.asked /\ i.ready = h.ready /\ i.stops = h.stops /\ i.state = h.state
      /\ i.grant = h.grant /\ i.read = h.read /\ i.registry = h.registry
  BY <1>1, <1>t DEF Service!HostStates
<1>6. OneProcess(i)
  BY <1>5 DEF Sound, OneProcess
<1>7. CallsApart(i)
  BY <1>2, <1>3, <1>5 DEF Sound, CallsApart, Calling
<1>8. ProcessesFollow(i, p)
  BY <1>2, <1>3, <1>5 DEF Sound, ProcessesFollow
<1>9. (Settled(h) => Settled(i)) /\ (StartsGoOn(h) => StartsGoOn(i))
  BY <1>2, <1>3, <1>5 DEF Settled, StartsGoOn
<1>10. (Current(h) => Current(i)) /\ (Dark(h) => Dark(i))
  BY <1>5 DEF Current, Service!LeaseLive, Dark
<1> QED
  BY <1>2, <1>4, <1>5, <1>6, <1>7, <1>8, <1>9, <1>10 DEF Sound, i

\* A cleanup leaves the host good.
LEMMA CleanedUp ==
  ASSUME NEW h, NEW p, Good(h, p), NEW g \in Service!Gens
  PROVE  Good(Service!Cleanup(h, g), p)
<1> DEFINE s == Service!Stop(h, "cleanup", g)
<1>1. CASE h.registry \notin {Service!None, g}
  BY <1>1 DEF Service!Cleanup
<1>2. CASE h.registry \in {Service!None, g}
  <2>1. /\ Sound(s, p) /\ Dark(s) /\ Same(h, s)
    BY Stopped DEF Good
  <2>2. CASE Service!StopWaits(h)
    <3>1. Service!Cleanup(h, g) = s
      BY <1>2, <2>2 DEF Service!Cleanup
    <3>2. Settled(h)
      BY <2>2, ChildIsSettled DEF Good, Service!StopWaits
    <3> HIDE DEF s
    <3>3. Settled(s)
      BY <2>1, <3>2 DEF Same, Settled
    <3> QED
      BY <2>1, <3>1, <3>3, SettledGoesOn, DarkIsCurrent DEF Good
  <2>3. CASE ~Service!StopWaits(h)
    <3>1. Service!Cleanup(h, g) = Service!LetGo(s, g)
      BY <1>2, <2>3 DEF Service!Cleanup
    <3> HIDE DEF s
    <3>2. s.registry \in {Service!None, g}
      BY <1>2, <2>1 DEF Same
    <3>3. Sound(Service!LetGo(s, g), p) /\ Dark(Service!LetGo(s, g))
      BY <2>1, LetGoIsGood
    <3>4. Settled(Service!LetGo(s, g))
      <4>1. CASE s.registry = g
        BY <2>1, <4>1, LetGoIsGood
      <4>2. CASE s.registry = Service!None
        <5>1. Settled(s)
          BY <4>2 DEF Settled, Service!Gens, Service!None
        <5> QED
          BY <2>1, <5>1, LetGoIsGood
      <4> QED
        BY <3>2, <4>1, <4>2
    <3> QED
      BY <3>1, <3>3, <3>4, SettledGoesOn, DarkIsCurrent DEF Good
  <2> QED
    BY <2>2, <2>3
<1> QED
  BY <1>1, <1>2

\* An activation that throws leaves the host good, if ending its call does.
LEMMA Thrown ==
  ASSUME NEW h, NEW p, NEW g \in Service!Gens, Service!ActivationThrows(h, g),
         Sound([h EXCEPT !.calls[g] = Service!Idle], p), Settled([h EXCEPT !.calls[g] = Service!Idle]),
         Dark([h EXCEPT !.calls[g] = Service!Idle])
  PROVE  Good(serviceHost', p)
<1> DEFINE i == [h EXCEPT !.calls[g] = Service!Idle]
           l == Service!LetGo(i, g)
<1>1. Sound(i, p) /\ Settled(i) /\ Dark(i)
  OBVIOUS
<1>2. serviceHost' \in {Service!Cleanup(l, g), l}
  BY DEF Service!ActivationThrows
<1> HIDE DEF i
<1>3. Sound(l, p) /\ Settled(l) /\ Dark(l)
  BY <1>1, LetGoIsGood
<1> HIDE DEF l
<1>4. Good(l, p)
  BY <1>3, SettledGoesOn, DarkIsCurrent DEF Good
<1> QED
  BY <1>2, <1>4, CleanedUp

\* A start leaves the host good where no process is there and no other start
\* is to go on.
LEMMA Started ==
  ASSUME NEW h, NEW p, NEW g \in Service!Gens, NEW probing \in BOOLEAN, h \in Service!HostStates,
         Sound([h EXCEPT !.calls[g] = Service!Idle], p), Dark([h EXCEPT !.calls[g] = Service!Idle]),
         h.child = Service!None, h.count < MaxServices,
         h.registry = g \/ Settled([h EXCEPT !.calls[g] = Service!Idle])
  PROVE  Good(Service!Start(h, g, probing), p)
<1> DEFINE i == [h EXCEPT !.calls[g] = Service!Idle]
           n == h.count + 1
           a == [h EXCEPT !.active = n]
           c == Service!ClearReadiness(a)
           s == Service!Start(h, g, probing)
           new == [at |-> "resolving", service |-> n, probing |-> probing]
<1>n. h.count \in Nat /\ n \in Service!Services /\ n \in 0..MaxServices /\ n # Service!None /\ n \in 1..n
  BY ServiceBounds, BoundsAssumption DEF Service!HostStates, Service!Services, Service!None
<1> HIDE DEF n
<1>a. a \in Service!HostStates
  BY <1>n DEF Service!HostStates
<1>b. /\ a.count = h.count /\ a.calls = h.calls /\ a.child = h.child /\ a.active = n
      /\ a.asked = h.asked /\ a.ready = h.ready /\ a.stops = h.stops /\ a.state = h.state
      /\ a.grant = h.grant /\ a.read = h.read /\ a.registry = h.registry
  BY <1>n DEF Service!HostStates
<1>i. /\ i.count = h.count /\ i.child = h.child /\ i.active = h.active
      /\ i.asked = h.asked /\ i.ready = h.ready /\ i.stops = h.stops /\ i.state = h.state
      /\ i.grant = h.grant /\ i.read = h.read /\ i.registry = h.registry
      /\ i.calls = [h.calls EXCEPT ![g] = Service!Idle]
  BY DEF Service!HostStates
<1>g. h.calls \in [Service!Gens -> [at : {"none", "resolving", "handshake", "stopping"},
                         service : Service!Services \cup {Service!None}, probing : BOOLEAN]]
  BY DEF Service!HostStates
<1>j. i.calls[g] = Service!Idle /\ \A j \in Service!Gens \ {g} : i.calls[j] = h.calls[j]
  BY <1>i, <1>g
<1>1. Sound(i, p) /\ Dark(i) /\ (h.registry = g \/ Settled(i))
  OBVIOUS
<1> HIDE DEF i
<1> DEFINE d == IF a.registry # Service!None /\ a.grant.gen = a.registry /\ a.grant.service = a.active
                THEN Service!NoGrant ELSE a.grant
<1>2. d = Service!NoGrant
  BY <1>1, <1>b, <1>i DEF Dark
<1>3. c = [a EXCEPT !.ready = Service!None, !.grant = d]
  BY DEF Service!ClearReadiness
<1> HIDE DEF d, a
<1>4. /\ c \in Service!HostStates /\ c.ready = Service!None /\ c.grant = Service!NoGrant
      /\ c.count = h.count /\ c.calls = h.calls /\ c.child = Service!None /\ c.active = n
      /\ c.asked = h.asked /\ c.stops = h.stops /\ c.state = h.state
      /\ c.read = Service!None /\ c.registry = h.registry
  <2>1. c \in Service!HostStates
    BY <1>a, ClearedIsSame
  <2>2. /\ c.ready = Service!None /\ c.grant = Service!NoGrant
        /\ c.count = h.count /\ c.calls = h.calls /\ c.child = Service!None /\ c.active = n
        /\ c.asked = h.asked /\ c.stops = h.stops /\ c.state = h.state
        /\ c.registry = h.registry /\ c.read = h.read
    BY <1>2, <1>3, <1>a, <1>b DEF Service!HostStates
  <2>3. h.read = Service!None
    BY <1>1, <1>i DEF Dark
  <2> QED
    BY <2>1, <2>2, <2>3
<1>5. s = [c EXCEPT !.count = @ + 1, !.state = "starting", !.calls[g] = new]
  BY DEF Service!Start, a, n
<1> DEFINE b == [h.calls EXCEPT ![g] = new]
<1>6. /\ b \in [Service!Gens -> [at : {"none", "resolving", "handshake", "stopping"},
                         service : Service!Services \cup {Service!None}, probing : BOOLEAN]]
      /\ b[g] = new /\ \A j \in Service!Gens \ {g} : b[j] = i.calls[j]
  BY <1>g, <1>n, <1>j
<1>7. s = [c EXCEPT !.count = n, !.state = "starting", !.calls = b]
  BY <1>4, <1>5 DEF Service!HostStates, n
<1>w. new.at = "resolving" /\ new.service = n
  OBVIOUS
<1> HIDE DEF b, c, s, new
<1>8. /\ s \in Service!HostStates /\ s.ready = Service!None /\ s.grant = Service!NoGrant /\ s.count = n /\ s.calls = b
      /\ s.child = Service!None /\ s.active = n /\ s.asked = h.asked /\ s.stops = h.stops
      /\ s.state = "starting" /\ s.read = Service!None /\ s.registry = h.registry
  <2>1. [c EXCEPT !.count = n, !.state = "starting", !.calls = b] \in Service!HostStates
    BY <1>4, <1>6, <1>n, ZenonT(60) DEF Service!HostStates
  <2> QED
    BY <1>4, <1>7, <2>1 DEF Service!HostStates
<1>9. h.stops = {}
  <2>1. \A w \in h.stops : w.service = Service!None /\ w.service \in Service!Services
    BY <1>1, <1>i DEF Sound, OneProcess, Service!HostStates
  <2> QED
    BY <2>1 DEF Service!Services, Service!None
<1>10. OneProcess(s)
  BY <1>8, <1>9 DEF OneProcess
<1>11. \A j \in Service!Gens \ {g} : Calling(i, j) =>
          i.calls[j].service \in Nat /\ i.calls[j].service <= h.count /\ i.calls[j].service >= 1
  BY <1>1, <1>i, <1>n DEF Sound, CallsApart
<1>12. CallsApart(s)
  <2> SUFFICES ASSUME NEW k \in Service!Gens
               PROVE  /\ s.calls[k].at = "none" => s.calls[k] = Service!Idle
                      /\ Calling(s, k) => s.calls[k].service \in 1..s.count
                      /\ \A j \in Service!Gens \ {k} :
                          Calling(s, k) /\ Calling(s, j) => s.calls[k].service # s.calls[j].service
                      /\ s.calls[k].at \in {"handshake", "stopping"} => s.child = s.calls[k].service
                      /\ s.calls[k].at = "resolving" /\ s.active = s.calls[k].service => s.child = Service!None
    BY DEF CallsApart
  <2>1. \A j \in Service!Gens \ {g} : Calling(s, j) => s.calls[j].service \in 1..s.count /\ s.calls[j].service # n
    BY <1>11, <1>6, <1>8, <1>n DEF Calling, n
  <2>2. CASE k = g
    BY <1>6, <1>8, <1>n, <1>w, <2>1, <2>2 DEF Calling
  <2>3. CASE k # g
    <3>1. s.calls[k] = i.calls[k]
      BY <1>6, <1>8, <2>3
    <3>2. s.calls[k].at \notin {"handshake", "stopping"}
      <4>1. Calling(i, k) => i.calls[k].service # Service!None
        BY <1>11, <2>3 DEF Service!None
      <4> QED
        BY <1>1, <1>i, <3>1, <4>1 DEF Sound, CallsApart, Calling
    <3>3. \A j \in Service!Gens \ {k, g} : s.calls[j] = i.calls[j]
      BY <1>6, <1>8
    <3>4. s.calls[g].service = n
      BY <1>6, <1>8, <1>w
    <3> QED
      BY <1>1, <1>8, <2>1, <2>3, <3>1, <3>2, <3>3, <3>4 DEF Sound, CallsApart, Calling
  <2> QED
    BY <2>2, <2>3
<1>13. ProcessesFollow(s, p)
  <2>1. \A t \in Service!Services : t > n => p[t] = "none"
    BY <1>1, <1>i, <1>n DEF Sound, ProcessesFollow, Service!Services, n
  <2>2. p[n] = "none"
    <3>1. n > h.count
      BY <1>n DEF n
    <3> QED
      BY <1>1, <1>i, <1>n, <3>1 DEF Sound, ProcessesFollow
  <2>3. \A k \in Service!Gens : s.calls[k].at = "resolving" => p[s.calls[k].service] = "none"
    BY <1>1, <1>6, <1>8, <1>w, <2>2 DEF Sound, ProcessesFollow
  <2>4. \A t \in Service!Services : p[t] \in {"booting", "running"} => s.child = t
    BY <1>1, <1>i, <1>8 DEF Sound, ProcessesFollow
  <2> QED
    BY <1>1, <1>i, <1>8, <2>1, <2>3, <2>4 DEF Sound, ProcessesFollow
<1>14. StartsGoOn(s)
  BY <1>1, <1>i, <1>6, <1>8, <1>w DEF StartsGoOn, Settled
<1>15. Current(s)
  BY <1>8, DarkIsCurrent DEF Dark
<1> QED
  BY <1>8, <1>10, <1>12, <1>13, <1>14, <1>15 DEF Good, Sound, s

-----------------------------------------------------------------------------
Owners == [gen : Service!Gens \cup {Service!None}, phase : {"none", "activating", "active", "cleaning", "owed"}]
States == {"none", "booting", "running", "exited"}

\* The registry and the processes are what they are declared to be, and a
\* generation in hand is one.
Around == owner \in Owners /\ (owner.phase # "none" => owner.gen # Service!None)
          /\ aborted \subseteq Service!Gens /\ process \in [Service!Services -> States]

IService == Around /\ Good(serviceHost, process)

\* What the registry notes of its generation.
LEMMA OwnedIsAround ==
  ASSUME NEW g \in Service!Gens, NEW phase \in {"none", "activating", "active", "cleaning", "owed"}, Service!Own(g, phase)
  PROVE  owner' \in Owners /\ (owner'.phase # "none" => owner'.gen # Service!None)
BY DEF Service!Own, Owners, Service!Gens, Service!None

\* The phase a cleanup leaves is one.
LEMMA CleanupPhases ==
  ASSUME NEW h, NEW g
  PROVE  Service!CleanupPhase(h, g) \in {"none", "activating", "active", "cleaning", "owed"}
BY DEF Service!CleanupPhase

\* An activation that throws leaves the registry what it is declared to be.
LEMMA ThrownIsAround ==
  ASSUME Around, NEW h, NEW g \in Service!Gens, Service!ActivationThrows(h, g)
  PROVE  /\ owner' \in Owners /\ (owner'.phase # "none" => owner'.gen # Service!None)
         /\ aborted' \subseteq Service!Gens
<1> DEFINE let == Service!LetGo([h EXCEPT !.calls[g] = Service!Idle], g)
           phase == Service!CleanupPhase(let, g)
<1>1. CASE owner = [gen |-> g, phase |-> "activating"]
  <2>1. Service!Own(g, phase) /\ Service!Abort(g)
    BY <1>1 DEF Service!ActivationThrows
  <2>2. phase \in {"none", "activating", "active", "cleaning", "owed"}
    BY CleanupPhases
  <2> HIDE DEF phase
  <2> QED
    BY <2>1, <2>2, OwnedIsAround DEF Service!Abort, Around
<1>2. CASE owner # [gen |-> g, phase |-> "activating"]
  BY <1>2 DEF Service!ActivationThrows, Around
<1> QED
  BY <1>1, <1>2

\* Activating leaves the host good.
LEMMA ActivateServiceStep == ASSUME IService, NEW g \in Service!Gens, Service!Activate(g) PROVE IService'
<1> DEFINE own == [serviceHost EXCEPT !.registry = g]
           thrown == Service!LetGo(own, g)
<1>g. Good(serviceHost, process) /\ Sound(serviceHost, process) /\ serviceHost \in Service!HostStates
  BY DEF IService, Good, Sound
<1>p. process' = process /\ serviceHost.calls[g] = Service!Idle
  BY DEF Service!Activate
<1>f. own \in Service!HostStates /\ own.registry = g
      /\ own.count = serviceHost.count /\ own.calls = serviceHost.calls /\ own.child = serviceHost.child
      /\ own.active = serviceHost.active /\ own.asked = serviceHost.asked /\ own.ready = serviceHost.ready
      /\ own.stops = serviceHost.stops /\ own.state = serviceHost.state /\ own.grant = serviceHost.grant
      /\ own.read = serviceHost.read
  BY <1>g DEF Service!HostStates
<1>s. Sound(own, process)
  <2> HIDE DEF own
  <2>1. OneProcess(own)
    BY <1>f, <1>g DEF Sound, OneProcess
  <2>2. CallsApart(own)
    BY <1>f, <1>g DEF Sound, CallsApart, Calling
  <2>3. ProcessesFollow(own, process)
    BY <1>f, <1>g DEF Sound, ProcessesFollow
  <2> QED
    BY <1>f, <2>1, <2>2, <2>3 DEF Sound
<1>r. Settled(own)
  BY <1>f, <1>p DEF Settled, Service!Idle
<1> HIDE DEF own
<1>1. CASE serviceHost' = Service!Cleanup(serviceHost, g) /\ Service!Own(g, Service!CleanupPhase(serviceHost, g)) /\ Service!Abort(g)
  BY <1>1, <1>g, <1>p, CleanedUp, CleanupPhases, OwnedIsAround DEF IService, Around, Service!Abort
<1>2. CASE /\ serviceHost.registry \in {Service!None, g} /\ serviceHost.state = "ready"
           /\ serviceHost' = own /\ Service!Own(g, "active") /\ UNCHANGED aborted
  <2>1. Current(own)
    <3>1. \A r \in Service!Requests : serviceHost.asked[r].at # "none" => serviceHost.asked[r].gen # Service!None
      BY <1>g DEF Sound, ProcessesFollow
    <3> QED
      BY <1>2, <1>f, <1>g, <3>1 DEF Good, Current, Service!LeaseLive, Service!HostStates
  <2> QED
    BY <1>2, <1>p, <1>s, <1>r, <2>1, SettledGoesOn, OwnedIsAround DEF IService, Around, Good
<1>3. CASE /\ serviceHost.registry \in {Service!None, g} /\ serviceHost.state # "ready"
           /\ serviceHost' = Service!Cleanup(thrown, g) /\ Service!Own(g, Service!CleanupPhase(thrown, g)) /\ Service!Abort(g)
  <2>1. Dark(own)
    BY <1>3, <1>f, <1>g, NotReadyIsDark DEF Good, Dark
  <2>2. Sound(thrown, process) /\ Dark(thrown) /\ Settled(thrown)
    BY <2>1, <1>s, <1>r, LetGoIsGood
  <2> HIDE DEF thrown
  <2>3. Good(thrown, process)
    BY <2>2, SettledGoesOn, DarkIsCurrent DEF Good
  <2> QED
    BY <1>3, <1>p, <2>3, CleanedUp, CleanupPhases, OwnedIsAround DEF IService, Around, Service!Abort
<1>4. CASE /\ serviceHost.registry \in {Service!None, g} /\ serviceHost.state # "ready" /\ ~Service!StartRefused(serviceHost)
           /\ serviceHost.count < MaxServices
           /\ serviceHost' = Service!Start(own, g, ~serviceHost.refusing) /\ Service!Own(g, "activating")
           /\ UNCHANGED aborted
  <2>1. Dark(own)
    BY <1>4, <1>f, <1>g, NotReadyIsDark DEF Good, Dark
  <2>2. Sound([own EXCEPT !.calls[g] = Service!Idle], process) /\ Dark([own EXCEPT !.calls[g] = Service!Idle])
    BY <2>1, <1>s, CallEnds
  <2>3. own.child = Service!None /\ own.count < MaxServices /\ own.registry = g
    BY <1>4, <1>f DEF Service!StartRefused
  <2>4. (~serviceHost.refusing) \in BOOLEAN
    OBVIOUS
  <2>5. Good(Service!Start(own, g, ~serviceHost.refusing), process)
    BY <2>2, <2>3, <2>4, <1>f, Started
  <2> QED
    BY <1>4, <1>p, <2>5, OwnedIsAround DEF IService, Around
<1> QED
  BY <1>1, <1>2, <1>3, <1>4 DEF Service!Activate, own, thrown

\* So does giving a generation up.
LEMMA DeactivateStep == ASSUME IService, NEW g \in Service!Gens, Service!Deactivate(g) PROVE IService'
<1>1. Good(serviceHost', process')
  BY CleanedUp DEF IService, Service!Deactivate
<1> QED
  BY <1>1, CleanupPhases, OwnedIsAround DEF IService, Around, Service!Deactivate, Service!Abort

\* The folder is resolved: the service is forked, or the call ends.
LEMMA ResolvedStep == ASSUME IService, NEW g \in Service!Gens, Service!Resolved(g) PROVE IService'
<1> DEFINE c == serviceHost.calls[g]
<1>g. Good(serviceHost, process) /\ Sound(serviceHost, process) /\ serviceHost \in Service!HostStates
  BY DEF IService, Good, Sound
<1>c. c.at = "resolving" /\ c \in [at : {"none", "resolving", "handshake", "stopping"},
                         service : Service!Services \cup {Service!None}, probing : BOOLEAN]
  BY <1>g DEF Service!Resolved, Service!HostStates
<1>d. c.service \in Service!Services /\ c.service # Service!None /\ c.service <= serviceHost.count
  <2>1. c.service \in 1..serviceHost.count
    BY <1>c, <1>g DEF Sound, CallsApart, Calling
  <2>2. serviceHost.count \in 0..MaxServices /\ MaxServices \in Nat
    BY <1>g, ServiceBounds, BoundsAssumption DEF Service!HostStates
  <2> QED
    BY <2>1, <2>2 DEF Service!Services, Service!None
<1>1. CASE Service!ActivationThrows(serviceHost, g) /\ UNCHANGED process
           /\ (serviceHost.state # "starting" \/ serviceHost.active # c.service)
  <2> DEFINE i == [serviceHost EXCEPT !.calls[g] = Service!Idle]
             l == Service!LetGo(i, g)
  <2>1. serviceHost.registry # g
    BY <1>1, <1>c, <1>g DEF Good, StartsGoOn
  <2>2. Sound(i, process) /\ i.registry = serviceHost.registry /\ Current(i) /\ StartsGoOn(i)
    BY <1>g, CallEnds DEF Good
  <2>3. serviceHost' \in {Service!Cleanup(l, g), l}
    BY <1>1 DEF Service!ActivationThrows
  <2> HIDE DEF i
  <2>4. l = i
    BY <2>1, <2>2, LetGoIsGood
  <2>5. Good(l, process)
    BY <2>2, <2>4 DEF Good
  <2> HIDE DEF l
  <2>6. Good(serviceHost', process')
    BY <1>1, <2>3, <2>5, CleanedUp
  <2> QED
    BY <1>1, <2>6, ThrownIsAround DEF IService, Around
<1>2. CASE /\ serviceHost.state = "starting" /\ serviceHost.active = c.service
           /\ serviceHost' = [serviceHost EXCEPT !.child = c.service, !.calls[g].at = "handshake"]
           /\ process' = [process EXCEPT ![c.service] = "booting"]
           /\ UNCHANGED <<owner, aborted>>
  <2> DEFINE a == [serviceHost.calls EXCEPT ![g].at = "handshake"]
  <2>1. serviceHost.child = Service!None
    BY <1>2, <1>c, <1>g DEF Sound, CallsApart
  <2>2. serviceHost.stops = {}
    <3>1. \A w \in serviceHost.stops : w.service = Service!None /\ w.service \in Service!Services
      BY <2>1, <1>g DEF Sound, OneProcess, Service!HostStates
    <3> QED
      BY <3>1 DEF Service!Services, Service!None
  <2>3. /\ a \in [Service!Gens -> [at : {"none", "resolving", "handshake", "stopping"},
                         service : Service!Services \cup {Service!None}, probing : BOOLEAN]]
        /\ a[g].at = "handshake" /\ a[g].service = c.service
        /\ \A j \in Service!Gens \ {g} : a[j] = serviceHost.calls[j]
    BY <1>g DEF Service!HostStates
  <2>4. serviceHost' = [serviceHost EXCEPT !.child = c.service, !.calls = a]
    BY <1>2, <1>g DEF Service!HostStates
  <2>s. \A j \in Service!Gens \ {g} : Calling(serviceHost, j) => serviceHost.calls[j].service # c.service
    BY <1>c, <1>g DEF Sound, CallsApart, Calling
  <2>w. \A j \in Service!Gens \ {g} : serviceHost.calls[j].at \notin {"handshake", "stopping"}
    <3>1. \A j \in Service!Gens : Calling(serviceHost, j) => serviceHost.calls[j].service # Service!None
      BY <1>g, ServiceBounds, BoundsAssumption DEF Sound, CallsApart, Service!HostStates, Service!None
    <3> QED
      BY <1>g, <2>1, <3>1 DEF Sound, CallsApart, Calling
  <2> HIDE DEF a, c
  <2>5. /\ serviceHost' \in Service!HostStates /\ serviceHost'.child = c.service /\ serviceHost'.calls = a
        /\ serviceHost'.count = serviceHost.count /\ serviceHost'.active = serviceHost.active /\ serviceHost'.asked = serviceHost.asked
        /\ serviceHost'.ready = serviceHost.ready /\ serviceHost'.stops = serviceHost.stops /\ serviceHost'.state = serviceHost.state
        /\ serviceHost'.grant = serviceHost.grant /\ serviceHost'.read = serviceHost.read /\ serviceHost'.registry = serviceHost.registry
    BY <1>d, <1>g, <2>3, <2>4 DEF Service!HostStates
  <2>6. process \in [Service!Services -> States] /\ process' \in [Service!Services -> States]
    BY <1>2 DEF IService, Around, States
  <2>7. process'[c.service] = "booting" /\ \A s \in Service!Services \ {c.service} : process'[s] = process[s]
    BY <1>2, <1>d, <2>6
  <2>8. process[c.service] = "none"
    BY <1>c, <1>g DEF Sound, ProcessesFollow, c
  <2>9. OneProcess(serviceHost')
    BY <1>2, <2>2, <2>5 DEF OneProcess
  <2>10. CallsApart(serviceHost')
    <3> SUFFICES ASSUME NEW k \in Service!Gens
                 PROVE  /\ serviceHost'.calls[k].at = "none" => serviceHost'.calls[k] = Service!Idle
                        /\ Calling(serviceHost', k) => serviceHost'.calls[k].service \in 1..serviceHost'.count
                        /\ \A j \in Service!Gens \ {k} :
                            Calling(serviceHost', k) /\ Calling(serviceHost', j) =>
                                serviceHost'.calls[k].service # serviceHost'.calls[j].service
                        /\ serviceHost'.calls[k].at \in {"handshake", "stopping"} =>
                                serviceHost'.child = serviceHost'.calls[k].service
                        /\ serviceHost'.calls[k].at = "resolving" /\ serviceHost'.active = serviceHost'.calls[k].service =>
                                serviceHost'.child = Service!None
      BY DEF CallsApart
    <3>1. c.service \in 1..serviceHost.count
      BY <1>c, <1>g DEF Sound, CallsApart, Calling, c
    <3>2. CASE k = g
      BY <2>3, <2>5, <2>s, <3>1, <3>2 DEF Calling
    <3>3. CASE k # g
      <4>1. serviceHost'.calls[k] = serviceHost.calls[k] /\ serviceHost'.calls[g].service = c.service
        BY <2>3, <2>5, <3>3
      <4>2. \A j \in Service!Gens \ {g} : serviceHost'.calls[j] = serviceHost.calls[j]
        BY <2>3, <2>5
      <4> QED
        BY <1>2, <1>g, <2>5, <2>s, <2>w, <3>3, <4>1, <4>2 DEF Sound, CallsApart, Calling
    <3> QED
      BY <3>2, <3>3
  <2>11. ProcessesFollow(serviceHost', process')
    <3>1. \A s \in Service!Services : process'[s] \in {"booting", "running"} => serviceHost'.child = s
      <4>1. \A s \in Service!Services : process[s] \in {"booting", "running"} => s = Service!None
        BY <1>g, <2>1 DEF Sound, ProcessesFollow
      <4>2. \A s \in Service!Services : s # Service!None
        BY DEF Service!Services, Service!None
      <4> QED
        BY <2>5, <2>7, <4>1, <4>2
    <3>2. \A s \in Service!Services : s > serviceHost'.count => process'[s] = "none"
      <4>1. \A s \in Service!Services : s > serviceHost.count => s # c.service
        BY <1>d, <1>g, ServiceBounds, BoundsAssumption DEF Service!Services, Service!HostStates
      <4> QED
        BY <1>g, <2>5, <2>7, <4>1 DEF Sound, ProcessesFollow
    <3>3. \A j \in Service!Gens : serviceHost'.calls[j].at = "resolving" => process'[serviceHost'.calls[j].service] = "none"
      <4> SUFFICES ASSUME NEW j \in Service!Gens, serviceHost'.calls[j].at = "resolving"
                   PROVE  process'[serviceHost'.calls[j].service] = "none"
        OBVIOUS
      <4>1. j # g /\ serviceHost'.calls[j] = serviceHost.calls[j] /\ Calling(serviceHost, j)
        BY <2>3, <2>5 DEF Calling
      <4>2. serviceHost.calls[j].service \in Service!Services \ {c.service}
        <5>1. serviceHost.calls[j].service \in 1..serviceHost.count /\ serviceHost.count \in 0..MaxServices
          BY <1>g, <4>1 DEF Sound, CallsApart, Service!HostStates
        <5> QED
          BY <2>s, <4>1, <5>1, ServiceBounds, BoundsAssumption DEF Service!Services
      <4> QED
        BY <1>g, <2>7, <4>1, <4>2 DEF Sound, ProcessesFollow
    <3>4. serviceHost'.ready # Service!None => process'[serviceHost'.ready] \in {"running", "exited"}
      BY <1>g, <2>5, <2>7, <2>8 DEF Sound, ProcessesFollow, Service!HostStates
    <3>5. \A r \in Service!Requests : serviceHost'.asked[r].at # "none" =>
            /\ serviceHost'.asked[r].gen # Service!None /\ serviceHost'.asked[r].service # Service!None
            /\ process'[serviceHost'.asked[r].service] \in {"running", "exited"}
      BY <1>g, <2>5, <2>7, <2>8 DEF Sound, ProcessesFollow, Service!HostStates
    <3> QED
      BY <3>1, <3>2, <3>3, <3>4, <3>5 DEF ProcessesFollow
  <2>12. StartsGoOn(serviceHost')
    BY <1>g, <2>3, <2>5 DEF Good, StartsGoOn
  <2>13. Dark(serviceHost')
    BY <1>2, <1>g, <2>5, NotReadyIsDark DEF Good, Dark
  <2> QED
    BY <1>2, <2>5, <2>6, <2>9, <2>10, <2>11, <2>12, <2>13, DarkIsCurrent
       DEF IService, Around, Good, Sound
<1> QED
  BY <1>1, <1>2, <1>c DEF Service!Resolved

\* A start that waits for the process to go is still one.
LEMMA CallStops ==
  ASSUME NEW h, NEW p, Sound(h, p), Dark(h), Settled(h), NEW g \in Service!Gens, h.calls[g].at = "handshake"
  PROVE  Good([h EXCEPT !.calls[g].at = "stopping"], p)
<1> DEFINE a == [h.calls EXCEPT ![g].at = "stopping"]
           i == [h EXCEPT !.calls[g].at = "stopping"]
<1>t. h \in Service!HostStates
  BY DEF Sound
<1>1. i = [h EXCEPT !.calls = a]
  BY <1>t DEF Service!HostStates
<1>2. /\ a \in [Service!Gens -> [at : {"none", "resolving", "handshake", "stopping"},
                         service : Service!Services \cup {Service!None}, probing : BOOLEAN]]
      /\ a[g].at = "stopping" /\ a[g].service = h.calls[g].service
      /\ \A j \in Service!Gens \ {g} : a[j] = h.calls[j]
  BY <1>t DEF Service!HostStates
<1> HIDE DEF a
<1>3. [h EXCEPT !.calls = a] \in Service!HostStates
  BY <1>2, <1>t DEF Service!HostStates
<1>4. /\ i \in Service!HostStates /\ i.count = h.count /\ i.calls = a /\ i.child = h.child /\ i.active = h.active
      /\ i.asked = h.asked /\ i.ready = h.ready /\ i.stops = h.stops /\ i.state = h.state
      /\ i.grant = h.grant /\ i.read = h.read /\ i.registry = h.registry
  BY <1>1, <1>3, <1>t DEF Service!HostStates
<1> HIDE DEF i
<1>5. OneProcess(i)
  BY <1>4 DEF Sound, OneProcess
<1>6. \A k \in Service!Gens : i.calls[k].service = h.calls[k].service /\ (Calling(i, k) <=> Calling(h, k))
                      /\ (i.calls[k].at = "none" => i.calls[k] = h.calls[k] /\ h.calls[k].at = "none")
                      /\ (i.calls[k].at \in {"handshake", "stopping"} => h.calls[k].at \in {"handshake", "stopping"})
                      /\ (i.calls[k].at = "resolving" => h.calls[k].at = "resolving")
  BY <1>2, <1>4 DEF Calling
<1>7. CallsApart(i)
  BY <1>4, <1>6 DEF Sound, CallsApart
<1>8. ProcessesFollow(i, p)
  BY <1>4, <1>6 DEF Sound, ProcessesFollow
<1>9. Settled(i)
  BY <1>4, <1>6 DEF Settled
<1>10. Dark(i)
  BY <1>4 DEF Dark
<1> QED
  BY <1>4, <1>5, <1>7, <1>8, <1>9, <1>10, SettledGoesOn, DarkIsCurrent DEF Good, Sound, i

\* A handshake that fails waits for the process to go.
LEMMA HandshakeFailed ==
  ASSUME NEW h, NEW p, Good(h, p), NEW g \in Service!Gens, h.calls[g].at = "handshake",
         NEW compatible \in BOOLEAN, Service!HandshakeFails(h, g, compatible)
  PROVE  Good(serviceHost', p) /\ UNCHANGED <<owner, aborted>>
<1> DEFINE c == h.calls[g]
           r == [h EXCEPT !.refusing = TRUE]
           fallback == c.probing /\ compatible
           stopped == IF fallback THEN Service!Stop(r, "fallback", g) ELSE Service!Stop(Service!Fail(h, c.service), "failure", g)
<1>t. h \in Service!HostStates /\ Sound(h, p) /\ Current(h) /\ StartsGoOn(h)
  BY DEF Good, Sound
<1>1. c.service = h.child /\ c.service \in 1..h.count
  BY <1>t DEF Sound, CallsApart, Calling
<1>2. h.child # Service!None
  BY <1>1, <1>t, ServiceBounds, BoundsAssumption DEF Service!HostStates, Service!None
<1>3. h.active = h.child /\ Service!StopWaits(h)
  BY <1>2, <1>t DEF Sound, OneProcess, Service!StopWaits
<1>4. serviceHost' = [stopped EXCEPT !.calls[g].at = "stopping"] /\ UNCHANGED <<owner, aborted>>
  BY <1>3 DEF Service!HandshakeFails
<1>5. Settled(h)
  BY <1>2, <1>t, ChildIsSettled
<1>6. Sound(stopped, p) /\ Dark(stopped) /\ Same(h, stopped)
  <2>1. CASE fallback
    <3>1. /\ r \in Service!HostStates /\ Same(h, r) /\ r.ready = h.ready /\ r.active = h.active
          /\ r.stops = h.stops /\ r.state = h.state /\ r.read = h.read /\ r.grant = h.grant
          /\ r.asked = h.asked
      BY <1>t DEF Service!HostStates, Same
    <3> HIDE DEF r
    <3>2. \A w \in r.stops : w.service = h.child /\ r.state \notin {"starting", "ready"}
      BY <1>t, <3>1 DEF Sound, OneProcess
    <3>3. Sound(r, p)
      BY <1>t, <3>1, <3>2, SameIsSound
    <3>4. Current(r)
      BY <1>t, <3>1 DEF Current, Service!LeaseLive, Same
    <3>5. /\ Sound(Service!Stop(r, "fallback", g), p) /\ Dark(Service!Stop(r, "fallback", g))
          /\ Same(r, Service!Stop(r, "fallback", g))
      BY <3>3, <3>4, Stopped
    <3>6. Same(h, Service!Stop(r, "fallback", g))
      BY <3>1, <3>5 DEF Same
    <3> QED
      BY <2>1, <3>5, <3>6
  <2>2. CASE ~fallback
    <3> DEFINE f == Service!Fail(h, c.service)
    <3>1. Sound(f, p) /\ Dark(f) /\ Same(h, f)
      BY <1>1, <1>3, <1>t, Failed
    <3> HIDE DEF f
    <3>2. /\ Sound(Service!Stop(f, "failure", g), p) /\ Dark(Service!Stop(f, "failure", g))
          /\ Same(f, Service!Stop(f, "failure", g))
      BY <3>1, DarkIsCurrent, Stopped
    <3>3. Same(h, Service!Stop(f, "failure", g))
      BY <3>1, <3>2 DEF Same
    <3> QED
      BY <2>2, <3>2, <3>3 DEF f
  <2> QED
    BY <2>1, <2>2
<1> HIDE DEF stopped
<1>7. Settled(stopped) /\ stopped.calls[g].at = "handshake"
  BY <1>5, <1>6 DEF Same, Settled
<1> QED
  BY <1>4, <1>6, <1>7, CallStops

\* No handshake in time: the start waits for the process to go.
LEMMA HandshakeTimesOutStep == ASSUME IService, NEW g \in Service!Gens, Service!HandshakeTimesOut(g) PROVE IService'
<1>1. Service!HandshakeFails(serviceHost, g, FALSE) /\ serviceHost.calls[g].at = "handshake" /\ process' = process
  BY DEF Service!HandshakeTimesOut
<1>2. Good(serviceHost', process) /\ UNCHANGED <<owner, aborted>>
  BY <1>1, HandshakeFailed DEF IService
<1> QED
  BY <1>1, <1>2 DEF IService, Around

\* The process misbehaves: what it served is over.
LEMMA ProcessMisbehavesStep ==
  ASSUME IService, NEW s \in Service!Services, Service!ProcessMisbehaves(s)
  PROVE  IService'
<1> DEFINE f == Service!Fail(serviceHost, s)
<1>1. serviceHost.active = s /\ serviceHost.child = s /\ process' = process /\ s # Service!None
  BY DEF Service!ProcessMisbehaves, Service!Services, Service!None
<1>2. Sound(f, process) /\ Dark(f) /\ Same(serviceHost, f)
  BY <1>1, Failed DEF IService, Good
<1>3. Settled(serviceHost)
  BY <1>1, ChildIsSettled DEF IService, Good
<1>4. Good(f, process)
  <2> HIDE DEF f
  <2>1. Settled(f)
    BY <1>2, <1>3 DEF Same, Settled
  <2> QED
    BY <1>2, <2>1, SettledGoesOn, DarkIsCurrent DEF Good
<1>5. CASE serviceHost' = f /\ UNCHANGED <<owner, aborted>>
  BY <1>1, <1>4, <1>5 DEF IService, Around
<1>6. CASE \E g \in Service!Gens : serviceHost.calls[g].at = "handshake" /\ Service!HandshakeFails(f, g, FALSE)
  <2>1. PICK g \in Service!Gens : serviceHost.calls[g].at = "handshake" /\ Service!HandshakeFails(f, g, FALSE)
    BY <1>6
  <2> HIDE DEF f
  <2>2. f.calls[g].at = "handshake"
    BY <1>2, <2>1 DEF Same
  <2>3. Good(serviceHost', process) /\ UNCHANGED <<owner, aborted>>
    BY <1>4, <2>1, <2>2, HandshakeFailed
  <2> QED
    BY <1>1, <2>3 DEF IService, Around
<1> QED
  BY <1>5, <1>6 DEF Service!ProcessMisbehaves

\* The process says it is ready: it serves the start that waits for it, unless
\* that was given up or has to fall back.
LEMMA SaysReadyStep == ASSUME IService, NEW s \in Service!Services, Service!SaysReady(s) PROVE IService'
<1>g. Good(serviceHost, process) /\ Sound(serviceHost, process) /\ serviceHost \in Service!HostStates
  BY DEF IService, Good, Sound
<1>p. process \in [Service!Services -> States] /\ process[s] = "booting" /\ process' = [process EXCEPT ![s] = "running"]
  BY DEF IService, Around, Service!SaysReady
<1>q. process' \in [Service!Services -> States] /\ process'[s] = "running"
      /\ \A t \in Service!Services \ {s} : process'[t] = process[t]
  BY <1>p DEF States
<1>c. serviceHost.child = s /\ s # Service!None
  BY <1>g, <1>p DEF Sound, ProcessesFollow, Service!Services, Service!None
<1>n. \A r \in Service!Requests : serviceHost.asked[r].at # "none" => serviceHost.asked[r].service # s
  BY <1>g, <1>p DEF Sound, ProcessesFollow
<1>1. ProcessesFollow(serviceHost, process')
  <2>1. \A t \in Service!Services : process'[t] \in {"booting", "running"} => serviceHost.child = t
    BY <1>g, <1>q, <1>c DEF Sound, ProcessesFollow
  <2>2. \A t \in Service!Services : t > serviceHost.count => process'[t] = "none"
    BY <1>g, <1>p, <1>q DEF Sound, ProcessesFollow
  <2>3. \A g \in Service!Gens : serviceHost.calls[g].at = "resolving" => process'[serviceHost.calls[g].service] = "none"
    BY <1>g, <1>p, <1>q DEF Sound, ProcessesFollow, Service!HostStates
  <2>4. serviceHost.ready # Service!None => process'[serviceHost.ready] \in {"running", "exited"}
    BY <1>g, <1>q DEF Sound, ProcessesFollow, Service!HostStates
  <2>5. \A r \in Service!Requests : serviceHost.asked[r].at # "none" =>
          /\ serviceHost.asked[r].gen # Service!None /\ serviceHost.asked[r].service # Service!None
          /\ process'[serviceHost.asked[r].service] \in {"running", "exited"}
    BY <1>g, <1>q DEF Sound, ProcessesFollow, Service!HostStates
  <2> QED
    BY <2>1, <2>2, <2>3, <2>4, <2>5 DEF ProcessesFollow
<1>2. Good(serviceHost, process')
  BY <1>1, <1>g DEF Good, Sound
<1>s. Settled(serviceHost)
  BY <1>c, <1>g, ChildIsSettled DEF Good
<1>3. CASE UNCHANGED <<owner, serviceHost, aborted>>
  BY <1>2, <1>3, <1>q DEF IService, Around
<1>4. CASE \E g \in Service!Gens, compatible \in BOOLEAN :
             serviceHost.calls[g].at = "handshake" /\ Service!HandshakeFails(serviceHost, g, compatible)
  <2>1. PICK g \in Service!Gens, compatible \in BOOLEAN :
          serviceHost.calls[g].at = "handshake" /\ Service!HandshakeFails(serviceHost, g, compatible)
    BY <1>4
  <2>2. Good(serviceHost', process') /\ UNCHANGED <<owner, aborted>>
    BY <1>2, <2>1, HandshakeFailed
  <2> QED
    BY <1>q, <2>2 DEF IService, Around
<1>5. ASSUME NEW g \in Service!Gens, serviceHost.state = "starting", serviceHost.active = s,
             Service!ActivateEnds([serviceHost EXCEPT !.state = "ready", !.ready = s], g)
      PROVE  IService'
  <2> DEFINE h == [serviceHost EXCEPT !.state = "ready", !.ready = s]
             i == [h EXCEPT !.calls[g] = Service!Idle]
             k == Service!Stop(i, "late", g)
             l == Service!LetGo(k, g)
  <2>1. /\ h \in Service!HostStates /\ Same(serviceHost, h) /\ h.ready = s /\ h.active = s
        /\ h.stops = serviceHost.stops /\ h.state = "ready" /\ h.read = serviceHost.read /\ h.grant = serviceHost.grant
        /\ h.asked = serviceHost.asked
    BY <1>5, <1>g DEF Service!HostStates, Same
  <2>a. Service!ActivateEnds(h, g)
    BY <1>5
  <2> HIDE DEF h
  <2>2. serviceHost.read = Service!None /\ serviceHost.grant = Service!NoGrant /\ serviceHost.stops = {}
    BY <1>5, <1>g, NotReadyIsDark DEF Good, Dark, Sound, OneProcess
  <2>3. Sound(h, process')
    <3>1. OneProcess(h)
      BY <1>c, <2>1, <2>2 DEF OneProcess, Same
    <3>2. CallsApart(h)
      BY <1>5, <1>g, <2>1 DEF Sound, CallsApart, Calling, Same
    <3>3. ProcessesFollow(h, process')
      BY <1>1, <1>q, <2>1 DEF ProcessesFollow, Same
    <3> QED
      BY <2>1, <3>1, <3>2, <3>3 DEF Sound
  <2>4. Current(h)
    BY <1>n, <2>1, <2>2 DEF Current, Service!LeaseLive
  <2>5. Settled(h)
    BY <1>s, <2>1 DEF Same, Settled
  <2>6. Sound(i, process') /\ Current(i) /\ Settled(i)
    BY <2>3, <2>4, <2>5, CallEnds
  <2>7. CASE serviceHost' = i
    <3>1. Good(serviceHost', process')
      BY <2>6, <2>7, SettledGoesOn DEF Good
    <3>2. CASE UNCHANGED <<owner, aborted>>
      BY <1>q, <3>1, <3>2 DEF IService, Around
    <3>3. CASE Service!Own(g, "active") /\ UNCHANGED aborted
      BY <1>q, <3>1, <3>3, OwnedIsAround DEF IService, Around
    <3> QED
      BY <2>a, <3>2, <3>3 DEF Service!ActivateEnds
  <2>8. CASE serviceHost' = l /\ UNCHANGED <<owner, aborted>>
    <3> HIDE DEF i
    <3>1. Sound(k, process') /\ Dark(k) /\ Same(i, k)
      BY <2>6, Stopped
    <3> HIDE DEF k
    <3>2. Settled(k)
      BY <2>6, <3>1 DEF Same, Settled
    <3>3. Sound(l, process') /\ Dark(l) /\ Settled(l)
      BY <3>1, <3>2, LetGoIsGood
    <3> HIDE DEF l
    <3>4. Good(serviceHost', process')
      BY <2>8, <3>3, SettledGoesOn, DarkIsCurrent DEF Good
    <3> QED
      BY <1>q, <2>8, <3>4 DEF IService, Around
  <2> QED
    BY <2>a, <2>7, <2>8 DEF Service!ActivateEnds
<1> QED
  BY <1>3, <1>4, <1>5 DEF Service!SaysReady

\* What is left of the host when its process has gone: whatever it had of a
\* process ends, and nobody waits for one.
Left(h, x) ==
    /\ x \in Service!HostStates /\ x.count = h.count /\ x.child = Service!None /\ x.active = Service!None
    /\ x.ready = Service!None /\ x.read = Service!None /\ x.grant = Service!NoGrant /\ x.stops = {}
    /\ x.state \notin {"starting", "ready"} /\ x.registry \in {Service!None, h.registry}
    /\ \A r \in Service!Requests :
        /\ x.asked[r].at = "none" <=> h.asked[r].at = "none"
        /\ x.asked[r].gen = h.asked[r].gen /\ x.asked[r].service = h.asked[r].service

\* That is sound where no start is about the process that has gone.
LEMMA LeftIsSound ==
  ASSUME NEW h, NEW p \in [Service!Services -> States], Sound(h, p), Settled(h), NEW s \in Service!Services, h.child = s,
         p[s] \in {"booting", "running"},
         NEW x, Left(h, x),
         \A j \in Service!Gens : x.calls[j] \in {h.calls[j], Service!Idle} /\ x.calls[j].at \notin {"handshake", "stopping"}
  PROVE  Sound(x, [p EXCEPT ![s] = "exited"]) /\ Settled(x) /\ Dark(x)
<1> DEFINE q == [p EXCEPT ![s] = "exited"]
<1>q. q[s] = "exited" /\ \A t \in Service!Services \ {s} : q[t] = p[t]
  BY DEF States
<1> HIDE DEF q
<1>i. Service!Idle.at = "none"
  BY DEF Service!Idle
<1>1. OneProcess(x)
  BY DEF OneProcess, Left
<1>2. CallsApart(x)
  <2>1. \A j \in Service!Gens : Calling(x, j) => Calling(h, j) /\ x.calls[j] = h.calls[j]
    BY <1>i DEF Calling
  <2>2. \A j \in Service!Gens : x.calls[j].at = "none" => x.calls[j] = Service!Idle
    BY DEF Sound, CallsApart
  <2>3. \A j \in Service!Gens : x.calls[j].at \notin {"handshake", "stopping"}
    OBVIOUS
  <2> QED
    BY <2>1, <2>2, <2>3 DEF Sound, CallsApart, Left
<1>3. ProcessesFollow(x, q)
  <2>1. \A t \in Service!Services : q[t] \notin {"booting", "running"}
    BY <1>q DEF Sound, ProcessesFollow
  <2>2. \A t \in Service!Services : t > x.count => q[t] = "none"
    <3>1. \A t \in Service!Services : t > h.count => p[t] = "none"
      BY DEF Sound, ProcessesFollow
    <3> QED
      BY <3>1, <1>q DEF Left
  <2>3. \A j \in Service!Gens : x.calls[j].at = "resolving" => q[x.calls[j].service] = "none"
    <3> SUFFICES ASSUME NEW j \in Service!Gens, x.calls[j].at = "resolving"
                 PROVE  q[x.calls[j].service] = "none"
      OBVIOUS
    <3>1. x.calls[j] = h.calls[j] /\ Calling(h, j)
      BY <1>i DEF Calling
    <3>2. p[h.calls[j].service] = "none" /\ h.calls[j].service \in Service!Services
      <4>1. h.calls[j].service \in 1..h.count /\ h.count \in 0..MaxServices
        BY <3>1 DEF Sound, CallsApart, Service!HostStates
      <4> QED
        BY <3>1, <4>1, ServiceBounds, BoundsAssumption DEF Sound, ProcessesFollow, Service!Services
    <3> QED
      BY <3>1, <3>2, <1>q
  <2>4. \A r \in Service!Requests : x.asked[r].at # "none" =>
          /\ x.asked[r].gen # Service!None /\ x.asked[r].service # Service!None
          /\ q[x.asked[r].service] \in {"running", "exited"}
    BY <1>q DEF Sound, ProcessesFollow, Service!HostStates, Left
  <2> QED
    BY <2>1, <2>2, <2>3, <2>4 DEF ProcessesFollow, Left
<1>4. Settled(x)
  BY <1>i DEF Settled, Left, Service!Gens, Service!None
<1>5. Dark(x)
  BY DEF Dark, Left
<1> QED
  BY <1>1, <1>2, <1>3, <1>4, <1>5 DEF Sound, Left, q

\* The process goes: what it served and whoever waited for it ends.
LEMMA ProcessExitsStep == ASSUME IService, NEW s \in Service!Services, Service!ProcessExits(s) PROVE IService'
<1> DEFINE m == [serviceHost EXCEPT !.meant = @ \ {s}]
           c == Service!ClearReadiness(m)
           e == Service!EndRead(c)
           meant == s \in serviceHost.meant
           state == IF meant THEN "stopped" ELSE "failed"
           given == IF meant THEN e.registry ELSE Service!None
           told == [e EXCEPT !.child = Service!None, !.active = Service!None, !.state = state, !.registry = given]
           x == Service!Exited(told, s)
           q == [process EXCEPT ![s] = "exited"]
           crashed == ~meant /\ owner = [gen |-> serviceHost.registry, phase |-> "active"]
           cleaned == owner.phase = "cleaning"
                      /\ \E w \in serviceHost.stops : w.service = s /\ w.for = "cleanup" /\ w.gen = owner.gen
           starting == {g \in Service!Gens : x.calls[g].service = s /\ x.calls[g].at \in {"handshake", "stopping"}}
           left == IF cleaned THEN Service!Own(Service!None, "none") ELSE UNCHANGED owner
<1>g. Good(serviceHost, process) /\ Sound(serviceHost, process) /\ serviceHost \in Service!HostStates
  BY DEF IService, Good, Sound
<1>p. process \in [Service!Services -> States] /\ process[s] \in {"booting", "running"} /\ process' = q
      /\ q \in [Service!Services -> States]
  BY DEF IService, Around, Service!ProcessExits, States
<1>c. serviceHost.child = s /\ s # Service!None /\ serviceHost.active = s
  BY <1>g, <1>p DEF Sound, ProcessesFollow, OneProcess, Service!Services, Service!None
<1>s. Settled(serviceHost)
  BY <1>c, <1>g, ChildIsSettled DEF Good
<1>1. /\ m \in Service!HostStates /\ Same(serviceHost, m) /\ m.active = serviceHost.active /\ m.stops = serviceHost.stops
      /\ m.ready = serviceHost.ready /\ m.state = serviceHost.state /\ m.read = serviceHost.read /\ m.grant = serviceHost.grant
      /\ m.asked = serviceHost.asked
  BY <1>g DEF Service!HostStates, Same
<1>a. \/ /\ starting = {} /\ serviceHost' = x
         /\ IF crashed THEN Service!Own(Service!None, "none") /\ Service!Abort(owner.gen) ELSE left /\ UNCHANGED aborted
      \/ \E g \in starting :
            \/ /\ x.count < MaxServices
               /\ serviceHost' = Service!Start(x, g, FALSE)
               /\ left /\ UNCHANGED aborted
            \/ IF cleaned
               THEN /\ serviceHost' = Service!LetGo([Service!Stop(x, "failure", g) EXCEPT !.calls[g] = Service!Idle], g)
                    /\ left /\ UNCHANGED aborted
               ELSE Service!ActivationThrows(Service!Stop(x, "failure", g), g)
  BY <1>c DEF Service!ProcessExits
<1> HIDE DEF m
<1>2. Current(m)
  BY <1>1, <1>g DEF Good, Current, Service!LeaseLive, Same
<1>3. /\ c \in Service!HostStates /\ c.ready = Service!None /\ c.grant = Service!NoGrant /\ Same(m, c)
      /\ c.active = serviceHost.active /\ c.read = serviceHost.read /\ c.stops = serviceHost.stops /\ c.asked = serviceHost.asked
  BY <1>1, <1>2, ClearedIsSame
<1> HIDE DEF c
<1>4. c.read # Service!None => c.asked[c.read].gen = c.registry /\ c.asked[c.read].service = c.active
                       /\ c.asked[c.read].at # "none"
  BY <1>1, <1>3, <1>g DEF Good, Current, Service!LeaseLive, Same, Service!HostStates
<1>5. /\ e \in Service!HostStates /\ e.read = Service!None /\ Same(c, e)
      /\ e.ready = Service!None /\ e.stops = serviceHost.stops /\ e.grant = Service!NoGrant
  BY <1>3, <1>4, ReadEnded
<1> HIDE DEF e
<1>6. Same(serviceHost, e)
  BY <1>1, <1>3, <1>5 DEF Same
<1>7. given \in {Service!None, serviceHost.registry} /\ given \in Service!Gens \cup {Service!None} /\ state \in {"stopped", "failed"}
  BY <1>g, <1>6 DEF Same, Service!HostStates
<1> HIDE DEF given, state
<1>8. /\ told \in Service!HostStates /\ told.child = Service!None /\ told.active = Service!None /\ told.state = state
      /\ told.registry = given /\ told.read = Service!None /\ told.ready = Service!None /\ told.grant = Service!NoGrant
      /\ told.stops = serviceHost.stops /\ told.count = serviceHost.count /\ told.calls = serviceHost.calls
      /\ told.asked = e.asked
  <2>1. [e EXCEPT !.child = Service!None, !.active = Service!None] \in Service!HostStates
    BY <1>5 DEF Service!HostStates
  <2>2. \A k \in Service!HostStates : [k EXCEPT !.state = state, !.registry = given] \in Service!HostStates
    BY <1>7, ZenonT(60) DEF Service!HostStates
  <2>3. told = [[e EXCEPT !.child = Service!None, !.active = Service!None] EXCEPT !.state = state, !.registry = given]
    OBVIOUS
  <2>4. told \in Service!HostStates
    BY <2>1, <2>2, <2>3
  <2> QED
    BY <1>5, <1>6, <2>4 DEF Service!HostStates, Same
<1> HIDE DEF told
<1>9. Left(serviceHost, x) /\ x.calls = serviceHost.calls
  <2> DEFINE ending == {w \in told.stops : w.service = s}
             let == {w.gen : w \in {v \in ending : v.for \in {"cleanup", "late"}}}
             stops == told.stops \ ending
             reg == IF told.registry \in let THEN Service!None ELSE told.registry
  <2>1. x = [told EXCEPT !.stops = stops, !.registry = reg]
    BY DEF Service!Exited
  <2>2. stops = {}
    BY <1>8, <1>c, <1>g DEF Sound, OneProcess
  <2>3. reg \in {Service!None, serviceHost.registry} /\ reg \in Service!Gens \cup {Service!None}
    BY <1>7, <1>8
  <2> HIDE DEF stops, reg, x
  <2>4. /\ x \in Service!HostStates /\ x.child = Service!None /\ x.active = Service!None /\ x.state = state
        /\ x.registry = reg /\ x.read = Service!None /\ x.ready = Service!None /\ x.grant = Service!NoGrant
        /\ x.stops = {} /\ x.count = serviceHost.count /\ x.calls = serviceHost.calls /\ x.asked = e.asked
    <3>1. stops \in SUBSET [service : Service!Services, for : {"cleanup", "fallback", "failure", "late"}, gen : Service!Gens]
      BY <2>2
    <3>2. [told EXCEPT !.stops = stops, !.registry = reg] \in Service!HostStates
      BY <1>8, <2>3, <3>1 DEF Service!HostStates
    <3> QED
      BY <1>8, <2>1, <2>2, <3>2 DEF Service!HostStates
  <2> QED
    BY <1>6, <1>7, <2>3, <2>4 DEF Left, Same
<1> HIDE DEF x
<1>10. \A g \in starting : \A j \in Service!Gens \ {g} : x.calls[j].at \notin {"handshake", "stopping"}
  <2> SUFFICES ASSUME NEW g \in starting, NEW j \in Service!Gens \ {g},
                      serviceHost.calls[j].at \in {"handshake", "stopping"}
               PROVE  FALSE
    BY <1>9
  <2>1. serviceHost.calls[g].at \in {"handshake", "stopping"} /\ serviceHost.calls[g].service = s /\ g \in Service!Gens
    BY <1>9
  <2> QED
    BY <1>c, <1>g, <2>1 DEF Sound, CallsApart, Calling
<1>11. /\ owner' \in Owners /\ (owner'.phase # "none" => owner'.gen # Service!None) /\ aborted' \subseteq Service!Gens
       \/ \E g \in Service!Gens : Service!ActivationThrows(Service!Stop(x, "failure", g), g)
  <2>1. ASSUME Service!Own(Service!None, "none") PROVE owner' \in Owners /\ (owner'.phase # "none" => owner'.gen # Service!None)
    BY <2>1 DEF Service!Own, Owners
  <2>2. ASSUME left PROVE owner' \in Owners /\ (owner'.phase # "none" => owner'.gen # Service!None)
    BY <2>1, <2>2 DEF IService, Around
  <2>3. ASSUME crashed, Service!Abort(owner.gen) PROVE aborted' \subseteq Service!Gens
    BY <2>3 DEF IService, Around, Service!Abort, Owners, Service!Gens, Service!None
  <2> HIDE DEF left, crashed
  <2>4. aborted' = aborted => aborted' \subseteq Service!Gens
    BY DEF IService, Around
  <2> QED
    BY <1>a, <2>1, <2>2, <2>3, <2>4
<1>12. owner' \in Owners /\ (owner'.phase # "none" => owner'.gen # Service!None) /\ aborted' \subseteq Service!Gens
  BY <1>11, ThrownIsAround DEF IService
<1> SUFFICES Good(serviceHost', q)
  BY <1>p, <1>12 DEF IService, Around
<1> HIDE DEF q
<1>13. CASE starting = {} /\ serviceHost' = x
  <2>1. \A j \in Service!Gens : serviceHost.calls[j].at \in {"handshake", "stopping"} => serviceHost.calls[j].service = s
    BY <1>c, <1>g DEF Sound, CallsApart
  <2>2. \A j \in Service!Gens : x.calls[j] \in {serviceHost.calls[j], Service!Idle} /\ x.calls[j].at \notin {"handshake", "stopping"}
    BY <1>9, <1>13, <2>1
  <2>3. Sound(x, q) /\ Settled(x) /\ Dark(x)
    BY <1>c, <1>g, <1>p, <1>s, <1>9, <2>2, LeftIsSound DEF q
  <2> QED
    BY <1>13, <2>3, SettledGoesOn, DarkIsCurrent DEF Good
<1>14. ASSUME NEW g \in starting PROVE
         LET i == [x EXCEPT !.calls[g] = Service!Idle] IN Left(serviceHost, i) /\ Sound(i, q) /\ Settled(i) /\ Dark(i)
  <2> DEFINE i == [x EXCEPT !.calls[g] = Service!Idle]
             a == [x.calls EXCEPT ![g] = Service!Idle]
  <2>x. x \in Service!HostStates /\ x.child = Service!None /\ x.active = Service!None /\ x.stops = {}
    BY <1>9 DEF Left
  <2>1. i = [x EXCEPT !.calls = a]
    BY <2>x DEF Service!HostStates
  <2>2. /\ a \in [Service!Gens -> [at : {"none", "resolving", "handshake", "stopping"},
                         service : Service!Services \cup {Service!None}, probing : BOOLEAN]]
        /\ a[g] = Service!Idle /\ \A j \in Service!Gens \ {g} : a[j] = serviceHost.calls[j]
    BY <1>9 DEF Left, Service!HostStates, Service!Idle
  <2> HIDE DEF a
  <2>3. /\ i \in Service!HostStates /\ i.child = Service!None /\ i.active = Service!None /\ i.state = x.state
        /\ i.registry = x.registry /\ i.read = x.read /\ i.ready = x.ready /\ i.grant = x.grant
        /\ i.stops = {} /\ i.count = x.count /\ i.calls = a /\ i.asked = x.asked
    <3>1. [x EXCEPT !.calls = a] \in Service!HostStates
      BY <2>x, <2>2 DEF Service!HostStates
    <3> QED
      BY <2>x, <2>1, <3>1 DEF Service!HostStates
  <2> HIDE DEF i
  <2>4. Left(serviceHost, i)
    BY <1>9, <2>3 DEF Left
  <2>5. Service!Idle.at = "none"
    BY DEF Service!Idle
  <2>6. \A j \in Service!Gens : i.calls[j] \in {serviceHost.calls[j], Service!Idle} /\ i.calls[j].at \notin {"handshake", "stopping"}
    BY <1>9, <1>10, <2>2, <2>3, <2>5
  <2>7. Sound(i, q) /\ Settled(i) /\ Dark(i)
    BY <1>c, <1>g, <1>p, <1>s, <2>4, <2>6, LeftIsSound DEF q
  <2> QED
    BY <2>4, <2>7 DEF i
<1>x. x \in Service!HostStates /\ x.child = Service!None /\ ~Service!StopWaits(x)
  BY <1>9 DEF Left, Service!StopWaits
<1>15. ASSUME NEW g \in starting, x.count < MaxServices, serviceHost' = Service!Start(x, g, FALSE) PROVE Good(serviceHost', q)
  <2>1. g \in Service!Gens /\ FALSE \in BOOLEAN
    OBVIOUS
  <2> QED
    BY <1>14, <1>15, <1>x, <2>1, Started
<1>16. ASSUME NEW g \in starting PROVE
         LET i == [Service!Stop(x, "failure", g) EXCEPT !.calls[g] = Service!Idle]
         IN  Sound(i, q) /\ Settled(i) /\ Dark(i)
  <2> DEFINE i == [x EXCEPT !.calls[g] = Service!Idle]
             k == [Service!Stop(x, "failure", g) EXCEPT !.calls[g] = Service!Idle]
             c2 == Service!ClearReadiness(x)
  <2>1. Left(serviceHost, i) /\ Sound(i, q) /\ Settled(i) /\ Dark(i)
    BY <1>14
  <2>2. /\ Left(serviceHost, x) /\ x.calls = serviceHost.calls
    BY <1>9
  <2>3. Service!Stop(x, "failure", g) = [c2 EXCEPT !.state = "stopped", !.child = Service!None, !.active = Service!None]
    BY <1>x DEF Service!Stop
  <2>4. /\ c2 \in Service!HostStates /\ c2.ready = Service!None /\ c2.grant = Service!NoGrant /\ Same(x, c2)
        /\ c2.read = Service!None /\ c2.stops = {}
    <3>1. Current(x)
      BY <2>2, DarkIsCurrent DEF Left, Dark
    <3> QED
      BY <2>2, <3>1, ClearedIsSame DEF Left
  <2> DEFINE o == Service!Stop(x, "failure", g)
             b == [serviceHost.calls EXCEPT ![g] = Service!Idle]
  <2> HIDE DEF c2
  <2>5. /\ o \in Service!HostStates /\ Same(x, o) /\ o.active = Service!None /\ o.stops = {} /\ o.ready = Service!None
        /\ o.state = "stopped" /\ o.read = Service!None /\ o.grant = Service!NoGrant
    <3>1. [c2 EXCEPT !.state = "stopped"] \in Service!HostStates
      BY <2>4 DEF Service!HostStates
    <3>2. \A u \in Service!HostStates : [u EXCEPT !.child = Service!None, !.active = Service!None] \in Service!HostStates
      BY ZenonT(60) DEF Service!HostStates
    <3>3. [c2 EXCEPT !.state = "stopped", !.child = Service!None, !.active = Service!None]
          = [[c2 EXCEPT !.state = "stopped"] EXCEPT !.child = Service!None, !.active = Service!None]
      OBVIOUS
    <3>4. o \in Service!HostStates
      BY <2>3, <3>1, <3>2, <3>3
    <3>5. /\ o.active = Service!None /\ o.stops = {} /\ o.ready = Service!None /\ o.child = Service!None
          /\ o.state = "stopped" /\ o.read = Service!None /\ o.grant = Service!NoGrant
          /\ o.count = c2.count /\ o.calls = c2.calls /\ o.registry = c2.registry /\ o.asked = c2.asked
      BY <2>3, <2>4 DEF Service!HostStates
    <3> QED
      BY <1>x, <2>4, <3>4, <3>5 DEF Same
  <2> HIDE DEF o
  <2>6. b \in [Service!Gens -> [at : {"none", "resolving", "handshake", "stopping"},
                       service : Service!Services \cup {Service!None}, probing : BOOLEAN]]
    BY <1>g DEF Service!HostStates, Service!Idle
  <2>c. o.calls = serviceHost.calls /\ x.calls = serviceHost.calls
    BY <2>2, <2>5 DEF Same
  <2>k. k = [o EXCEPT !.calls = b]
    BY <2>5, <2>c DEF Service!HostStates, o
  <2>i. i.calls = b /\ i.count = x.count /\ i.child = x.child /\ i.registry = x.registry
        /\ i.asked = x.asked /\ i.active = Service!None /\ i.ready = Service!None
    BY <1>x, <2>2, <2>c DEF Left, Service!HostStates
  <2> HIDE DEF i, k, b
  <2>7. /\ k \in Service!HostStates /\ Same(i, k) /\ k.active = i.active /\ k.stops = {} /\ k.ready = i.ready
        /\ k.state = "stopped" /\ k.read = Service!None /\ k.grant = Service!NoGrant
    <3>1. k \in Service!HostStates
      BY <2>5, <2>6, <2>k DEF Service!HostStates
    <3>2. /\ k.calls = b /\ k.count = o.count /\ k.child = o.child /\ k.registry = o.registry
          /\ k.asked = o.asked /\ k.active = Service!None /\ k.ready = Service!None /\ k.stops = {}
          /\ k.state = "stopped" /\ k.read = Service!None /\ k.grant = Service!NoGrant
      BY <2>5, <2>k DEF Service!HostStates
    <3> QED
      BY <2>5, <2>i, <3>1, <3>2 DEF Same
  <2>8. Sound(k, q)
    BY <2>1, <2>7, SameIsSound
  <2>9. Settled(k) /\ Dark(k)
    BY <2>1, <2>7 DEF Same, Settled, Dark
  <2> QED
    BY <2>8, <2>9 DEF k
<1>17. ASSUME NEW g \in starting, Service!ActivationThrows(Service!Stop(x, "failure", g), g) PROVE Good(serviceHost', q)
  BY <1>16, <1>17, Thrown
<1>18. ASSUME NEW g \in starting, serviceHost' = Service!LetGo([Service!Stop(x, "failure", g) EXCEPT !.calls[g] = Service!Idle], g)
       PROVE Good(serviceHost', q)
  <2> DEFINE i == [Service!Stop(x, "failure", g) EXCEPT !.calls[g] = Service!Idle]
  <2>1. Sound(i, q) /\ Settled(i) /\ Dark(i)
    BY <1>16
  <2>2. serviceHost' = Service!LetGo(i, g)
    BY <1>18
  <2> HIDE DEF i
  <2>3. Sound(Service!LetGo(i, g), q) /\ Settled(Service!LetGo(i, g)) /\ Dark(Service!LetGo(i, g))
    BY <2>1, LetGoIsGood
  <2> QED
    BY <2>2, <2>3, SettledGoesOn, DarkIsCurrent DEF Good
<1> HIDE DEF starting, cleaned, crashed, left
<1> QED
  BY <1>a, <1>13, <1>15, <1>17, <1>18

\* Nobody waits for the process any longer; it may still be there.
LEMMA StopTimesOutStep ==
  ASSUME IService, NEW s \in Service!Services, NEW for \in Service!Waiters, NEW g \in Service!Gens, Service!StopTimer(s, for, g)
  PROVE  IService'
<1> DEFINE w == [service |-> s, for |-> for, gen |-> g]
           h == [serviceHost EXCEPT !.stops = @ \ {w}, !.meant = @ \ {w.service}, !.state = "failed"]
<1>g. Good(serviceHost, process) /\ Sound(serviceHost, process) /\ serviceHost \in Service!HostStates
  BY DEF IService, Good, Sound
<1>1. w \in serviceHost.stops /\ process' = process
      /\ IF w.for \in {"cleanup", "late"}
         THEN /\ serviceHost' = Service!LetGo(h, w.gen)
              /\ owner' = IF w.for = "cleanup" /\ owner = [gen |-> w.gen, phase |-> "cleaning"]
                          THEN [owner EXCEPT !.phase = "owed"] ELSE owner
              /\ UNCHANGED aborted
         ELSE Service!ActivationThrows(h, w.gen)
  BY DEF Service!StopTimer, Service!StopTimesOut
<1>w. w.gen = g /\ w.service = s
  OBVIOUS
<1> HIDE DEF w
<1>2. serviceHost.child = s /\ s # Service!None /\ serviceHost.state \notin {"starting", "ready"}
  BY <1>1, <1>w, <1>g DEF Sound, OneProcess, Service!Services, Service!None
<1>3. Dark(serviceHost) /\ Settled(serviceHost)
  BY <1>2, <1>g, NotReadyIsDark, ChildIsSettled DEF Good
<1>4. /\ h \in Service!HostStates /\ Same(serviceHost, h) /\ h.active = serviceHost.active /\ h.ready = serviceHost.ready
      /\ h.stops \subseteq serviceHost.stops /\ h.state = "failed" /\ h.read = serviceHost.read /\ h.grant = serviceHost.grant
  <2>1. [serviceHost EXCEPT !.stops = serviceHost.stops \ {w}, !.meant = serviceHost.meant \ {w.service}, !.state = "failed"]
        \in Service!HostStates
    <3>1. serviceHost.stops \ {w} \in SUBSET [service : Service!Services, for : {"cleanup", "fallback", "failure", "late"}, gen : Service!Gens]
          /\ serviceHost.meant \ {w.service} \in SUBSET Service!Services
      BY <1>g DEF Service!HostStates
    <3> QED
      BY <1>g, <3>1 DEF Service!HostStates
  <2> QED
    BY <1>g, <2>1 DEF Service!HostStates, Same
<1> HIDE DEF h
<1>5. Sound(h, process)
  <2>1. \A v \in h.stops : v.service = serviceHost.child /\ h.state \notin {"starting", "ready"}
    BY <1>4, <1>g DEF Sound, OneProcess
  <2> QED
    BY <1>4, <1>g, <2>1, SameIsSound
<1>6. Dark(h) /\ Settled(h)
  BY <1>3, <1>4 DEF Dark, Settled, Same
<1>7. CASE w.for \in {"cleanup", "late"}
  <2>1. serviceHost' = Service!LetGo(h, g) /\ owner' \in {owner, [owner EXCEPT !.phase = "owed"]} /\ UNCHANGED aborted
        /\ (owner' # owner => owner.phase = "cleaning")
    BY <1>1, <1>7, <1>w
  <2>2. Good(serviceHost', process)
    BY <1>5, <1>6, <2>1, LetGoIsGood, SettledGoesOn, DarkIsCurrent DEF Good
  <2>3. owner' \in Owners /\ (owner'.phase # "none" => owner'.gen # Service!None)
    BY <2>1 DEF IService, Around, Owners
  <2> QED
    BY <1>1, <2>1, <2>2, <2>3 DEF IService, Around
<1>8. CASE w.for \notin {"cleanup", "late"}
  <2> DEFINE i == [h EXCEPT !.calls[g] = Service!Idle]
  <2>1. Service!ActivationThrows(h, g)
    BY <1>1, <1>8, <1>w
  <2>2. Sound(i, process) /\ Settled(i) /\ Dark(i)
    BY <1>5, <1>6, CallEnds
  <2>3. Good(serviceHost', process)
    BY <2>1, <2>2, Thrown
  <2> QED
    BY <1>1, <2>1, <2>3, ThrownIsAround DEF IService, Around
<1> QED
  BY <1>7, <1>8

Asks == [at : {"none", "first", "second", "pending", "ended"},
         kind : {"grant", "revoke", "read"}, gen : Service!Gens \cup {Service!None},
         service : Service!Services \cup {Service!None}, grant : Service!Requests \cup {Service!None}]

\* A request that goes on or ends leaves calls and processes alone.
LEMMA AskedGoesOn ==
  ASSUME IService, UNCHANGED <<owner, aborted, process>>,
         NEW asked \in [Service!Requests -> Asks],
         NEW grant \in [gen : Service!Gens \cup {Service!None}, service : Service!Services \cup {Service!None}, id : Service!Requests \cup {Service!None}],
         NEW read \in Service!Requests \cup {Service!None},
         serviceHost' = [serviceHost EXCEPT !.asked = asked, !.grant = grant, !.read = read],
         \A r \in Service!Requests : asked[r].at # "none" =>
            \/ /\ serviceHost.asked[r].at # "none" /\ asked[r].gen = serviceHost.asked[r].gen
               /\ asked[r].service = serviceHost.asked[r].service
            \/ /\ asked[r].gen # Service!None /\ asked[r].service # Service!None
               /\ process[asked[r].service] \in {"running", "exited"} /\ asked[r].gen = serviceHost.registry,
         read # Service!None => asked[read].at # "none" /\ Service!LeaseLive(serviceHost, asked[read].service),
         grant # Service!NoGrant =>
            /\ grant.gen # Service!None /\ grant.service # Service!None
            /\ Service!LeaseLive(serviceHost, grant.service) /\ grant.gen = serviceHost.registry
  PROVE  IService'
<1>g. Good(serviceHost, process) /\ Sound(serviceHost, process) /\ serviceHost \in Service!HostStates
  BY DEF IService, Good, Sound
<1>1. [serviceHost EXCEPT !.asked = asked, !.grant = grant, !.read = read] \in Service!HostStates
  BY <1>g DEF Service!HostStates, Asks
<1>2. /\ serviceHost' \in Service!HostStates /\ serviceHost'.asked = asked /\ serviceHost'.grant = grant /\ serviceHost'.read = read
      /\ serviceHost'.count = serviceHost.count /\ serviceHost'.calls = serviceHost.calls /\ serviceHost'.child = serviceHost.child
      /\ serviceHost'.active = serviceHost.active /\ serviceHost'.ready = serviceHost.ready /\ serviceHost'.stops = serviceHost.stops
      /\ serviceHost'.state = serviceHost.state /\ serviceHost'.registry = serviceHost.registry
  BY <1>1, <1>g DEF Service!HostStates
<1>3. OneProcess(serviceHost')
  BY <1>2, <1>g DEF Sound, OneProcess
<1>4. CallsApart(serviceHost')
  BY <1>2, <1>g DEF Sound, CallsApart, Calling
<1>5. ProcessesFollow(serviceHost', process)
  BY <1>2, <1>g DEF Sound, ProcessesFollow
<1>6. StartsGoOn(serviceHost')
  BY <1>2, <1>g DEF Good, StartsGoOn
<1>7. Current(serviceHost')
  <2>1. \A v : Service!LeaseLive(serviceHost', v) <=> Service!LeaseLive(serviceHost, v)
    BY <1>2 DEF Service!LeaseLive
  <2> QED
    BY <1>2, <1>g, <2>1 DEF Good, Current
<1>8. process' = process
  OBVIOUS
<1>9. Good(serviceHost', process')
  BY <1>2, <1>3, <1>4, <1>5, <1>6, <1>7, <1>8 DEF Good, Sound
<1> QED
  BY <1>9 DEF IService, Around

\* Something is asked of the service that is ready.
LEMMA AskStep ==
  ASSUME IService, NEW r \in Service!Requests, NEW kind \in {"grant", "revoke", "read"}, NEW id \in Service!Requests,
         Service!Ask(r, kind, id)
  PROVE  IService'
<1> DEFINE new == [at |-> "first", kind |-> kind, gen |-> owner.gen, service |-> serviceHost.ready, grant |-> id]
           asked == [serviceHost.asked EXCEPT ![r] = new]
<1>g. Good(serviceHost, process) /\ Sound(serviceHost, process) /\ serviceHost \in Service!HostStates
  BY DEF IService, Good, Sound
<1>1. /\ serviceHost.asked[r].at = "none" /\ owner.gen = serviceHost.registry /\ owner.gen # Service!None /\ serviceHost.ready # Service!None
      /\ UNCHANGED <<owner, aborted, process>>
  BY DEF Service!Ask, IService, Around
<1>2. new \in Asks /\ new.gen = serviceHost.registry /\ new.gen # Service!None /\ new.service = serviceHost.ready
  BY <1>1, <1>g DEF Asks, Service!HostStates
<1>3. serviceHost.asked \in [Service!Requests -> Asks] /\ serviceHost.read \in Service!Requests \cup {Service!None}
      /\ serviceHost.grant \in [gen : Service!Gens \cup {Service!None}, service : Service!Services \cup {Service!None}, id : Service!Requests \cup {Service!None}]
  BY <1>g DEF Service!HostStates, Asks
<1> HIDE DEF new
<1>4. /\ asked \in [Service!Requests -> Asks] /\ asked[r] = new
      /\ \A q \in Service!Requests \ {r} : asked[q] = serviceHost.asked[q]
  BY <1>2, <1>3
<1>5. serviceHost' = [serviceHost EXCEPT !.asked = asked, !.grant = serviceHost.grant, !.read = serviceHost.read]
  BY <1>g DEF Service!Ask, Service!HostStates, new
<1> HIDE DEF asked
<1>6. process[serviceHost.ready] \in {"running", "exited"}
  BY <1>1, <1>g DEF Sound, ProcessesFollow
<1>7. \A q \in Service!Requests : asked[q].at # "none" =>
        \/ /\ serviceHost.asked[q].at # "none" /\ asked[q].gen = serviceHost.asked[q].gen
           /\ asked[q].service = serviceHost.asked[q].service
        \/ /\ asked[q].gen # Service!None /\ asked[q].service # Service!None
           /\ process[asked[q].service] \in {"running", "exited"} /\ asked[q].gen = serviceHost.registry
  BY <1>1, <1>2, <1>4, <1>6
<1>8. serviceHost.read # Service!None => asked[serviceHost.read].at # "none" /\ Service!LeaseLive(serviceHost, asked[serviceHost.read].service)
  BY <1>1, <1>3, <1>4, <1>g DEF Good, Current
<1>9. serviceHost.grant # Service!NoGrant =>
        /\ serviceHost.grant.gen # Service!None /\ serviceHost.grant.service # Service!None
        /\ Service!LeaseLive(serviceHost, serviceHost.grant.service) /\ serviceHost.grant.gen = serviceHost.registry
  BY <1>g DEF Good, Current
<1> QED
  BY <1>1, <1>3, <1>4, <1>5, <1>7, <1>8, <1>9, AskedGoesOn

\* A request that goes on or ends: what it is about stays.
LEMMA AnsweredGoesOn ==
  ASSUME IService, UNCHANGED <<owner, aborted, process>>,
         NEW asked \in [Service!Requests -> Asks],
         \A q \in Service!Requests :
            /\ asked[q].at # "none" => serviceHost.asked[q].at # "none"
            /\ asked[q].gen = serviceHost.asked[q].gen /\ asked[q].service = serviceHost.asked[q].service,
         NEW grant \in [gen : Service!Gens \cup {Service!None}, service : Service!Services \cup {Service!None}, id : Service!Requests \cup {Service!None}],
         NEW read \in Service!Requests \cup {Service!None},
         serviceHost' = [serviceHost EXCEPT !.asked = asked, !.grant = grant, !.read = read],
         read # Service!None => asked[read].at # "none" /\ Service!LeaseLive(serviceHost, asked[read].service),
         grant # Service!NoGrant =>
            /\ grant.gen # Service!None /\ grant.service # Service!None
            /\ Service!LeaseLive(serviceHost, grant.service) /\ grant.gen = serviceHost.registry
  PROVE  IService'
BY AskedGoesOn

\* The folder of a request is resolved.
LEMMA FirstResolvedStep == ASSUME IService, NEW r \in Service!Requests, Service!FirstResolved(r) PROVE IService'
<1> DEFINE q == serviceHost.asked[r]
           ended == [serviceHost.asked EXCEPT ![r].at = "ended"]
           second == [serviceHost.asked EXCEPT ![r].at = "second"]
           cut == [ended EXCEPT ![serviceHost.read].at = "ended"]
           grant == [gen |-> q.gen, service |-> q.service, id |-> r]
           Grants == [gen : Service!Gens \cup {Service!None}, service : Service!Services \cup {Service!None}, id : Service!Requests \cup {Service!None}]
           Goes(a) == /\ a \in [Service!Requests -> Asks]
                      /\ \A p \in Service!Requests :
                          /\ a[p].at # "none" => serviceHost.asked[p].at # "none"
                          /\ serviceHost.asked[p].at # "none" => a[p].at # "none"
                          /\ a[p].gen = serviceHost.asked[p].gen /\ a[p].service = serviceHost.asked[p].service
<1>g. Good(serviceHost, process) /\ Sound(serviceHost, process) /\ serviceHost \in Service!HostStates
  BY DEF IService, Good, Sound
<1>q. q.at = "first" /\ q.gen # Service!None /\ q.service # Service!None /\ UNCHANGED <<owner, aborted, process>>
  BY <1>g DEF Service!FirstResolved, Sound, ProcessesFollow
<1>t. serviceHost.asked \in [Service!Requests -> Asks] /\ serviceHost.read \in Service!Requests \cup {Service!None} /\ serviceHost.grant \in Grants
  BY <1>g DEF Service!HostStates, Asks
<1>1. Goes(ended) /\ Goes(second)
  BY <1>t, <1>q DEF Asks
<1>2. serviceHost.read # Service!None => Goes(cut)
  <2> SUFFICES ASSUME serviceHost.read # Service!None PROVE Goes(cut)
    OBVIOUS
  <2>1. serviceHost.asked[serviceHost.read].at # "none" /\ serviceHost.read \in Service!Requests
    BY <1>g, <1>t DEF Good, Current
  <2>2. ended[serviceHost.read].at # "none"
    BY <1>1, <2>1
  <2> HIDE DEF ended
  <2> QED
    BY <1>1, <2>1, <2>2 DEF Asks
<1>3. serviceHost.read # Service!None => serviceHost.asked[serviceHost.read].at # "none" /\ Service!LeaseLive(serviceHost, serviceHost.asked[serviceHost.read].service)
  BY <1>g DEF Good, Current
<1>4. serviceHost.grant # Service!NoGrant =>
        /\ serviceHost.grant.gen # Service!None /\ serviceHost.grant.service # Service!None
        /\ Service!LeaseLive(serviceHost, serviceHost.grant.service) /\ serviceHost.grant.gen = serviceHost.registry
  BY <1>g DEF Good, Current
<1>5. grant \in Grants /\ grant.gen = q.gen /\ grant.service = q.service /\ Service!NoGrant \in Grants
  BY <1>t DEF Asks, Service!NoGrant
<1>6. Service!LeaseLive(serviceHost, q.service) => q.gen = serviceHost.registry
  BY <1>q, <1>g DEF Good, Current
<1> HIDE DEF ended, second, cut, grant
<1>7. \/ serviceHost' = [serviceHost EXCEPT !.asked = ended, !.grant = serviceHost.grant, !.read = serviceHost.read]
      \/ serviceHost' = [serviceHost EXCEPT !.asked = ended, !.grant = grant, !.read = serviceHost.read] /\ Service!LeaseLive(serviceHost, q.service)
      \/ serviceHost' = [serviceHost EXCEPT !.asked = cut, !.grant = Service!NoGrant, !.read = Service!None] /\ serviceHost.read # Service!None
      \/ serviceHost' = [serviceHost EXCEPT !.asked = ended, !.grant = Service!NoGrant, !.read = serviceHost.read]
      \/ serviceHost' = [serviceHost EXCEPT !.asked = second, !.grant = serviceHost.grant, !.read = serviceHost.read]
  <2> DEFINE over == [serviceHost EXCEPT !.asked[r].at = "ended"]
  <2>1. /\ over = [serviceHost EXCEPT !.asked = ended, !.grant = serviceHost.grant, !.read = serviceHost.read]
        /\ over.asked = ended
    BY <1>g DEF Service!HostStates, ended
  <2>2. [over EXCEPT !.grant = grant] = [serviceHost EXCEPT !.asked = ended, !.grant = grant, !.read = serviceHost.read]
    BY <1>g DEF Service!HostStates, ended
  <2>3. [over EXCEPT !.grant = Service!NoGrant] = [serviceHost EXCEPT !.asked = ended, !.grant = Service!NoGrant, !.read = serviceHost.read]
    BY <1>g DEF Service!HostStates, ended
  <2>4. [[over EXCEPT !.grant = Service!NoGrant] EXCEPT !.asked[serviceHost.read].at = "ended", !.read = Service!None]
        = [serviceHost EXCEPT !.asked = cut, !.grant = Service!NoGrant, !.read = Service!None]
    <3> DEFINE without == [over EXCEPT !.grant = Service!NoGrant]
    <3>1. without = [serviceHost EXCEPT !.asked = ended, !.grant = Service!NoGrant, !.read = serviceHost.read]
      BY <2>3
    <3>2. without.asked = ended
      BY <3>1, <1>g DEF Service!HostStates
    <3> HIDE DEF over
    <3>3. [without EXCEPT !.asked[serviceHost.read].at = "ended", !.read = Service!None]
          = [without EXCEPT !.asked = [without.asked EXCEPT ![serviceHost.read].at = "ended"], !.read = Service!None]
      OBVIOUS
    <3> HIDE DEF without
    <3>4. [without EXCEPT !.asked[serviceHost.read].at = "ended", !.read = Service!None]
          = [without EXCEPT !.asked = cut, !.read = Service!None]
      BY <3>2, <3>3 DEF cut
    <3>5. [without EXCEPT !.asked = cut, !.read = Service!None]
          = [serviceHost EXCEPT !.asked = cut, !.grant = Service!NoGrant, !.read = Service!None]
      BY <3>1, <1>g DEF Service!HostStates
    <3> QED
      BY <3>4, <3>5 DEF without
  <2>5. [serviceHost EXCEPT !.asked[r].at = "second"]
        = [serviceHost EXCEPT !.asked = second, !.grant = serviceHost.grant, !.read = serviceHost.read]
    BY <1>g DEF Service!HostStates, second
  <2>6. \/ serviceHost' = over
        \/ serviceHost' = [over EXCEPT !.grant = grant] /\ Service!LeaseLive(serviceHost, q.service)
        \/ serviceHost' = [[over EXCEPT !.grant = Service!NoGrant] EXCEPT !.asked[serviceHost.read].at = "ended", !.read = Service!None]
           /\ serviceHost.read # Service!None
        \/ serviceHost' = [over EXCEPT !.grant = Service!NoGrant]
        \/ serviceHost' = [serviceHost EXCEPT !.asked[r].at = "second"]
    BY DEF Service!FirstResolved, grant
  <2> HIDE DEF over
  <2> QED
    BY <2>1, <2>2, <2>3, <2>4, <2>5, <2>6
<1> HIDE DEF q
<1>8. CASE serviceHost' = [serviceHost EXCEPT !.asked = ended, !.grant = serviceHost.grant, !.read = serviceHost.read]
  BY <1>1, <1>3, <1>4, <1>8, <1>q, <1>t, AnsweredGoesOn
<1>9. CASE serviceHost' = [serviceHost EXCEPT !.asked = ended, !.grant = grant, !.read = serviceHost.read] /\ Service!LeaseLive(serviceHost, q.service)
  BY <1>1, <1>3, <1>5, <1>6, <1>9, <1>q, <1>t, AnsweredGoesOn
<1>10. CASE serviceHost' = [serviceHost EXCEPT !.asked = cut, !.grant = Service!NoGrant, !.read = Service!None] /\ serviceHost.read # Service!None
  BY <1>2, <1>5, <1>10, <1>q, AnsweredGoesOn
<1>11. CASE serviceHost' = [serviceHost EXCEPT !.asked = ended, !.grant = Service!NoGrant, !.read = serviceHost.read]
  BY <1>1, <1>3, <1>5, <1>11, <1>q, <1>t, AnsweredGoesOn
<1>12. CASE serviceHost' = [serviceHost EXCEPT !.asked = second, !.grant = serviceHost.grant, !.read = serviceHost.read]
  BY <1>1, <1>3, <1>4, <1>12, <1>q, <1>t, AnsweredGoesOn
<1> QED
  BY <1>7, <1>8, <1>9, <1>10, <1>11, <1>12

\* The path of the note to read is resolved.
LEMMA SecondResolvedStep == ASSUME IService, NEW r \in Service!Requests, Service!SecondResolved(r) PROVE IService'
<1> DEFINE q == serviceHost.asked[r]
           ended == [serviceHost.asked EXCEPT ![r].at = "ended"]
           waits == [serviceHost.asked EXCEPT ![r].at = "pending"]
           Goes(a) == /\ a \in [Service!Requests -> Asks]
                      /\ \A p \in Service!Requests :
                          /\ a[p].at # "none" => serviceHost.asked[p].at # "none"
                          /\ serviceHost.asked[p].at # "none" => a[p].at # "none"
                          /\ a[p].gen = serviceHost.asked[p].gen /\ a[p].service = serviceHost.asked[p].service
<1>g. Good(serviceHost, process) /\ Sound(serviceHost, process) /\ serviceHost \in Service!HostStates
  BY DEF IService, Good, Sound
<1>q. q.at = "second" /\ UNCHANGED <<owner, aborted, process>>
  BY DEF Service!SecondResolved
<1>t. /\ serviceHost.asked \in [Service!Requests -> Asks] /\ serviceHost.read \in Service!Requests \cup {Service!None}
      /\ serviceHost.grant \in [gen : Service!Gens \cup {Service!None}, service : Service!Services \cup {Service!None}, id : Service!Requests \cup {Service!None}]
  BY <1>g DEF Service!HostStates, Asks
<1>1. Goes(ended) /\ Goes(waits)
  BY <1>t, <1>q DEF Asks
<1>3. serviceHost.read # Service!None => serviceHost.asked[serviceHost.read].at # "none" /\ Service!LeaseLive(serviceHost, serviceHost.asked[serviceHost.read].service)
  BY <1>g DEF Good, Current
<1>4. serviceHost.grant # Service!NoGrant =>
        /\ serviceHost.grant.gen # Service!None /\ serviceHost.grant.service # Service!None
        /\ Service!LeaseLive(serviceHost, serviceHost.grant.service) /\ serviceHost.grant.gen = serviceHost.registry
  BY <1>g DEF Good, Current
<1>5. \/ serviceHost' = [serviceHost EXCEPT !.asked = ended, !.grant = serviceHost.grant, !.read = serviceHost.read]
      \/ serviceHost' = [serviceHost EXCEPT !.asked = waits, !.grant = serviceHost.grant, !.read = r] /\ Service!LeaseLive(serviceHost, q.service)
  BY <1>g DEF Service!SecondResolved, Service!HostStates
<1>6. waits[r].at = "pending" /\ waits[r].service = q.service
  BY <1>t DEF Asks
<1> HIDE DEF ended, waits, q
<1>7. CASE serviceHost' = [serviceHost EXCEPT !.asked = ended, !.grant = serviceHost.grant, !.read = serviceHost.read]
  BY <1>1, <1>3, <1>4, <1>7, <1>q, <1>t, AnsweredGoesOn
<1>8. CASE serviceHost' = [serviceHost EXCEPT !.asked = waits, !.grant = serviceHost.grant, !.read = r] /\ Service!LeaseLive(serviceHost, q.service)
  BY <1>1, <1>4, <1>6, <1>8, <1>q, <1>t, AnsweredGoesOn
<1> QED
  BY <1>5, <1>7, <1>8

\* The read is answered, cancelled or given up.
LEMMA ReadEndsStep == ASSUME IService, Service!ReadEnds PROVE IService'
<1> DEFINE ended == [serviceHost.asked EXCEPT ![serviceHost.read].at = "ended"]
<1>g. Good(serviceHost, process) /\ Sound(serviceHost, process) /\ serviceHost \in Service!HostStates
  BY DEF IService, Good, Sound
<1>t. /\ serviceHost.asked \in [Service!Requests -> Asks] /\ serviceHost.read \in Service!Requests
      /\ serviceHost.grant \in [gen : Service!Gens \cup {Service!None}, service : Service!Services \cup {Service!None}, id : Service!Requests \cup {Service!None}]
  BY <1>g DEF Service!HostStates, Asks, Service!ReadEnds
<1>r. serviceHost.asked[serviceHost.read].at # "none"
  BY <1>g DEF Good, Current, Service!ReadEnds
<1>1. /\ ended \in [Service!Requests -> Asks]
      /\ \A p \in Service!Requests :
          /\ ended[p].at # "none" => serviceHost.asked[p].at # "none"
          /\ ended[p].gen = serviceHost.asked[p].gen /\ ended[p].service = serviceHost.asked[p].service
  BY <1>t, <1>r DEF Asks
<1>2. serviceHost' = [serviceHost EXCEPT !.asked = ended, !.grant = serviceHost.grant, !.read = Service!None]
  BY <1>g DEF Service!ReadEnds, Service!HostStates
<1>3. serviceHost.grant # Service!NoGrant =>
        /\ serviceHost.grant.gen # Service!None /\ serviceHost.grant.service # Service!None
        /\ Service!LeaseLive(serviceHost, serviceHost.grant.service) /\ serviceHost.grant.gen = serviceHost.registry
  BY <1>g DEF Good, Current
<1>4. UNCHANGED <<owner, aborted, process>>
  BY DEF Service!ReadEnds
<1> HIDE DEF ended
<1> QED
  BY <1>1, <1>2, <1>3, <1>4, <1>t, AnsweredGoesOn

\* Every step of the service, its host and the registry keeps all of it.
LEMMA ServiceStep == IService /\ [Service!Next]_(Service!vars) => IService'
<1> SUFFICES ASSUME IService, [Service!Next]_(Service!vars) PROVE IService'
  OBVIOUS
<1>1. CASE Service!CleanupTimesOut
  <2>1. owner' \in Owners /\ (owner'.phase # "none" => owner'.gen # Service!None)
    BY <1>1 DEF Service!CleanupTimesOut, IService, Around, Owners
  <2> QED
    BY <1>1, <2>1 DEF Service!CleanupTimesOut, IService, Around
<1>2. CASE UNCHANGED Service!vars
  BY <1>2 DEF Service!vars, IService, Around
<1> QED
  BY <1>1, <1>2, ActivateServiceStep, DeactivateStep, ResolvedStep, HandshakeTimesOutStep, SaysReadyStep,
     ProcessExitsStep, ProcessMisbehavesStep, StopTimesOutStep, FirstResolvedStep, SecondResolvedStep,
     ReadEndsStep, AskStep DEF Service!Next

\* Nothing is started at first.
LEMMA ServiceInit == Service!Init => IService
<1> SUFFICES ASSUME Service!Init PROVE IService
  OBVIOUS
<1>1. serviceHost \in Service!HostStates
  BY ServiceBounds, BoundsAssumption DEF Service!Init, Service!HostStates, Service!Idle, Service!NoGrant, Service!Unasked
<1>2. /\ serviceHost.state = "stopped" /\ serviceHost.child = Service!None /\ serviceHost.stops = {} /\ serviceHost.read = Service!None
      /\ serviceHost.grant = Service!NoGrant /\ serviceHost.ready = Service!None /\ serviceHost.registry = Service!None /\ serviceHost.count = 0
      /\ \A g \in Service!Gens : serviceHost.calls[g] = Service!Idle
      /\ \A r \in Service!Requests : serviceHost.asked[r].at = "none"
  BY DEF Service!Init, Service!Unasked
<1>3. \A s \in Service!Services : process[s] = "none"
  BY DEF Service!Init
<1>i. Service!Idle.at = "none"
  BY DEF Service!Idle
<1>4. OneProcess(serviceHost) /\ CallsApart(serviceHost) /\ ProcessesFollow(serviceHost, process)
  <2>1. OneProcess(serviceHost)
    BY <1>2 DEF OneProcess
  <2>2. CallsApart(serviceHost)
    BY <1>2, <1>i DEF CallsApart, Calling
  <2>3. ProcessesFollow(serviceHost, process)
    BY <1>2, <1>3, <1>i DEF ProcessesFollow
  <2> QED
    BY <2>1, <2>2, <2>3
<1>5. StartsGoOn(serviceHost) /\ Current(serviceHost)
  BY <1>2 DEF StartsGoOn, Current, Service!Idle
<1>6. Around
  BY DEF Service!Init, Around, Owners, States
<1> QED
  BY <1>1, <1>4, <1>5, <1>6 DEF IService, Good, Sound

\* A read that waits and a grant that stands are of the process that is ready
\* and of the registry's generation (service-host.ts:370-375, 528-539), through
\* any number of activations, starts that fall back, stops that time out and
\* exits, whatever the process does.
THEOREM ServiceIsOfNow == AllSpec => []ServiceIsCurrent
<1>1. AllInit => IService
  BY ServiceInit DEF AllInit
<1>2. IService /\ [AllNext]_<<subject, vars, serviceVars>> => IService'
  <2>1. [AllNext]_<<subject, vars, serviceVars>> => [Service!Next]_(Service!vars)
    BY DEF AllNext, serviceVars, Service!vars
  <2> QED
    BY <2>1, ServiceStep
<1>3. IService => ServiceIsCurrent
  <2> SUFFICES ASSUME IService PROVE Service!ReadIsCurrent /\ Service!GrantIsCurrent
    BY DEF ServiceIsCurrent, Service!ServiceIsCurrent
  <2>1. serviceHost.read \in Service!Requests \cup {Service!None} /\ Current(serviceHost)
    BY DEF IService, Good, Sound, Service!HostStates
  <2> QED
    BY <2>1 DEF Current, Service!ReadIsCurrent, Service!GrantIsCurrent
<1> QED
  BY <1>1, <1>2, <1>3, PTL DEF AllSpec

=============================================================================
