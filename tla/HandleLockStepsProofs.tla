------------------------ MODULE HandleLockStepsProofs ------------------------
(***************************************************************************)
(* Proofs about HandleLockSteps, for any threads, Handles and tree: for the *)
(* objects whose Handles are worked on under their mutex only, what a thread *)
(* was told stays true, and every call acts as one step.                     *)
(*                                                                         *)
(* While a thread is inside the mutex of such a Handle no other thread       *)
(* changes it, so what was decided on the fields still holds when they are   *)
(* set, and what the call has to report is what the fields say.              *)
(***************************************************************************)
EXTENDS HandleLockSteps, ListsProofs

USE ThreadAssumption, StepsAssumption

-----------------------------------------------------------------------------
(* The inductive invariant *)

DeedKind == {"demote", "append", "promote", "take", "keep", "refuse", "dropWrite", "dropRead"}

StepsTypeOK ==
    /\ handleMutex \in [Handle -> Thread \cup {NoThread}]
    /\ writer \in [Handle -> Thread \cup {NoThread}]
    /\ readers \in [Handle -> Seq(Thread)]
    /\ pc \in [Thread -> {"idle", "enter", "test", "set", "leave"}]
    /\ call \in [Thread -> Calls \cup {NoCall}]
    /\ walk \in [Thread -> Seq(Handle)]
    /\ deed \in [Thread -> DeedKind]
    /\ news \in [Thread -> [Handle -> Lock \cup {"same"}]]
    /\ told \in [Thread -> [Handle -> Lock]]

\* The thread has the mutex of the Handle it was called for.
Within(t) == pc[t] \in {"test", "set", "leave"}

Mutexes == \A t \in Thread : Within(t) => handleMutex[call[t].top] = t

\* A call that is under way visits an object that is a component of no other
\* only if it was called for it.
Walks ==
    \A t \in Thread :
        /\ pc[t] # "idle" =>
              /\ call[t] \in Calls
              /\ \A i \in DOMAIN walk[t] : walk[t][i] \in Top => walk[t][i] = call[t].top
        /\ pc[t] \in {"enter", "test", "set"} => walk[t] # <<>>

\* A call has something to report of such an object only if it was called for it.
News ==
    \A t \in Thread, h \in Top :
        news[t][h] # "same" => Within(t) /\ call[t].top = h

\* What a thread knows, or is about to be told.
Known(t, h) == IF news[t][h] = "same" THEN told[t][h] ELSE news[t][h]

\* The lock of t on h, as the fields of the Handle have it.
Writes(t, h) == writer[h] = t
Reads(t, h) == writer[h] = NoThread /\ t \in ToSet(readers[h])

KnownTrue ==
    \A t \in Thread, h \in Top :
        /\ Known(t, h) = "write" <=> Writes(t, h)
        /\ Known(t, h) = "read" <=> Reads(t, h)

TopStates ==
    \A h \in Top : /\ writer[h] # NoThread => readers[h] = <<>>
                   /\ IsInjective(readers[h])

\* What was decided still holds when it is done.
Decided ==
    \A t \in Thread :
        pc[t] = "set" /\ Head(walk[t]) \in Top =>
            deed[t] = Deed(t, Head(walk[t])) /\ deed[t] # "refuse"

IInv == StepsTypeOK /\ Mutexes /\ Walks /\ News /\ KnownTrue /\ TopStates /\ Decided

-----------------------------------------------------------------------------
(* One Handle *)

\* What a call decides on a Handle is one of the kinds of change.
LEMMA DeedTyped ==
    ASSUME NEW t \in Thread, NEW h
    PROVE  Deed(t, h) \in DeedKind
  BY DEF Deed, LockDeed, UnlockDeed, DeedKind

\* What it reports is a lock.
LEMMA ReportTyped ==
    ASSUME NEW t \in Thread, NEW h
    PROVE  Report(t, h) \in Lock
  BY DEF Report, Lock

\* What it makes of the fields of the Handle has their types.
LEMMA ReadersTyped ==
    ASSUME StepsTypeOK, NEW t \in Thread, NEW h \in Handle
    PROVE  Readers(t, h) \in Seq(Thread) /\ Writer(t, h) \in Thread \cup {NoThread}
<1>1. readers[h] \in Seq(Thread) /\ writer[h] \in Thread \cup {NoThread}
  BY DEF StepsTypeOK
<1>2. Without(readers[h], t) \in Seq(Thread)
  BY <1>1, WithoutTyped
<1>3. <<t>> \in Seq(Thread) /\ <<>> \in Seq(Thread) /\ Append(readers[h], t) \in Seq(Thread)
  BY <1>1
<1> QED
  BY <1>1, <1>2, <1>3 DEF Readers, Writer

\* Doing what was decided on an object gives the caller the lock that it
\* reports, takes no lock from any other thread and gives none to any.
LEMMA SetTop ==
    ASSUME StepsTypeOK, TopStates, NEW t \in Thread, call[t] \in Calls, NEW h \in Top,
           deed[t] = Deed(t, h), deed[t] # "refuse"
    PROVE  /\ Writer(t, h) # NoThread => Readers(t, h) = <<>>
           /\ IsInjective(Readers(t, h))
           /\ Report(t, h) = "write" <=> Writer(t, h) = t
           /\ Report(t, h) = "read" <=> Writer(t, h) = NoThread /\ t \in ToSet(Readers(t, h))
           /\ \A u \in Thread \ {t} :
                 /\ Writes(u, h) <=> Writer(t, h) = u
                 /\ Reads(u, h) <=> Writer(t, h) = NoThread /\ u \in ToSet(Readers(t, h))
<1> DEFINE r == readers[h]
           w == writer[h]
<1>1. /\ r \in Seq(Thread) /\ w \in Thread \cup {NoThread} /\ h \in Handle
      /\ IsInjective(r) /\ (w # NoThread => r = <<>>)
  BY DEF StepsTypeOK, TopStates, Top
<1>2. ToSet(<<>>) = {} /\ ToSet(<<t>>) = {t} /\ IsInjective(<<>>) /\ IsInjective(<<t>>)
  BY DEF ToSet, IsInjective
<1>3. t # NoThread /\ NoThread \notin Thread
  OBVIOUS
<1>4. call[t].op \in {"lock", "unlock", "query"} /\ call[t].rdonly \in BOOLEAN
  BY DEF Calls
<1>5. CASE deed[t] = "demote"
  <2>1. w = t /\ call[t].op = "lock" /\ call[t].rdonly
    BY <1>5 DEF Deed, LockDeed, UnlockDeed
  <2>2. Writer(t, h) = NoThread /\ Readers(t, h) = <<t>> /\ Report(t, h) = "read"
    BY <1>5, <2>1 DEF Writer, Readers, Report
  <2> QED
    BY <1>1, <1>2, <1>3, <2>1, <2>2 DEF Writes, Reads
<1>6. CASE deed[t] = "append"
  <2>1. w = NoThread /\ t \notin ToSet(r) /\ call[t].op = "lock" /\ call[t].rdonly
    BY <1>1, <1>6 DEF Deed, LockDeed, UnlockDeed
  <2>2. Writer(t, h) = NoThread /\ Readers(t, h) = Append(r, t) /\ Report(t, h) = "read"
    BY <1>6, <2>1 DEF Writer, Readers, Report
  <2>3. ToSet(Append(r, t)) = ToSet(r) \cup {t} /\ IsInjective(Append(r, t))
    BY <1>1, <2>1, AppendOk
  <2> QED
    BY <1>1, <1>3, <2>1, <2>2, <2>3 DEF Writes, Reads
<1>7. CASE deed[t] = "promote"
  <2>1. r = <<t>> /\ call[t].op = "lock" /\ ~call[t].rdonly
    BY <1>7 DEF Deed, LockDeed, UnlockDeed
  <2>2. Writer(t, h) = t /\ Readers(t, h) = <<>> /\ Report(t, h) = "write"
    BY <1>7, <2>1 DEF Writer, Readers, Report
  <2>3. w = NoThread
    BY <1>1, <1>2, <2>1
  <2> QED
    BY <1>1, <1>2, <1>3, <2>1, <2>2, <2>3 DEF Writes, Reads
<1>8. CASE deed[t] = "take"
  <2>1. r = <<>> /\ w = NoThread /\ call[t].op = "lock" /\ ~call[t].rdonly
    BY <1>8 DEF Deed, LockDeed, UnlockDeed
  <2>2. Writer(t, h) = t /\ Readers(t, h) = <<>> /\ Report(t, h) = "write"
    BY <1>8, <2>1 DEF Writer, Readers, Report
  <2> QED
    BY <1>1, <1>2, <1>3, <2>1, <2>2 DEF Writes, Reads
<1>9. CASE deed[t] = "dropWrite"
  <2>1. w = t /\ call[t].op = "unlock"
    BY <1>9 DEF Deed, LockDeed, UnlockDeed
  <2>2. Writer(t, h) = NoThread /\ Readers(t, h) = r /\ Report(t, h) = "none"
    BY <1>9, <2>1 DEF Writer, Readers, Report
  <2> QED
    BY <1>1, <1>2, <1>3, <2>1, <2>2 DEF Writes, Reads
<1>10. CASE deed[t] = "dropRead"
  <2>1. w = NoThread /\ call[t].op = "unlock"
    BY <1>10 DEF Deed, LockDeed, UnlockDeed
  <2>2. Writer(t, h) = NoThread /\ Readers(t, h) = Without(r, t) /\ Report(t, h) = "none"
    BY <1>10, <2>1 DEF Writer, Readers, Report
  <2>3. ToSet(Without(r, t)) = ToSet(r) \ {t} /\ IsInjective(Without(r, t))
    BY <1>1, WithoutOk
  <2> QED
    BY <1>1, <1>3, <2>1, <2>2, <2>3 DEF Writes, Reads
<1>11. CASE deed[t] = "keep"
  <2>1. Writer(t, h) = w /\ Readers(t, h) = r
    BY <1>11 DEF Writer, Readers
  <2>2. /\ Report(t, h) = "write" <=> w = t
        /\ Report(t, h) = "read" <=> w = NoThread /\ t \in ToSet(r)
    <3>1. CASE call[t].op = "lock"
      BY <1>1, <1>2, <1>3, <1>11, <3>1 DEF Deed, LockDeed, Report
    <3>2. CASE call[t].op = "unlock"
      BY <1>11, <3>2 DEF Deed, UnlockDeed
    <3>3. CASE call[t].op = "query"
      BY <1>3, <3>3 DEF Report
    <3> QED
      BY <1>4, <3>1, <3>2, <3>3
  <2> QED
    BY <1>1, <2>1, <2>2 DEF Writes, Reads
<1> QED
  BY <1>5, <1>6, <1>7, <1>8, <1>9, <1>10, <1>11, DeedTyped DEF DeedKind

-----------------------------------------------------------------------------
(* The steps *)

\* Where a thread is inside the mutex of an object, no other thread is.
LEMMA OneWithin ==
    ASSUME Mutexes, NEW t \in Thread, NEW u \in Thread, Within(t), Within(u),
           call[t].top = call[u].top
    PROVE  t = u
  BY DEF Mutexes

\* At the start no thread has, or was told of, any lock.
LEMMA InitInv == StepsInit => IInv
<1> SUFFICES ASSUME StepsInit PROVE IInv
  OBVIOUS
<1>1. \A S : <<>> \in Seq(S)
  OBVIOUS
<1>2. ToSet(<<>>) = {} /\ IsInjective(<<>>)
  BY DEF ToSet, IsInjective
<1>3. StepsTypeOK
  BY <1>1 DEF StepsInit, StepsTypeOK, NoNews, DeedKind, Lock
<1>4. Mutexes /\ Walks /\ Decided
  BY DEF StepsInit, Mutexes, Within, Walks, Decided
<1>5. Top \subseteq Handle
  BY DEF Top
<1>6. News
  BY <1>5 DEF StepsInit, News, NoNews
<1>7. KnownTrue /\ TopStates
  BY <1>2, <1>5 DEF StepsInit, KnownTrue, TopStates, Known, Writes, Reads, NoNews
<1> QED
  BY <1>3, <1>4, <1>6, <1>7 DEF IInv

\* A call begins.
LEMMA LockCallInv ==
    ASSUME IInv, NEW t \in Thread, LockCall(t)
    PROVE  IInv'
<1>1. PICK c \in Calls : call' = [call EXCEPT ![t] = c] /\ walk' = [walk EXCEPT ![t] = <<c.top>>]
  BY DEF LockCall
<1>2. /\ pc[t] = "idle" /\ pc' = [pc EXCEPT ![t] = "enter"]
      /\ UNCHANGED <<handleMutex, writer, readers, deed, news, told>>
  BY DEF LockCall
<1>3. c.top \in Handle /\ <<c.top>> \in Seq(Handle) /\ <<c.top>> # <<>>
  <2>1. c.top \in Handle
    BY DEF Calls
  <2> QED
    BY <2>1
<1>4. StepsTypeOK'
  BY <1>1, <1>2, <1>3 DEF IInv, StepsTypeOK
<1>5. \A u \in Thread : u # t => /\ pc'[u] = pc[u] /\ call'[u] = call[u] /\ walk'[u] = walk[u]
  BY <1>1, <1>2 DEF IInv, StepsTypeOK
<1>6. pc'[t] = "enter" /\ call'[t] = c /\ walk'[t] = <<c.top>>
  BY <1>1, <1>2 DEF IInv, StepsTypeOK
<1>7. Mutexes'
  BY <1>2, <1>5, <1>6 DEF IInv, Mutexes, Within
<1>8. Walks'
  <2>1. \A i \in DOMAIN <<c.top>> : <<c.top>>[i] = c.top
    OBVIOUS
  <2>2. Top' = Top
    BY DEF Top
  <2> SUFFICES ASSUME NEW u \in Thread
               PROVE  /\ pc'[u] # "idle" =>
                            /\ call'[u] \in Calls
                            /\ \A i \in DOMAIN walk'[u] :
                                  walk'[u][i] \in Top => walk'[u][i] = call'[u].top
                      /\ pc'[u] \in {"enter", "test", "set"} => walk'[u] # <<>>
    BY <2>2 DEF Walks
  <2>3. CASE u = t
    BY <1>3, <1>6, <2>1, <2>3
  <2>4. CASE u # t
    BY <1>5, <2>4 DEF IInv, Walks
  <2> QED
    BY <2>3, <2>4
<1>9. News' /\ KnownTrue' /\ TopStates'
  BY <1>2, <1>5, <1>6 DEF IInv, News, KnownTrue, TopStates, Within, Known, Writes, Reads
<1>10. Decided'
  BY ZenonT(40), <1>2, <1>5, <1>6 DEF IInv, Decided, Deed, LockDeed, UnlockDeed
<1> QED
  BY <1>4, <1>7, <1>8, <1>9, <1>10 DEF IInv

\* A call gets the mutex.
LEMMA EnterInv ==
    ASSUME IInv, NEW t \in Thread, Enter(t)
    PROVE  IInv'
<1>1. /\ pc[t] = "enter" /\ pc' = [pc EXCEPT ![t] = "test"]
      /\ handleMutex[call[t].top] = NoThread
      /\ handleMutex' = [handleMutex EXCEPT ![call[t].top] = t]
      /\ UNCHANGED <<writer, readers, call, walk, deed, news, told>>
  BY DEF Enter
<1>2. call[t] \in Calls /\ call[t].top \in Handle
  BY <1>1 DEF IInv, Walks, Calls
<1>3. StepsTypeOK'
  BY <1>1 DEF IInv, StepsTypeOK
<1>4. pc'[t] = "test" /\ \A u \in Thread : u # t => pc'[u] = pc[u]
  BY <1>1 DEF IInv, StepsTypeOK
<1>5. Mutexes'
  <2> SUFFICES ASSUME NEW u \in Thread, Within(u)' PROVE handleMutex'[call'[u].top] = u
    BY DEF Mutexes
  <2>1. CASE u = t
    BY <1>1, <1>2, <2>1 DEF IInv, StepsTypeOK
  <2>2. CASE u # t
    <3>1. handleMutex[call[u].top] = u
      BY <1>4, <2>2 DEF Within, IInv, Mutexes
    <3>2. call[u].top # call[t].top
      BY <1>1, <3>1
    <3> QED
      BY <1>1, <3>1, <3>2 DEF IInv, StepsTypeOK
  <2> QED
    BY <2>1, <2>2
<1>6. Walks'
  BY <1>1, <1>2, <1>4 DEF IInv, Walks
<1>7. News' /\ KnownTrue' /\ TopStates'
  BY <1>1, <1>4 DEF IInv, News, KnownTrue, TopStates, Within, Known, Writes, Reads
<1>8. Decided'
  BY <1>1, <1>4 DEF IInv, Decided, Deed, LockDeed, UnlockDeed
<1> QED
  BY <1>3, <1>5, <1>6, <1>7, <1>8 DEF IInv

\* A call decides what to do.
LEMMA TestInv ==
    ASSUME IInv, NEW t \in Thread, Test(t)
    PROVE  IInv'
<1>1. /\ pc[t] = "test"
      /\ deed' = [deed EXCEPT ![t] = Deed(t, Head(walk[t]))]
      /\ pc' = [pc EXCEPT ![t] = IF deed'[t] = "refuse" THEN "leave" ELSE "set"]
      /\ UNCHANGED <<handleMutex, writer, readers, call, walk, news, told>>
  BY DEF Test
<1>2. StepsTypeOK'
  BY <1>1, DeedTyped DEF IInv, StepsTypeOK
<1>3. /\ deed'[t] = Deed(t, Head(walk[t]))
      /\ pc'[t] = IF deed'[t] = "refuse" THEN "leave" ELSE "set"
      /\ \A u \in Thread : u # t => pc'[u] = pc[u] /\ deed'[u] = deed[u]
  BY <1>1 DEF IInv, StepsTypeOK
<1>4. Mutexes'
  BY <1>1, <1>3 DEF IInv, Mutexes, Within
<1>5. Walks'
  BY <1>1, <1>3 DEF IInv, Walks
<1>6. News' /\ KnownTrue' /\ TopStates'
  BY <1>1, <1>3 DEF IInv, News, KnownTrue, TopStates, Within, Known, Writes, Reads
<1>7. Decided'
  <2> SUFFICES ASSUME NEW u \in Thread, pc'[u] = "set", Head(walk'[u]) \in Top
               PROVE  deed'[u] = Deed(u, Head(walk[u]))' /\ deed'[u] # "refuse"
    BY DEF Decided
  <2>1. Deed(u, Head(walk[u]))' = Deed(u, Head(walk[u]))
    BY <1>1 DEF Deed, LockDeed, UnlockDeed
  <2> QED
    BY <1>1, <1>3, <2>1 DEF IInv, Decided
<1> QED
  BY <1>2, <1>4, <1>5, <1>6, <1>7 DEF IInv

\* A call changes the lock on one Handle and goes on to those below.
LEMMA SetInv ==
    ASSUME IInv, NEW t \in Thread, Set(t)
    PROVE  IInv'
<1> DEFINE h == Head(walk[t])
<1>1. /\ pc[t] = "set"
      /\ writer' = [writer EXCEPT ![h] = Writer(t, h)]
      /\ readers' = [readers EXCEPT ![h] = Readers(t, h)]
      /\ news' = [news EXCEPT ![t][h] = Report(t, h)]
      /\ walk' = [walk EXCEPT ![t] = AndBelow(t, h) \o Tail(@)]
      /\ pc' = [pc EXCEPT ![t] = IF walk'[t] = <<>> THEN "leave" ELSE "test"]
      /\ UNCHANGED <<handleMutex, call, deed, told>>
  BY DEF Set
<1>2. /\ walk[t] \in Seq(Handle) /\ walk[t] # <<>>
      /\ call[t] \in Calls
      /\ \A i \in DOMAIN walk[t] : walk[t][i] \in Top => walk[t][i] = call[t].top
  BY <1>1 DEF IInv, StepsTypeOK, Walks
<1>3. h \in Handle /\ (h \in Top => h = call[t].top)
  BY <1>2
<1> HIDE DEF h
<1>4. AndBelow(t, h) \in Seq(Handle) /\ Tail(walk[t]) \in Seq(Handle)
  <2>1. Kids[h] \in Seq(Handle) /\ <<>> \in Seq(Handle)
    BY <1>3
  <2> QED
    BY <1>2, <2>1 DEF AndBelow
<1>5. \A i \in DOMAIN AndBelow(t, h) : AndBelow(t, h)[i] \notin Top
  BY <1>3 DEF AndBelow, Top, ToSet
<1>6. \A i \in DOMAIN Tail(walk[t]) :
          Tail(walk[t])[i] \in Top => Tail(walk[t])[i] = call[t].top
  <2> SUFFICES ASSUME NEW i \in DOMAIN Tail(walk[t])
               PROVE  i + 1 \in DOMAIN walk[t] /\ Tail(walk[t])[i] = walk[t][i + 1]
    BY <1>2
  <2> QED
    BY <1>2
<1> DEFINE rest == AndBelow(t, h) \o Tail(walk[t])
<1>7. rest \in Seq(Handle) /\ \A i \in DOMAIN rest : rest[i] \in Top => rest[i] = call[t].top
  <2>1. rest \in Seq(Handle)
    BY <1>4
  <2>2. ASSUME NEW i \in DOMAIN rest, rest[i] \in Top PROVE rest[i] = call[t].top
    <3> DEFINE k == Len(AndBelow(t, h))
               m == Len(Tail(walk[t]))
    <3>1. k \in Nat /\ m \in Nat /\ i \in 1..(k + m)
      BY <1>4, <2>2
    <3>2. DOMAIN AndBelow(t, h) = 1..k /\ DOMAIN Tail(walk[t]) = 1..m
      BY <1>4
    <3>3. CASE i <= k
      <4>1. i \in 1..k /\ rest[i] = AndBelow(t, h)[i]
        BY <1>4, <3>1, <3>3
      <4> QED
        BY <1>5, <2>2, <3>2, <4>1
    <3>4. CASE ~(i <= k)
      <4>1. i - k \in 1..m /\ rest[i] = Tail(walk[t])[i - k]
        BY <1>4, <3>1, <3>4
      <4> QED
        BY <1>6, <2>2, <3>2, <4>1
    <3> QED
      BY <3>3, <3>4
  <2> QED
    BY <2>1, <2>2
<1> HIDE DEF rest
<1>8. walk' = [walk EXCEPT ![t] = rest]
  BY <1>1 DEF rest
<1>9. Report(t, h) \in Lock
  BY ReportTyped
<1>10. Readers(t, h) \in Seq(Thread) /\ Writer(t, h) \in Thread \cup {NoThread}
  BY <1>3, ReadersTyped DEF IInv
<1>11. /\ walk'[t] = rest /\ pc'[t] = (IF rest = <<>> THEN "leave" ELSE "test")
       /\ writer'[h] = Writer(t, h) /\ readers'[h] = Readers(t, h)
       /\ news'[t][h] = Report(t, h)
       /\ \A g \in Handle : g # h =>
              writer'[g] = writer[g] /\ readers'[g] = readers[g] /\ news'[t][g] = news[t][g]
       /\ \A u \in Thread : u # t =>
              pc'[u] = pc[u] /\ walk'[u] = walk[u] /\ news'[u] = news[u]
  BY <1>1, <1>3, <1>8 DEF IInv, StepsTypeOK
<1>12. StepsTypeOK'
  <2>1. news' \in [Thread -> [Handle -> Lock \cup {"same"}]]
    BY <1>1, <1>3, <1>9 DEF IInv, StepsTypeOK
  <2> QED
    BY ZenonT(40), <1>1, <1>3, <1>7, <1>8, <1>10, <2>1 DEF IInv, StepsTypeOK
<1>13. Mutexes'
  BY <1>1, <1>11 DEF IInv, Mutexes, Within
<1>14. Top' = Top
  BY DEF Top
<1>15. Walks'
  <2> SUFFICES ASSUME NEW u \in Thread
               PROVE  /\ pc'[u] # "idle" =>
                            /\ call[u] \in Calls
                            /\ \A i \in DOMAIN walk'[u] :
                                  walk'[u][i] \in Top => walk'[u][i] = call[u].top
                      /\ pc'[u] \in {"enter", "test", "set"} => walk'[u] # <<>>
    BY <1>1, <1>14 DEF Walks
  <2>1. CASE u = t
    BY <1>2, <1>7, <1>11, <2>1
  <2>2. CASE u # t
    BY <1>11, <2>2 DEF IInv, Walks
  <2> QED
    BY <2>1, <2>2
<1>16. Within(t) /\ Within(t)'
  BY <1>1, <1>11 DEF Within
<1>17. \A u \in Thread : u # t => Within(u)' = Within(u)
  BY <1>11 DEF Within
<1>18. News'
  <2> SUFFICES ASSUME NEW u \in Thread, NEW g \in Top, news'[u][g] # "same"
               PROVE  Within(u)' /\ call[u].top = g
    BY <1>1, <1>14 DEF News
  <2>1. g \in Handle
    BY DEF Top
  <2>2. CASE u = t
    BY <1>3, <1>11, <1>16, <2>1, <2>2 DEF IInv, News
  <2>3. CASE u # t
    BY <1>11, <1>17, <2>3 DEF IInv, News
  <2> QED
    BY <2>2, <2>3
<1>19. h \in Top =>
          /\ deed[t] = Deed(t, h) /\ deed[t] # "refuse"
          /\ Writer(t, h) # NoThread => Readers(t, h) = <<>>
          /\ IsInjective(Readers(t, h))
          /\ Report(t, h) = "write" <=> Writer(t, h) = t
          /\ Report(t, h) = "read" <=> Writer(t, h) = NoThread /\ t \in ToSet(Readers(t, h))
          /\ \A u \in Thread \ {t} :
                /\ Writes(u, h) <=> Writer(t, h) = u
                /\ Reads(u, h) <=> Writer(t, h) = NoThread /\ u \in ToSet(Readers(t, h))
  <2> SUFFICES ASSUME h \in Top PROVE deed[t] = Deed(t, h) /\ deed[t] # "refuse"
    BY <1>2, SetTop DEF IInv
  <2> QED
    BY <1>1 DEF IInv, Decided, h
<1>20. KnownTrue'
  <2> SUFFICES ASSUME NEW u \in Thread, NEW g \in Top
               PROVE  /\ Known(u, g)' = "write" <=> Writes(u, g)'
                      /\ Known(u, g)' = "read" <=> Reads(u, g)'
    BY <1>14 DEF KnownTrue
  <2>1. g \in Handle
    BY DEF Top
  <2>2. /\ Known(u, g) = "write" <=> Writes(u, g)
        /\ Known(u, g) = "read" <=> Reads(u, g)
    BY DEF IInv, KnownTrue
  <2>3. CASE g # h
    <3>1. Known(u, g)' = Known(u, g)
      BY <1>1, <1>11, <2>1, <2>3 DEF Known
    <3>2. Writes(u, g)' = Writes(u, g) /\ Reads(u, g)' = Reads(u, g)
      BY <1>11, <2>1, <2>3 DEF Writes, Reads
    <3> QED
      BY <2>2, <3>1, <3>2
  <2>4. CASE g = h /\ u = t
    <3>1. Known(u, g)' = Report(t, h)
      BY <1>9, <1>11, <2>4 DEF Known, Lock
    <3> QED
      BY <1>11, <1>19, <2>4, <3>1 DEF Writes, Reads
  <2>5. CASE g = h /\ u # t
    <3>1. Known(u, g)' = Known(u, g)
      BY <1>1, <1>11, <2>5 DEF Known
    <3>2. /\ Writes(u, g)' <=> Writer(t, h) = u
          /\ Reads(u, g)' <=> Writer(t, h) = NoThread /\ u \in ToSet(Readers(t, h))
      BY <1>11, <2>5 DEF Writes, Reads
    <3> QED
      BY <1>19, <2>2, <2>5, <3>1, <3>2
  <2> QED
    BY <2>3, <2>4, <2>5
<1>21. TopStates'
  <2> SUFFICES ASSUME NEW g \in Top
               PROVE  /\ writer'[g] # NoThread => readers'[g] = <<>>
                      /\ IsInjective(readers'[g])
    BY <1>14 DEF TopStates
  <2>1. g \in Handle
    BY DEF Top
  <2> QED
    BY <1>11, <1>19, <2>1 DEF IInv, TopStates
<1>22. Decided'
  <2> SUFFICES ASSUME NEW u \in Thread, pc'[u] = "set", Head(walk'[u]) \in Top
               PROVE  deed'[u] = Deed(u, Head(walk[u]))' /\ deed'[u] # "refuse"
    BY <1>14 DEF Decided
  <2> DEFINE g == Head(walk[u])
  <2>1. u # t
    BY <1>11
  <2>2. walk'[u] = walk[u] /\ pc[u] = "set" /\ g \in Top
    BY <1>11, <2>1
  <2>3. deed[u] = Deed(u, g) /\ deed[u] # "refuse"
    BY <2>2 DEF IInv, Decided
  <2>4. g = call[u].top
    <3>1. walk[u] \in Seq(Handle) /\ walk[u] # <<>>
      BY <2>2 DEF IInv, StepsTypeOK, Walks
    <3>2. 1 \in DOMAIN walk[u] /\ g = walk[u][1]
      BY <3>1
    <3> QED
      BY <2>2, <3>2 DEF IInv, Walks
  <2>5. g # h
    <3>1. Within(u)
      BY <2>2 DEF Within
    <3> QED
      BY <1>3, <1>16, <2>1, <2>2, <2>4, <3>1, OneWithin DEF IInv
  <2>6. PICK x \in Top : x = g
    BY <2>2
  <2>7. writer'[x] = writer[x] /\ readers'[x] = readers[x]
    BY <1>11, <2>5, <2>6 DEF Top
  <2>8. Deed(u, x)' = Deed(u, x)
    BY <1>1, <2>7 DEF Deed, LockDeed, UnlockDeed
  <2>9. Head(walk'[u]) = x /\ Head(walk[u]) = x
    BY <2>2, <2>6
  <2>10. deed'[u] = deed[u]
    BY <1>1
  <2> HIDE DEF g
  <2> QED
    BY <2>3, <2>6, <2>8, <2>9, <2>10
<1> QED
  BY <1>12, <1>13, <1>15, <1>18, <1>20, <1>21, <1>22 DEF IInv

\* A call reports and gives up the mutex.
LEMMA LeaveInv ==
    ASSUME IInv, NEW t \in Thread, Leave(t)
    PROVE  /\ IInv'
           /\ \A h \in Handle : told'[t][h] = Known(t, h)
           /\ \A u \in Thread : u # t => told'[u] = told[u]
<1>1. /\ pc[t] = "leave"
      /\ handleMutex' = [handleMutex EXCEPT ![call[t].top] = NoThread]
      /\ told' = [told EXCEPT ![t] =
                     [h \in Handle |-> IF news[t][h] = "same" THEN @[h] ELSE news[t][h]]]
      /\ news' = [news EXCEPT ![t] = NoNews]
      /\ pc' = [pc EXCEPT ![t] = "idle"]
      /\ call' = [call EXCEPT ![t] = NoCall]
      /\ walk' = [walk EXCEPT ![t] = <<>>]
      /\ deed' = [deed EXCEPT ![t] = "keep"]
      /\ UNCHANGED <<writer, readers>>
  BY DEF Leave
<1>2. told'[t] = [h \in Handle |-> Known(t, h)]
  BY <1>1 DEF IInv, StepsTypeOK, Known
<1>3. /\ pc'[t] = "idle" /\ call'[t] = NoCall /\ walk'[t] = <<>> /\ news'[t] = NoNews
      /\ \A u \in Thread : u # t =>
            /\ pc'[u] = pc[u] /\ call'[u] = call[u] /\ walk'[u] = walk[u]
            /\ deed'[u] = deed[u] /\ news'[u] = news[u] /\ told'[u] = told[u]
  BY <1>1 DEF IInv, StepsTypeOK
<1>4. Top \subseteq Handle /\ Top' = Top
  BY DEF Top
<1>5. StepsTypeOK'
  <2>1. \A h \in Handle : Known(t, h) \in Lock
    BY DEF IInv, StepsTypeOK, Known
  <2>2. told'[t] \in [Handle -> Lock]
    BY <1>2, <2>1
  <2>3. told' \in [Thread -> [Handle -> Lock]]
    BY <1>1, <1>2, <2>1 DEF IInv, StepsTypeOK, Known
  <2>4. NoNews \in [Handle -> Lock \cup {"same"}]
    BY DEF NoNews
  <2>5. call[t] \in Calls
    BY <1>1 DEF IInv, Walks
  <2>6. <<>> \in Seq(Handle)
    OBVIOUS
  <2>7. handleMutex' \in [Handle -> Thread \cup {NoThread}]
    BY <1>1 DEF IInv, StepsTypeOK
  <2>8. deed' \in [Thread -> DeedKind]
    BY <1>1 DEF IInv, StepsTypeOK, DeedKind
  <2> QED
    BY <1>1, <2>3, <2>4, <2>6, <2>7, <2>8 DEF IInv, StepsTypeOK
<1>6. Mutexes'
  <2> SUFFICES ASSUME NEW u \in Thread, Within(u)' PROVE handleMutex'[call'[u].top] = u
    BY DEF Mutexes
  <2>1. u # t
    BY <1>3 DEF Within
  <2>2. Within(t) /\ Within(u) /\ call'[u] = call[u]
    BY <1>1, <1>3, <2>1 DEF Within
  <2>3. handleMutex[call[u].top] = u /\ call[u].top # call[t].top
    BY <2>1, <2>2, OneWithin DEF IInv, Mutexes
  <2>4. call[u] \in Calls
    BY <2>2 DEF IInv, Walks, Within
  <2>5. call[u].top \in Handle
    BY <2>4 DEF Calls
  <2> QED
    BY <1>1, <2>2, <2>3, <2>5 DEF IInv, StepsTypeOK
<1>7. Walks'
  BY <1>3, <1>4 DEF IInv, Walks
<1>8. News'
  <2> SUFFICES ASSUME NEW u \in Thread, NEW h \in Top, news'[u][h] # "same"
               PROVE  Within(u)' /\ call'[u].top = h
    BY <1>4 DEF News
  <2>1. u # t
    BY <1>3, <1>4 DEF NoNews
  <2> QED
    BY <1>3, <2>1 DEF IInv, News, Within
<1>9. \A u \in Thread, h \in Top : Known(u, h)' = Known(u, h)
  <2> SUFFICES ASSUME NEW u \in Thread, NEW h \in Top PROVE Known(u, h)' = Known(u, h)
    OBVIOUS
  <2>1. CASE u = t
    <3>1. news'[t][h] = "same" /\ told'[t][h] = Known(t, h)
      BY <1>2, <1>3, <1>4 DEF NoNews
    <3> QED
      BY <2>1, <3>1 DEF Known
  <2>2. CASE u # t
    BY <1>3, <2>2 DEF Known
  <2> QED
    BY <2>1, <2>2
<1>10. KnownTrue' /\ TopStates'
  BY <1>1, <1>4, <1>9 DEF IInv, KnownTrue, TopStates, Writes, Reads
<1>11. Decided'
  <2> SUFFICES ASSUME NEW u \in Thread, pc'[u] = "set", Head(walk'[u]) \in Top
               PROVE  deed'[u] = Deed(u, Head(walk[u]))' /\ deed'[u] # "refuse"
    BY <1>4 DEF Decided
  <2>1. u # t
    BY <1>3
  <2>2. walk'[u] = walk[u] /\ pc[u] = "set" /\ call'[u] = call[u] /\ deed'[u] = deed[u]
    BY <1>3, <2>1
  <2>3. Deed(u, Head(walk[u]))' = Deed(u, Head(walk[u]))
    BY <1>1, <2>2 DEF Deed, LockDeed, UnlockDeed
  <2> QED
    BY <2>2, <2>3 DEF IInv, Decided
<1> QED
  BY <1>2, <1>3, <1>5, <1>6, <1>7, <1>8, <1>10, <1>11 DEF IInv

\* Every step of every thread preserves the invariant.
LEMMA NextInv == IInv /\ [StepsNext]_stepVars => IInv'
<1> SUFFICES ASSUME IInv, [StepsNext]_stepVars PROVE IInv'
  OBVIOUS
<1>1. CASE UNCHANGED stepVars
  BY <1>1 DEF stepVars, IInv, StepsTypeOK, Mutexes, Walks, News, KnownTrue, TopStates, Decided,
       Within, Known, Writes, Reads, Deed, LockDeed, UnlockDeed, Top
<1>2. CASE StepsNext
  BY <1>2, LockCallInv, EnterInv, TestInv, SetInv, LeaveInv DEF StepsNext, InLock
<1> QED
  BY <1>1, <1>2

-----------------------------------------------------------------------------
(* The theorems *)

\* The invariant holds in all behaviours.
LEMMA StepsInductive == StepsSpec => []IInv
<1> QED
  BY InitInv, NextInv, PTL DEF StepsSpec

\* What dat1HandleLock told a thread of the lock on an object that is a
\* component of no other stays true until its next call.
THEOREM ToldStaysTrue == StepsSpec => []ToldTrue
<1>1. IInv => ToldTrue
  <2> SUFFICES ASSUME IInv, NEW t \in Thread, NEW h \in Top, pc[t] \in {"idle", "enter"}
               PROVE  /\ told[t][h] = "write" <=> writer[h] = t
                      /\ told[t][h] = "read" <=> writer[h] = NoThread /\ t \in ToSet(readers[h])
    BY DEF ToldTrue
  <2>1. news[t][h] = "same"
    BY DEF IInv, News, Within
  <2> QED
    BY <2>1 DEF IInv, KnownTrue, Known, Writes, Reads
<1> QED
  BY <1>1, StepsInductive, PTL

\* The fields of the Handles and what the threads keep have their types.
LEMMA StepsTyped == StepsSpec => []StepsTypeOK
  BY StepsInductive, PTL DEF IInv

\* A return gives a thread the lock on one object, in a step that the abstract
\* locks allow.
LEMMA LeaveIsAStep ==
    ASSUME IInv, NEW t \in Thread, Leave(t)
    PROVE  [Locks!Next]_(Locks!lockVars)
<1> DEFINE wr0 == [h \in Top |-> {u \in Thread : told[u][h] = "write"}]
           rd0 == [h \in Top |-> {u \in Thread : told[u][h] = "read"}]
           wr1 == [h \in Top |-> {u \in Thread : told'[u][h] = "write"}]
           rd1 == [h \in Top |-> {u \in Thread : told'[u][h] = "read"}]
<1>0. PICK g \in Handle : g = call[t].top
  <2>1. call[t] \in Calls
    BY DEF Leave, IInv, Walks
  <2> QED
    BY <2>1 DEF Calls
<1>1. /\ IInv'
      /\ \A h \in Handle : told'[t][h] = Known(t, h)
      /\ \A u \in Thread : u # t => told'[u] = told[u]
  BY LeaveInv
<1>2. Top \subseteq Handle /\ Top' = Top
  BY DEF Top
<1>3. \A h \in Top : h # g => \A u \in Thread : told'[u][h] = told[u][h]
  BY <1>0, <1>1, <1>2 DEF IInv, News, Known
<1>4. \A u \in Thread, h \in Top : u # t => Known(u, h) = told[u][h] \/ h # g
  <2> SUFFICES ASSUME NEW u \in Thread, u # t, g \in Top PROVE Known(u, g) = told[u][g]
    OBVIOUS
  <2>1. Within(t)
    BY DEF Leave, Within
  <2>2. ~(Within(u) /\ call[u].top = g)
    BY <1>0, <2>1, OneWithin DEF IInv
  <2> QED
    BY <2>2 DEF Known, IInv, News
<1>5. \A u \in Thread : told'[u] \in [Handle -> Lock]
  BY <1>1 DEF IInv, StepsTypeOK
<1>6. CASE g \notin Top
  <2>1. wr1 = wr0 /\ rd1 = rd0
    BY <1>3, <1>6
  <2> QED
    BY <1>2, <2>1 DEF Locks!lockVars
<1>7. CASE g \in Top
  <2>1. \A u \in Thread : u # t => told[u][g] = Known(u, g) /\ told'[u][g] = told[u][g]
    BY <1>1, <1>4, <1>7
  <2>2. \A u \in Thread : u # t =>
           /\ told[u][g] = "write" <=> Writes(u, g)
           /\ told[u][g] = "read" <=> Reads(u, g)
    BY <1>7, <2>1 DEF IInv, KnownTrue
  <2>3. /\ told'[t][g] = "write" <=> Writes(t, g)
        /\ told'[t][g] = "read" <=> Reads(t, g)
    BY <1>1, <1>2, <1>7 DEF IInv, KnownTrue
  <2>4. writer[g] # NoThread => readers[g] = <<>>
    BY <1>7 DEF IInv, TopStates
  <2>5. ToSet(<<>>) = {}
    BY DEF ToSet
  <2>6. told'[t][g] \in {"none", "read", "write"}
    BY <1>2, <1>5, <1>7 DEF Lock
  <2>7. \A h \in Top : h # g => wr1[h] = wr0[h] /\ rd1[h] = rd0[h]
    BY <1>3
  <2>8. {g} \in SUBSET Top
    BY <1>7
  <2>9. CASE told'[t][g] = "write"
    <3>1. \A u \in Thread : u # t => told[u][g] # "write" /\ told[u][g] # "read"
      BY <2>2, <2>3, <2>9 DEF Writes, Reads
    <3>2. wr0[g] \subseteq {t} /\ rd0[g] \subseteq {t}
      BY <1>7, <3>1
    <3>3. wr1[g] = {t} /\ rd1[g] = {}
      BY <1>7, <2>1, <2>9, <3>1
    <3>4. wr1 = [h \in Top |-> IF h \in {g} THEN {t} ELSE wr0[h]]
      BY <2>7, <3>3
    <3>5. rd1 = [h \in Top |-> IF h \in {g} THEN {} ELSE rd0[h]]
      BY <2>7, <3>3
    <3>6. Locks!WriteLock(t, {g})
      BY <1>2, <1>7, <3>2, <3>4, <3>5 DEF Locks!WriteLock, Locks!MayWrite
    <3>7. Locks!Next
      BY <2>8, <3>6 DEF Locks!Next
    <3> QED
      BY <3>7
  <2>10. CASE told'[t][g] = "read"
    <3>1. \A u \in Thread : u # t => told[u][g] # "write"
      BY <2>2, <2>3, <2>10 DEF Writes, Reads
    <3>2. wr0[g] \subseteq {t}
      BY <1>7, <3>1
    <3>3. wr1[g] = {} /\ rd1[g] = rd0[g] \cup {t}
      BY <1>7, <2>1, <2>10, <3>1
    <3>4. wr1 = [h \in Top |-> IF h \in {g} THEN {} ELSE wr0[h]]
      BY <2>7, <3>3
    <3>5. rd1 = [h \in Top |-> IF h \in {g} THEN rd0[h] \cup {t} ELSE rd0[h]]
      <4>1. \A h \in Top : rd1[h] = IF h \in {g} THEN rd0[h] \cup {t} ELSE rd0[h]
        BY <2>7, <3>3
      <4>2. rd1 = [h \in Top |-> rd1[h]]
        OBVIOUS
      <4> HIDE DEF rd0, rd1
      <4> QED
        BY <4>1, <4>2
    <3>6. Locks!ReadLock(t, {g})
      BY <1>2, <1>7, <3>2, <3>4, <3>5 DEF Locks!ReadLock, Locks!MayRead
    <3>7. Locks!Next
      BY <2>8, <3>6 DEF Locks!Next
    <3> QED
      BY <3>7
  <2>11. CASE told'[t][g] = "none"
    <3>1. wr1[g] = wr0[g] \ {t} /\ rd1[g] = rd0[g] \ {t}
      BY <1>7, <2>1, <2>11
    <3>2. wr1 = [h \in Top |-> IF h \in {g} THEN wr0[h] \ {t} ELSE wr0[h]]
      BY <2>7, <3>1
    <3>3. rd1 = [h \in Top |-> IF h \in {g} THEN rd0[h] \ {t} ELSE rd0[h]]
      BY <2>7, <3>1
    <3>4. Locks!Release(t, {g})
      BY <1>2, <3>2, <3>3 DEF Locks!Release
    <3>5. Locks!Next
      BY <2>8, <3>4 DEF Locks!Next
    <3> QED
      BY <3>5
  <2> QED
    BY <2>6, <2>9, <2>10, <2>11
<1> QED
  BY <1>6, <1>7

\* The calls of dat1HandleLock that work on an object under its mutex are
\* steps of the abstract readers-writer locks: each call takes effect at once,
\* however its steps are interleaved with those of other threads.
THEOREM CallsActAtOnce == StepsSpec => CallsAreAtomic
<1>1. ASSUME IInv, [StepsNext]_stepVars PROVE [Locks!Next]_(Locks!lockVars)
  <2>1. Top' = Top
    BY DEF Top
  <2>2. CASE told' = told
    BY <2>1, <2>2 DEF Locks!lockVars
  <2>3. CASE told' # told
    <3>1. PICK t \in Thread : LockCall(t) \/ Enter(t) \/ Test(t) \/ Set(t) \/ Leave(t)
      BY <1>1, <2>3 DEF StepsNext, InLock, stepVars
    <3>2. Leave(t)
      BY <2>3, <3>1 DEF LockCall, Enter, Test, Set
    <3> QED
      BY <1>1, <3>2, LeaveIsAStep
  <2> QED
    BY <2>2, <2>3
<1> QED
  BY <1>1, StepsInductive, PTL DEF StepsSpec, CallsAreAtomic
=============================================================================
