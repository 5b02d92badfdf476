--------------------------- MODULE HandleLockSteps ---------------------------
(***************************************************************************)
(* dat1HandleLock step by step, in several threads at once.                 *)
(*                                                                         *)
(* A call takes the mutex of the Handle it is given, and of no other: a     *)
(* recursive call works on the Handles below without their mutexes.  It     *)
(* looks at the fields of one Handle, then changes them, then goes on to    *)
(* the next.  The tree of Handles does not change here; module HandleLock   *)
(* has the calls that change it.  "told" is what the calls of each thread   *)
(* have reported to it, which is all that the thread can rely on.           *)
(***************************************************************************)
EXTENDS Threads, Integers, Lists

CONSTANTS
    Handle,
    Kids         \* Kids[h]: the children of h, in order

ASSUME StepsAssumption == Kids \in [Handle -> Seq(Handle)]

VARIABLES
    handleMutex, \* the holder of each Handle's mutex
    writer,      \* as in HandleLock
    readers,
    pc,          \* where each thread is: "idle", "enter", "test", "set", "leave"
    call,        \* the arguments of its call
    walk,        \* the Handles its call has still to visit
    deed,        \* what it has decided to do to the first of them
    news,        \* what the call will report, for each Handle
    told         \* what the calls so far have reported

stepVars == <<handleMutex, writer, readers, pc, call, walk, deed, news, told>>

\* What a thread knows of its lock on a Handle; "same" is no news.
Lock == {"none", "read", "write"}
NoNews == [h \in Handle |-> "same"]

Calls ==
    [op : {"lock", "unlock"}, top : Handle, recurs : BOOLEAN, rdonly : BOOLEAN]
    \cup [op : {"query"}, top : Handle, recurs : {FALSE}, rdonly : {FALSE}]

NoCall == [op |-> "none"]

-----------------------------------------------------------------------------
(* The decision made for one Handle *)

\* Mutant: a read lock is promoted although other threads have one too.
LockDeed_SharedPromotion(t, h, rdonly) ==
    IF rdonly
    THEN IF writer[h] = t THEN "demote"
         ELSE IF writer[h] # NoThread THEN "refuse"
         ELSE IF t \in ToSet(readers[h]) THEN "keep" ELSE "append"
    ELSE IF readers[h] = <<>>
         THEN IF writer[h] = NoThread THEN "take"
              ELSE IF writer[h] = t THEN "keep" ELSE "refuse"
         ELSE IF t \in ToSet(readers[h]) THEN "promote" ELSE "refuse"

LockDeed(t, h, rdonly) ==
    IF rdonly
    THEN IF writer[h] = t THEN "demote"
         ELSE IF writer[h] # NoThread THEN "refuse"
         ELSE IF t \in ToSet(readers[h]) THEN "keep" ELSE "append"
    ELSE IF readers[h] = <<>>
         THEN IF writer[h] = NoThread THEN "take"
              ELSE IF writer[h] = t THEN "keep" ELSE "refuse"
         ELSE IF readers[h] = <<t>> THEN "promote" ELSE "refuse"

UnlockDeed(t, h) ==
    IF writer[h] = t THEN "dropWrite"
    ELSE IF writer[h] = NoThread /\ t \in ToSet(readers[h]) THEN "dropRead" ELSE "refuse"

Deed(t, h) ==
    IF call[t].op = "lock" THEN LockDeed(t, h, call[t].rdonly)
    ELSE IF call[t].op = "unlock" THEN UnlockDeed(t, h) ELSE "keep"

\* What the call reports about h once it is done with it.
Report(t, h) ==
    IF call[t].op = "lock" THEN IF call[t].rdonly THEN "read" ELSE "write"
    ELSE IF call[t].op = "unlock" THEN "none"
    ELSE IF writer[h] = t THEN "write"
    ELSE IF writer[h] = NoThread /\ t \in ToSet(readers[h]) THEN "read" ELSE "none"

-----------------------------------------------------------------------------
(* The steps of a call *)

\* datLock, datUnlock, or dat1ValidateLocator for any function that uses h.
LockCall(t) ==
    /\ pc[t] = "idle"
    /\ \E c \in Calls :
          /\ call' = [call EXCEPT ![t] = c]
          /\ walk' = [walk EXCEPT ![t] = <<c.top>>]
    /\ pc' = [pc EXCEPT ![t] = "enter"]
    /\ UNCHANGED <<handleMutex, writer, readers, deed, news, told>>


\* Mutant: the mutex is not waited for.
Enter_NoWait(t) ==
    /\ pc[t] = "enter"
    /\ handleMutex' = [handleMutex EXCEPT ![call[t].top] = t]
    /\ pc' = [pc EXCEPT ![t] = "test"]
    /\ UNCHANGED <<writer, readers, call, walk, deed, news, told>>

Enter(t) ==
    /\ pc[t] = "enter"
    /\ handleMutex[call[t].top] = NoThread
    /\ handleMutex' = [handleMutex EXCEPT ![call[t].top] = t]
    /\ pc' = [pc EXCEPT ![t] = "test"]
    /\ UNCHANGED <<writer, readers, call, walk, deed, news, told>>


\* Mutant: a thread that is refused waits for the lock to become free, and
\* keeps the mutex meanwhile.
Test_Wait(t) ==
    /\ pc[t] = "test"
    /\ deed' = [deed EXCEPT ![t] = Deed(t, Head(walk[t]))]
    /\ pc' = [pc EXCEPT ![t] = IF deed'[t] = "refuse" THEN "test" ELSE "set"]
    /\ UNCHANGED <<handleMutex, writer, readers, call, walk, news, told>>

Test(t) ==
    /\ pc[t] = "test"
    /\ deed' = [deed EXCEPT ![t] = Deed(t, Head(walk[t]))]
    /\ pc' = [pc EXCEPT ![t] = IF deed'[t] = "refuse" THEN "leave" ELSE "set"]
    /\ UNCHANGED <<handleMutex, writer, readers, call, walk, news, told>>


\* The array of readers of h after the change t has decided on.
Readers(t, h) ==
    CASE deed[t] = "demote" -> <<t>>
      [] deed[t] = "append" -> Append(readers[h], t)
      [] deed[t] = "promote" -> <<>>
      [] deed[t] = "dropRead" -> Without(readers[h], t)
      [] OTHER -> readers[h]

Writer(t, h) ==
    CASE deed[t] \in {"take", "promote"} -> t
      [] deed[t] \in {"demote", "dropWrite"} -> NoThread
      [] OTHER -> writer[h]

\* The Handles that come next once t is done with h: a recursive call goes on
\* to the children of h, and to the rest after them.
AndBelow(t, h) == IF call[t].recurs THEN Kids[h] ELSE <<>>

Set(t) ==
    LET h == Head(walk[t]) IN
    /\ pc[t] = "set"
    /\ writer' = [writer EXCEPT ![h] = Writer(t, h)]
    /\ readers' = [readers EXCEPT ![h] = Readers(t, h)]
    /\ news' = [news EXCEPT ![t][h] = Report(t, h)]
    /\ walk' = [walk EXCEPT ![t] = AndBelow(t, h) \o Tail(@)]
    /\ pc' = [pc EXCEPT ![t] = IF walk'[t] = <<>> THEN "leave" ELSE "test"]
    /\ UNCHANGED <<handleMutex, call, deed, told>>

Leave(t) ==
    /\ pc[t] = "leave"
    /\ handleMutex' = [handleMutex EXCEPT ![call[t].top] = NoThread]
    /\ told' = [told EXCEPT ![t] =
                  [h \in Handle |-> IF news[t][h] = "same" THEN @[h] ELSE news[t][h]]]
    /\ news' = [news EXCEPT ![t] = NoNews]
    /\ pc' = [pc EXCEPT ![t] = "idle"]
    /\ call' = [call EXCEPT ![t] = NoCall]
    /\ walk' = [walk EXCEPT ![t] = <<>>]
    /\ deed' = [deed EXCEPT ![t] = "keep"]
    /\ UNCHANGED <<writer, readers>>

-----------------------------------------------------------------------------
StepsInit ==
    /\ handleMutex = [h \in Handle |-> NoThread]
    /\ writer = [h \in Handle |-> NoThread]
    /\ readers = [h \in Handle |-> <<>>]
    /\ pc = [t \in Thread |-> "idle"]
    /\ call = [t \in Thread |-> NoCall]
    /\ walk = [t \in Thread |-> <<>>]
    /\ deed = [t \in Thread |-> "keep"]
    /\ news = [t \in Thread |-> NoNews]
    /\ told = [t \in Thread |-> [h \in Handle |-> "none"]]

InLock(t) == Test(t) \/ Set(t) \/ Leave(t)

StepsNext == \E t \in Thread : LockCall(t) \/ Enter(t) \/ InLock(t)

\* A thread that has a mutex, or can get the one it waits for, goes on.
\* Nothing makes a thread start a call, and a mutex is not given to the
\* threads in turn.
StepsFairness == \A t \in Thread : WF_stepVars(Enter(t)) /\ WF_stepVars(InLock(t))

StepsSpec == StepsInit /\ [][StepsNext]_stepVars /\ StepsFairness

-----------------------------------------------------------------------------
(* Properties *)

\* A thread that was told it has an object to itself is the only one that was
\* told it may use it, until it makes its next call (dat1HandleLock: "Locked
\* for read-write access by one and only one thread").
ToldExclusive ==
    \A t, u \in Thread, h \in Handle :
        t # u /\ told[t][h] = "write" => told[u][h] = "none"

\* The objects that are components of no other: every call that works on their
\* Handles has the mutex.
Top == {h \in Handle : \A g \in Handle : h \notin ToSet(Kids[g])}

\* What a thread was told of such an object is what the Handle says, whatever
\* other threads are in the middle of, also if they work down from it: the
\* answer that dat1ValidateLocator acts on does not go stale.
ToldTrue ==
    \A t \in Thread, h \in Top :
        pc[t] \in {"idle", "enter"} =>
            /\ told[t][h] = "write" <=> writer[h] = t
            /\ told[t][h] = "read" <=> writer[h] = NoThread /\ t \in ToSet(readers[h])

Locks == INSTANCE RWLock WITH
    Object <- Top, exists <- Top,
    wr <- [h \in Top |-> {t \in Thread : told[t][h] = "write"}],
    rd <- [h \in Top |-> {t \in Thread : told[t][h] = "read"}]

\* The returns of the calls are steps of the abstract readers-writer locks, in
\* which one thread's write lock excludes all others.
CallsAreAtomic == [][Locks!Next]_(Locks!lockVars)

\* Threads never wait for each other in a circle: while some thread is in a
\* call, some call returns ("To avoid deadlocks, we only lock the Handle
\* mutex for top level entries to this function", dat1HandleLock).
CallsProgress ==
    (\E t \in Thread : pc[t] # "idle") ~> (\E t \in Thread : pc[t] = "leave")
=============================================================================
