------------------------------- MODULE Tuning -------------------------------
(***************************************************************************)
(* The tuning parameters (hdstuning.c): MAP, LOCKCHECK and SHELL.            *)
(*                                                                         *)
(* The environment is looked at when a value is asked for the first time.   *)
(* That hdsTune, or another thread, may have set the parameter before, the  *)
(* code does not consider.  Reading and writing a value are protected by a mutex,   *)
(* each by itself; the flag that says the environment was looked at is not.  *)
(*                                                                         *)
(* The state is one of the parameters.  What the three have in common with   *)
(* one another is the flag.                                                 *)
(***************************************************************************)
EXTENDS Integers

CONSTANTS
    Tuner,       \* threads
    TuneValue    \* the integers that hdsTune and the environment give

ASSUME TuningAssumption == TuneValue \subseteq Int

VARIABLES
    param,       \* the parameter
    environ,     \* what its environment variable gives: a set of at most one integer
    tuned,       \* its value
    initialized, \* HAVE_INITIALIZED_V5_TUNING
    doing,       \* doing[t]: where a thread is in a call, and the value it has read
    lastTuned,   \* history: the value of the last hdsTune, as a set like "environ"
    begun,       \* history: the threads that could still store what the environment
                 \* gives when that hdsTune was called
    stored       \* history: the threads that have stored it

tuneVars == <<param, environ, tuned, initialized, doing, lastTuned, begun, stored>>

\* hds1SetShell, hds1SetUseMmap, hds1SetLockCheck: the value that is stored.
\* HDS__NOSHELL is -1, HDS__SHSHELL 0 and HDS__MAXSHELL 1.
Accept(v) == IF param = "SHELL" THEN IF v >= -1 /\ v < 1 THEN v ELSE 0
             ELSE IF v = 0 THEN 0 ELSE 1

Default == IF param = "SHELL" THEN 0 ELSE 1

Away == [at |-> "away", value |-> 0]
Step(t, from, to) == doing[t].at = from /\ doing' = [doing EXCEPT ![t] = to]

\* hdsTune
HdsTune(t) ==
    /\ doing[t] = Away
    /\ \E v \in TuneValue : tuned' = Accept(v) /\ lastTuned' = {Accept(v)}
    /\ begun' = {u \in Tuner \ stored : doing[u].at \in {"read", "write"} \/ ~initialized}
    /\ UNCHANGED <<param, environ, initialized, doing, stored>>

\* Mutant: the flag is not looked at.
GetBegin_Always(t) ==
    /\ Step(t, "away", [Away EXCEPT !.at = "read"])
    /\ UNCHANGED <<param, environ, tuned, initialized, lastTuned, begun, stored>>

\* hds1GetShell, hds1GetUseMmap, hds1GetLockCheck, from hdsGtune or another call.
GetBegin(t) ==
    /\ Step(t, "away", [Away EXCEPT !.at = IF initialized THEN "get" ELSE "read"])
    /\ UNCHANGED <<param, environ, tuned, initialized, lastTuned, begun, stored>>

\* hds1ReadTuneEnvironment, dat1Getenv: the value of the environment, or else
\* the one there is.
ReadEnvironment(t) ==
    /\ \E v \in IF environ = {} THEN {tuned} ELSE environ :
          Step(t, "read", [at |-> "write", value |-> v])
    /\ UNCHANGED <<param, environ, tuned, initialized, lastTuned, begun, stored>>

WriteValue(t) ==
    /\ Step(t, "write", [Away EXCEPT !.at = "flag"])
    /\ tuned' = Accept(doing[t].value)
    /\ stored' = stored \cup {t}
    /\ UNCHANGED <<param, environ, initialized, lastTuned, begun>>

SetFlag(t) ==
    /\ Step(t, "flag", [Away EXCEPT !.at = "get"])
    /\ initialized' = TRUE
    /\ UNCHANGED <<param, environ, tuned, lastTuned, begun, stored>>

\* The value is returned.
GetValue(t) ==
    /\ Step(t, "get", Away)
    /\ UNCHANGED <<param, environ, tuned, initialized, lastTuned, begun, stored>>

TuneInit ==
    /\ param \in {"SHELL", "MAP", "LOCKCHECK"}
    /\ environ \in {{}} \cup {{v} : v \in TuneValue}
    /\ tuned = Default
    /\ initialized = FALSE
    /\ doing = [t \in Tuner |-> Away]
    /\ lastTuned = {} /\ begun = {} /\ stored = {}

TuneNext ==
    \E t \in Tuner : \/ HdsTune(t) \/ GetBegin(t) \/ ReadEnvironment(t)
                     \/ WriteValue(t) \/ SetFlag(t) \/ GetValue(t)

TuneSpec == TuneInit /\ [][TuneNext]_tuneVars

-----------------------------------------------------------------------------
(* Properties *)

\* hdsGtune returns "its default value, or the value last specified using the
\* hdsTune routine".  While threads look at the environment, and store what they
\* find there after hdsTune has stored its value, this need not be so.  What is:
\* no thread does that twice; a value of hdsTune is replaced only by a thread that
\* was looking, or when no thread had finished looking, at the time of hdsTune;
\* and if the environment gives a value, then no third one comes back.  Before
\* hdsTune is called, the value is that of the environment, or else the default.
TunedLasts ==
    /\ \A t \in stored : doing[t].at \notin {"read", "write"}
    /\ lastTuned # {} => lastTuned = {tuned} \/ begun \cap stored # {}
    /\ lastTuned # {} /\ environ # {} => tuned \in lastTuned \cup {Accept(v) : v \in environ}
    /\ initialized /\ lastTuned = {} => tuned \in {Accept(v) : v \in environ}
                                        \/ (environ = {} /\ tuned = Default)
=============================================================================
