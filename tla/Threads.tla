------------------------------ MODULE Threads ------------------------------
(* The threads of the program, each of which calls the library.             *)

CONSTANTS
    Thread,
    NoThread    \* no thread holds the mutex, or the lock

ASSUME ThreadAssumption == NoThread \notin Thread
=============================================================================
