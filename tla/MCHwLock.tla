------------------------------ MODULE MCHwLock ------------------------------
\* Two threads and a timer handler that all use the lock.
EXTENDS HwLock

\* One section: scheduler_current, the getters and setters of proc.cpp.
Flat == <<"lock", "work", "unlock">>

\* A section that calls a function with a section of its own and goes on:
\* spawn_thread, scheduler_increment.
Nested == <<"lock", "lock", "work", "unlock", "work", "unlock">>
=============================================================================
