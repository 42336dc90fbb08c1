CONSTANT Preempt = TRUE
SPECIFICATION RadioSpec
INVARIANT RxListens
