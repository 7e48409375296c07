------------------------------ MODULE TryCatch ------------------------------
(***************************************************************************)
(* try_catch.h: one global exception code and a stack of handlers.  A try  *)
(* clears the code; a catch runs when the code is set at its end, be it    *)
(* that something was thrown to it or that a code was left behind.  `at'   *)
(* is where the process is; a handler is the name of its catch block.      *)
(***************************************************************************)
EXTENDS Naturals, Sequences

VARIABLES
    at,
    exceptions          \* g_exceptionCode and g_pExceptionHandlers

\* The codes that this process throws, in the order of their numbers.
noException              == 0
invalidArgumentException == 1
bufferOverrunException   == 2
outOfMemoryException     == 3
busErrorException        == 4
bkptException            == 5
socketException          == 6
fileException            == 7
coverageException        == 8

NoExceptions == [code |-> noException, handlers |-> << >>]

\* The higher one of two codes survives.
SetExceptionCode(code, exception) == IF exception > code THEN exception ELSE code

At(place) == at = place
Goes(place) == at' = place /\ UNCHANGED exceptions

\* A try: its handler is the innermost one from here on.
Try(handler, place) ==
    /\ exceptions' = [code |-> noException, handlers |-> <<handler>> \o exceptions.handlers]
    /\ at' = place

\* The end of a try: the catch block runs when the code is set.
EndTry(place) ==
    /\ exceptions' = [exceptions EXCEPT !.handlers = Tail(@)]
    /\ at' = IF exceptions.code = noException THEN place ELSE Head(exceptions.handlers)

\* A throw goes to the innermost handler; without one the process is stopped.
Throw(exception) ==
    IF exceptions.handlers = << >>
    THEN at' = "killed" /\ UNCHANGED exceptions
    ELSE /\ exceptions' = [code |-> SetExceptionCode(exceptions.code, exception),
                           handlers |-> Tail(exceptions.handlers)]
         /\ at' = Head(exceptions.handlers)

\* Out of a catch block, to the next handler with the same code.
Rethrow == Throw(exceptions.code)

\* A try and a catch around one call that is over within a step: what was
\* thrown in it stays behind as the code, or the code is clear.
TriedAndFailed(exception, place) == exceptions' = [exceptions EXCEPT !.code = exception] /\ at' = place
TriedAndPassed(place) == exceptions' = [exceptions EXCEPT !.code = noException] /\ at' = place
=============================================================================
