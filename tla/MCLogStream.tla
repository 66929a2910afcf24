---------------------------- MODULE MCLogStream ----------------------------
(* LogStream for TLC: what the lines of the containers are. *)
EXTENDS LogStream

CONSTANTS web, db, info, error

\* web writes an info line, a blank one and an error line, so that a line the
\* filter may drop and a skipped one lie between two relevant ones; db writes
\* an info line, then error lines.
MCKind(c, n) == IF c = web THEN <<info, Blank, error>>[n]
                           ELSE IF n = 1 THEN info ELSE error

\* Two requests that select differently; the liveness runs take the first.
OneRequest == wanted = {} /\ levelFilter = {error} /\ ~wantsJSON
TwoRequests == \/ OneRequest
               \/ wanted = {web} /\ levelFilter = {} /\ wantsJSON

\* Both containers are up; web has yet to write its first line, and db has written all its
\* lines, of which the last competes with those of web.
Beginning == /\ produced[web] = 0 /\ running[web]
             /\ produced[db] = MaxLines /\ running[db]

MCInit == Init /\ TwoRequests /\ Beginning
MCFairInit == Init /\ OneRequest

MCSpec == MCInit /\ [][Next]_vars
MCFairSpec == MCFairInit /\ [][Next]_vars /\ Fairness

\* A client that stalls: it takes no entry and leaves while one is written to it.  Nothing
\* depends on an event that would be received once ctx is cancelled.
StallingNext == /\ Next
                /\ UNCHANGED out
                /\ clientGone' # clientGone => handler = "write"
                /\ ctxDone => UNCHANGED pos
MCStallingSpec == MCFairInit /\ [][StallingNext]_vars /\ Fairness
=============================================================================
