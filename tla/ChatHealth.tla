----------------------------- MODULE ChatHealth -----------------------------
(***************************************************************************)
(* The watcher that turns repeated chat.error events into an inbox item    *)
(* (src/daemon/chat-health.ts): per thread, Threshold failures within a    *)
(* sliding window page the owner once, and the thread may page again only  *)
(* after a turn of it has ended.  Time is counted in ticks, far coarser    *)
(* than Date.now(), and kept relative: a failure is known by its age, and  *)
(* by its place among the errors of its thread.  The code keeps a list but *)
(* reads no more of it than its length.                                    *)
(***************************************************************************)
EXTENDS Naturals, FiniteSets

CONSTANTS
    Threads,     \* chat threads of the watched agent
    Threshold,   \* failures within the window that page
    WindowTicks, \* the window
    MaxStrikes   \* bound: errors of a thread between two ended turns of it

HealthAssumption ==
    /\ Threshold \in Nat \ {0} /\ WindowTicks \in Nat \ {0}
    /\ MaxStrikes \in Nat

VARIABLES
    failures,      \* thread -> the failures kept for it
    proposed,      \* the threads paged since their last turn-end
    pagesSince,    \* thread -> items posted since its last turn-end
    strikes        \* thread -> every error since its last turn-end

healthVars == <<failures, proposed, pagesSince, strikes>>

InWindow(fs) == {f \in fs : f.age < WindowTicks}

\* Ages beyond the window are all alike.
Older(fs) == {[f EXCEPT !.age = IF @ < WindowTicks THEN @ + 1 ELSE @] : f \in fs}

Init ==
    /\ failures = [t \in Threads |-> {}]
    /\ proposed = {}
    /\ pagesSince = [t \in Threads |-> 0]
    /\ strikes = [t \in Threads |-> {}]

\* A tick of the clock.
Tick ==
    /\ failures' = [t \in Threads |-> Older(failures[t])]
    /\ strikes' = [t \in Threads |-> Older(strikes[t])]
    /\ UNCHANGED <<proposed, pagesSince>>

\* Mutant: the page is not remembered.
PageForgetfully(t, posted) ==
    /\ proposed' = proposed
    /\ pagesSince' = [pagesSince EXCEPT ![t] = @ + (IF posted THEN 1 ELSE 0)]

\* The page itself: remembered before inbox.propose is tried, whose failure
\* is swallowed.
Page(t, posted) ==
    /\ proposed' = proposed \cup {t}
    /\ pagesSince' = [pagesSince EXCEPT ![t] = @ + (IF posted THEN 1 ELSE 0)]

\* chat.error of the watched agent on thread t.
ChatError(t, posted) ==
    LET error == [nth |-> Cardinality(strikes[t]) + 1, age |-> 0]
        window == InWindow(failures[t]) \cup {error}
    IN /\ Cardinality(strikes[t]) < MaxStrikes
       /\ failures' = [failures EXCEPT ![t] = window]
       /\ strikes' = [strikes EXCEPT ![t] = @ \cup {error}]
       /\ IF Cardinality(window) >= Threshold /\ t \notin proposed
          THEN Page(t, posted)
          ELSE UNCHANGED <<proposed, pagesSince>>

\* chat.turn-end of the watched agent on thread t.
TurnEnd(t) ==
    /\ failures' = [failures EXCEPT ![t] = {}]
    /\ strikes' = [strikes EXCEPT ![t] = {}]
    /\ proposed' = proposed \ {t}
    /\ pagesSince' = [pagesSince EXCEPT ![t] = 0]

Next ==
    \/ Tick
    \/ \E t \in Threads : \/ \E posted \in BOOLEAN : ChatError(t, posted)
                          \/ TurnEnd(t)

Spec == Init /\ [][Next]_healthVars

----------------------------------------------------------------------------
TypeOK ==
    /\ \A t \in Threads : strikes[t] \subseteq [nth : 1..MaxStrikes, age : 0..WindowTicks]
    /\ DOMAIN failures = Threads /\ DOMAIN strikes = Threads
    /\ proposed \subseteq Threads
    /\ pagesSince \in [Threads -> Nat]

\* An outage of a thread is told once: at most one inbox item between two
\* ended turns, and none owed: Threshold errors within one window since the
\* last ended turn have paged, whatever the errors of the other threads.
PagedOncePerOutage ==
    \A t \in Threads :
        /\ pagesSince[t] <= 1
        /\ Cardinality(InWindow(strikes[t])) >= Threshold => t \in proposed

\* chat-health.ts says a thread pages again once "the time window slides past
\* the last failure": a thread that has paged and whose kept failures have
\* all left the window can page again.
WindowReopens ==
    \A t \in Threads :
        failures[t] # {} /\ InWindow(failures[t]) = {} => t \notin proposed
=============================================================================
