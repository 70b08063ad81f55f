---------------------------- MODULE MCRequestCaps ----------------------------
(***************************************************************************)
(* Requests for the run of TLC, and the semaphores the caps come down to.  *)
(***************************************************************************)
EXTENDS RequestCaps, TLC

CONSTANTS s1, s2, r1, r2, r3

(* All are of one Session; the other is there to be forked. *)
AllOfOne == [r \in {r1, r2, r3} |-> s1]

Alike == Permutations({r1, r2, r3})

\* The requests of one Session id, or of none, make one Semaphore under the
\* cap that Session shows: no order of openings and changes gives them a
\* second one or another limit.
Line(k) == INSTANCE Semaphore
             WITH Callers <- Requests, Limits <- Caps \cup {DefaultCap}, MaxChanges <- 0,
                  limit <- Projected(k), changes <- 0, active <- Len(granted[k]),
                  granted <- granted[k], waiters <- waiters[k], signalled <- signalled,
                  pc <- [r \in Requests |->
                           IF key[r] = k /\ pc[r] # "unasked" THEN pc[r] ELSE "idle"]

OneSemaphoreEach ==
    [][\A k \in Keys :
          \/ restarts' # restarts \/ UNCHANGED <<granted[k], waiters[k]>>
          \/ \E r \in Requests : Line(k)!Acquire(r) \/ Line(k)!Abort(r) \/ Line(k)!Release(r)]_vars
=============================================================================
