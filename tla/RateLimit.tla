------------------------------ MODULE RateLimit ------------------------------
(***************************************************************************)
(* The rate limit of one route and one client: a sliding window over the   *)
(* hits that some instance of the server counted.  Without Redis each      *)
(* instance keeps its own list; with it all share a sorted set, scored by  *)
(* the clock of the instance that counts, which a script trims, extends    *)
(* and counts atomically, and which expires by the clock of Redis.         *)
(* Instances' clocks are ahead of that of Redis by up to MaxSkew.  A       *)
(* request that Redis fails to count is let through on a public route and  *)
(* answered with an error on another; it is in no window, and not here.    *)
(***************************************************************************)
EXTENDS Naturals, Integers, Sequences, FiniteSets

CONSTANTS Host,        \* instances of the server
          Window, Limit, \* windowMs and max of the route
          MaxSkew,
          LastInstant, MaxRequests \* bounds

ASSUME RateAssumption ==
  /\ Window \in Nat \ {0} /\ Limit \in Nat \ {0} /\ MaxSkew \in Nat
  /\ LastInstant \in Nat /\ MaxRequests \in Nat
  /\ "redis" \notin Host

VARIABLES
  backend, \* which store createRateLimitStore chose
  ahead,   \* by how much each instance's clock is ahead
  instant, \* the clock of Redis
  window,  \* scored hits, by key: one for each instance's list, one in Redis
  seq,     \* the counter beside the sorted set
  expiry,  \* when both expire
  served   \* requests: instant, instance, admitted (history)

rateVars == <<backend, ahead, instant, window, seq, expiry, served>>

InRedis == "redis"

Score == 0 .. LastInstant + MaxSkew

RateTypeOK ==
  /\ backend \in {"memory", "redis"}
  /\ ahead \in [Host -> 0 .. MaxSkew]
  /\ instant \in 0 .. LastInstant
  /\ window \in [Host \cup {InRedis} -> SUBSET (Score \X (1 .. MaxRequests))]
  /\ seq \in 0 .. MaxRequests
  /\ expiry \in 0 .. LastInstant + Window
  /\ served \in Seq([at : 0 .. LastInstant, host : Host, admitted : BOOLEAN])
  /\ Len(served) <= MaxRequests

RateInit ==
  /\ backend \in {"memory", "redis"}
  /\ ahead \in [Host -> 0 .. MaxSkew] /\ \E h \in Host : ahead[h] = 0
  /\ instant = 0
  /\ window = [k \in Host \cup {InRedis} |-> {}]
  /\ seq = 0 /\ expiry = 0
  /\ served = <<>>

-----------------------------------------------------------------------------
\* Redis drops the keys once they expire.
InstantPasses ==
  /\ instant < LastInstant
  /\ instant' = instant + 1
  /\ IF instant' >= expiry
     THEN window' = [window EXCEPT ![InRedis] = {}] /\ seq' = 0
     ELSE UNCHANGED <<window, seq>>
  /\ UNCHANGED <<backend, ahead, expiry, served>>

NowOf(h) == instant + ahead[h]

\* What is left of a window once the hits up to the cutoff are removed.
Trimmed(hits, now) == {hit \in hits : hit[1] > now - Window}

\* Variant: a hit is its score.
Member_Score(now) == <<now, 1>>

\* The member the script adds: the score and the next number.
Member(now) == <<now, seq + 1>>

\* MemoryRateLimitStore.increment and the script: trim, add and count.
Increment(h) ==
  LET key == IF backend = "redis" THEN InRedis ELSE h
      hit == IF backend = "redis" THEN Member(NowOf(h)) ELSE <<NowOf(h), Len(served) + 1>>
  IN /\ window' = [window EXCEPT ![key] = Trimmed(@, NowOf(h)) \cup {hit}]
     /\ IF backend = "redis" THEN seq' = seq + 1 /\ expiry' = instant + Window
        ELSE UNCHANGED <<seq, expiry>>
     /\ served' = Append(served, [at |-> instant, host |-> h,
                                  admitted |-> Cardinality(window'[key]) <= Limit])

Hit(h) ==
  /\ Len(served) < MaxRequests
  /\ Increment(h)
  /\ UNCHANGED <<backend, ahead, instant>>

RateNext == InstantPasses \/ \E h \in Host : Hit(h)

RateSpec == RateInit /\ [][RateNext]_rateVars

-----------------------------------------------------------------------------
\* Properties.

\* The requests that share a window with request i, up to it.
Before(i, length) ==
  {j \in 1 .. i : /\ served[j].at > served[i].at - length
                  /\ backend = "memory" => served[j].host = served[i].host}

\* In the same instant or on either side of an expiry, no more than Limit
\* requests are admitted in any Window less the skew of the clocks, at each
\* instance where there is no Redis; and a request is refused only if Limit
\* others were counted within the Window and the skew before it, so that a
\* client that waits is served (rateLimit, RATE_LIMIT_SCRIPT).
LimitIsExact ==
  \A i \in DOMAIN served :
    /\ Cardinality({j \in Before(i, Window - MaxSkew) : served[j].admitted}) <= Limit
    /\ ~served[i].admitted => Cardinality(Before(i, Window + MaxSkew)) > Limit
=============================================================================
