----------------------------- MODULE HttpClient -----------------------------
(****************************************************************************)
(* ResilientJsonClient.request_json: requests of one process share a        *)
(* semaphore, a file cache and the deadline of their build; each has a      *)
(* time-out, bounded retries and a back-off.  The upstream may answer       *)
(* anything at any time or never; a caller may cancel a request at any      *)
(* await.  Time runs in ticks of the smallest back-off, 0.25 s.             *)
(****************************************************************************)
EXTENDS Integers, Sequences, FiniteSets, SequencesExt, Powers

CONSTANTS
    Requests,       \* calls of request_json
    Keys,           \* cache keys
    KeyOf,          \* the cache key of a request
    MaxConcurrency, \* permits of the semaphore
    MaxRetries,
    Timeout,        \* request.timeout_seconds, in ticks
    MaxRetryAfter,  \* the longest delay a server may ask for, in ticks
    Delays,         \* what a Retry-After header or a lag may say, in ticks
    Budget          \* when the deadline passes, in ticks; the build begins at 0

ASSUME HttpAssumption ==
    /\ IsFiniteSet(Requests)
    /\ KeyOf \in [Requests -> Keys]
    /\ MaxConcurrency \in Nat \ {0}
    /\ {MaxRetries, MaxRetryAfter, Budget} \subseteq Nat
    /\ Timeout \in Nat \ {0}
    /\ Delays \subseteq Nat

VARIABLES
    now,            \* the monotonic clock
    permits,        \* the semaphore's value
    queue,          \* requests waiting for a permit, first come first served
    req,            \* the locals of each request_json
    cache,          \* what the cache's file of each key holds: none, a whole document, the
                    \* retryable error a server sent with HTTP 200, or a torn document
    temp,           \* what the temporary file of each key holds
    writer          \* the worker thread that stores a request's answer

httpVars == <<now, permits, queue, req, cache, temp, writer>>

InFlight == {"new", "loop", "queued", "sending", "sleeping", "storing"}
Over == {"done", "failed", "cancelled"}

Least(a, b) == IF a <= b THEN a ELSE b

Remaining == IF now < Budget THEN Budget - now ELSE 0

\* Nothing compares times after the deadline with each other but a time-out with
\* the clock: the clock stops here, and a time-out set for later fires here.
Horizon == Budget + 2 * Timeout

NewRequest == [pc |-> "new", attempt |-> 1, timeout |-> 0, until |-> 0,
          code |-> "none", served |-> "none"]

HttpInit ==
    /\ now = 0
    /\ permits = MaxConcurrency
    /\ queue = <<>>
    /\ req = [r \in Requests |-> NewRequest]
    /\ cache \in [Keys -> {"none", "document"}]
    /\ temp = [k \in Keys |-> "none"]
    /\ writer = [r \in Requests |-> "idle"]

Stands(r, pc) == req[r].pc = pc

Advance(r, pc) == req' = [req EXCEPT ![r].pc = pc]

Ends(r, pc, code) == req' = [req EXCEPT ![r].pc = pc, ![r].code = code,
                                        ![r].timeout = 0, ![r].until = 0]

Fails(r, code) == Ends(r, "failed", code)

-----------------------------------------------------------------------------
\* The cache is asked once; a torn or missing file is a miss.

CacheGet(r) ==
    /\ Stands(r, "new")
    /\ LET held == cache[KeyOf[r]] IN
       req' = [req EXCEPT ![r].pc = IF held \in {"none", "torn"} THEN "loop" ELSE "done",
                          ![r].served = IF held = "torn" THEN "none" ELSE held]
    /\ UNCHANGED <<now, permits, queue, cache, temp, writer>>

\* The top of the loop: the time-out is what the deadline leaves NOW, before
\* the wait for a permit.
BeginAttempt(r) ==
    /\ Stands(r, "loop")
    /\ IF req[r].attempt > MaxRetries + 1
       THEN Fails(r, "assertion failed") /\ UNCHANGED queue
       ELSE IF Remaining = 0
       THEN Fails(r, "BUDGET_EXHAUSTED") /\ UNCHANGED queue
       ELSE /\ req' = [req EXCEPT ![r].pc = "queued",
                                  ![r].timeout = Least(Timeout, Remaining)]
            /\ queue' = Append(queue, r)
    /\ UNCHANGED <<now, permits, cache, temp, writer>>

Acquire(r) ==
    /\ Stands(r, "queued")
    /\ permits > 0
    /\ queue[1] = r
    /\ queue' = Tail(queue)
    /\ permits' = permits - 1
    /\ req' = [req EXCEPT ![r].pc = "sending", ![r].until = Least(now + req[r].timeout, Horizon),
                          ![r].timeout = 0]
    /\ UNCHANGED <<now, cache, temp, writer>>

Release == permits' = permits + 1

-----------------------------------------------------------------------------
\* Answers.  A retry waits for what the server asks, capped, or for a
\* back-off that doubles; a wait that would reach the deadline ends the request.

BackOff(r) == Least(MaxRetryAfter, Power(2)[req[r].attempt - 1])

\* The wrong comparison: a sleep may last until the very deadline.
FitsLoosely(delay) == delay <= Remaining

Fits(delay) == delay < Remaining

Spent(r) == req[r].attempt > MaxRetries

RetryOrFail(r, code, delay) ==
    IF Spent(r) THEN Fails(r, code)
    ELSE IF ~Fits(delay) THEN Fails(r, "BUDGET_EXHAUSTED")
    ELSE req' = [req EXCEPT ![r].pc = "sleeping", ![r].until = now + delay]

Asked(r) == {BackOff(r)} \cup {Least(MaxRetryAfter, d) : d \in Delays}

\* A quarter of a second is the least an overloaded wiki is left alone.
BusyFor == {Least(MaxRetryAfter, IF d = 0 THEN 1 ELSE d) : d \in Delays}

Sending(r) ==
    /\ Stands(r, "sending")
    /\ Release
    /\ UNCHANGED <<now, queue, cache, temp>>

Answered(r) ==
    /\ Sending(r)
    /\ req' = [req EXCEPT ![r].pc = "storing", ![r].until = 0, ![r].served = "document"]
    /\ writer' = [writer EXCEPT ![r] = "ready"]

\* The wrong order: the answer is stored before it is looked at.
AnsweredBusyStored(r) ==
    /\ Sending(r)
    /\ req' = [req EXCEPT ![r].pc = "storing", ![r].until = 0, ![r].served = "error"]
    /\ writer' = [writer EXCEPT ![r] = "ready"]

\* HTTP 200 with maxlag, ratelimited, readonly...: nothing is stored.
AnsweredBusy(r) ==
    /\ Sending(r)
    /\ \E delay \in BusyFor : RetryOrFail(r, "UPSTREAM", delay)
    /\ UNCHANGED writer

AnsweredGarbage(r) ==
    /\ Sending(r)
    /\ Fails(r, "INVALID_RESPONSE")
    /\ UNCHANGED writer

AnsweredRetryable(r) ==
    /\ Sending(r)
    /\ \E delay \in Asked(r) : RetryOrFail(r, "UPSTREAM", delay)
    /\ UNCHANGED writer

AnsweredFatal(r) ==
    /\ Sending(r)
    /\ Fails(r, "UPSTREAM")
    /\ UNCHANGED writer

TransportFails(r) ==
    /\ Sending(r)
    /\ RetryOrFail(r, "TRANSPORT", BackOff(r))
    /\ UNCHANGED writer

\* The wrong time-out: the permit is lost with the answer.
TimesOutHolding(r) ==
    /\ Stands(r, "sending")
    /\ now >= req[r].until
    /\ RetryOrFail(r, "TIMEOUT", BackOff(r))
    /\ UNCHANGED <<now, permits, queue, cache, temp, writer>>

TimesOut(r) ==
    /\ now >= req[r].until
    /\ Sending(r)
    /\ RetryOrFail(r, "TIMEOUT", BackOff(r))
    /\ UNCHANGED writer

Wake(r) ==
    /\ Stands(r, "sleeping")
    /\ now >= req[r].until
    /\ req' = [req EXCEPT ![r].pc = "loop", ![r].until = 0, ![r].attempt = @ + 1]
    /\ UNCHANGED <<now, permits, queue, cache, temp, writer>>

-----------------------------------------------------------------------------
\* Storing runs in a worker thread that no cancellation stops; the threads of
\* one process share one temporary file per key.  (Which file a late write lands
\* in is exact while at most two threads store one key.)

Truncate(r) ==
    /\ writer[r] = "ready"
    /\ temp' = [temp EXCEPT ![KeyOf[r]] = "torn"]
    /\ writer' = [writer EXCEPT ![r] = "writing"]
    /\ UNCHANGED <<now, permits, queue, req, cache>>

WriteOut(r) ==
    /\ writer[r] = "writing"
    \* the file may have been renamed meanwhile: the bytes then land in the cache
    /\ IF temp[KeyOf[r]] # "none"
       THEN temp' = [temp EXCEPT ![KeyOf[r]] = req[r].served] /\ UNCHANGED cache
       ELSE cache' = [cache EXCEPT ![KeyOf[r]] = req[r].served] /\ UNCHANGED temp
    /\ writer' = [writer EXCEPT ![r] = "written"]
    /\ UNCHANGED <<now, permits, queue, req>>

Replace(r) ==
    /\ writer[r] = "written"
    /\ writer' = [writer EXCEPT ![r] = "idle"]
    /\ LET held == temp[KeyOf[r]] IN
       IF held = "none"
       THEN /\ IF Stands(r, "storing") THEN Fails(r, "cache write failed") ELSE UNCHANGED req
            /\ UNCHANGED <<cache, temp>>
       ELSE /\ cache' = [cache EXCEPT ![KeyOf[r]] = held]
            /\ temp' = [temp EXCEPT ![KeyOf[r]] = "none"]
            /\ IF Stands(r, "storing") THEN Advance(r, "done") ELSE UNCHANGED req
    /\ UNCHANGED <<now, permits, queue>>

-----------------------------------------------------------------------------
\* The wrong cancellation: the permit of a request on the wire is not given back.
CancelHolding(r) ==
    /\ req[r].pc \in InFlight
    /\ queue' = SelectSeq(queue, LAMBDA q : q # r)
    /\ Ends(r, "cancelled", "none")
    /\ UNCHANGED <<now, permits, cache, temp, writer>>

\* A caller's wait_for, or the cancellation of its build, reaches any await.
Cancel(r) ==
    /\ req[r].pc \in InFlight
    /\ queue' = SelectSeq(queue, LAMBDA q : q # r)
    /\ permits' = IF Stands(r, "sending") THEN permits + 1 ELSE permits
    /\ Ends(r, "cancelled", "none")
    /\ UNCHANGED <<now, cache, temp, writer>>

Tick ==
    /\ now < Horizon
    /\ now' = now + 1
    /\ UNCHANGED <<permits, queue, req, cache, temp, writer>>

\* The client's own steps: an answer is the upstream's, and may never come.
Client(r) ==
    \/ CacheGet(r) \/ BeginAttempt(r) \/ Acquire(r) \/ TimesOut(r) \/ Wake(r)
    \/ Truncate(r) \/ WriteOut(r) \/ Replace(r)

Upstream(r) ==
    \/ Answered(r) \/ AnsweredBusy(r) \/ AnsweredGarbage(r)
    \/ AnsweredRetryable(r) \/ AnsweredFatal(r) \/ TransportFails(r)

HttpNext == Tick \/ \E r \in Requests : Client(r) \/ Upstream(r) \/ Cancel(r)

HttpSpec == HttpInit /\ [][HttpNext]_httpVars

\* The clock advances and the event loop runs what is ready; a semaphore is fair.
HttpFairSpec == HttpSpec /\ WF_httpVars(Tick) /\ \A r \in Requests : WF_httpVars(Client(r))

-----------------------------------------------------------------------------

\* At most MaxConcurrency requests are on the wire, and whatever way a request
\* ends it gives its permit back.
PermitsBalance ==
    permits + Cardinality({r \in Requests : Stands(r, "sending")}) = MaxConcurrency

\* A delay, whoever asked for it, ends before the build's deadline: the worker
\* "never sleeps past the build deadline" (pipeline README).
SleepsInsideBudget ==
    \A r \in Requests : Stands(r, "sleeping") => req[r].until < Budget

\* No retryable error poisons the cache, and no reader gets half a file,
\* although the threads of one process share the temporary file of a key.
CacheServesDocuments ==
    /\ \A k \in Keys : cache[k] # "error"
    /\ \A r \in Requests : Stands(r, "done") => req[r].served = "document"

\* A request ends by itself, without any caller's time limit, whatever the
\* upstream does.
EveryRequestEnds == \A r \in Requests : req[r].pc \in InFlight ~> req[r].pc \in Over

==============================================================================
