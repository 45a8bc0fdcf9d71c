------------------------------- MODULE BulkScrape -------------------------------
(***************************************************************************)
(* The routes of api/routes/scrape.py in a process with the in-memory      *)
(* limiter: POST /v1/scrape, one item, and POST /v1/bulk-scrape, which     *)
(* pays for all its items at once (SlidingWindowLimiter.tla) and runs them *)
(* behind a semaphore of its own.  What an item does once it runs is       *)
(* ScrapeEndpoint.tla; here it ends with a result or an exception          *)
(* (ErrorContract.tla).                                                    *)
(*                                                                         *)
(* The key, the URL of a single scrape, the tier and the limiter are seen  *)
(* to without a suspension: a call is admitted or refused in one step.     *)
(***************************************************************************)
EXTENDS SlidingWindowLimiter, ErrorContract

CONSTANTS
    Calls,
    MaxItems,           \* MAX_BULK_ITEMS
    MaxConcurrency,     \* MAX_BULK_CONCURRENCY
    Default,            \* the max_concurrency of a payload that names none
    Asked,              \* the max_concurrency payloads name
    Faults,             \* the exceptions the items of this instance run into
    NoKey

ASSUME BulkScrapeAssumption ==
    /\ MaxItems \in Nat \ {0} /\ MaxConcurrency \in Nat \ {0} /\ Default \in Nat \ {0}
    /\ Asked \subseteq Int
    /\ Faults \subseteq AllUrlFaults \union {NotInitialized, SessionMissing, SessionOfAnother, Crash}
    /\ NoKey \notin Keys
    /\ "none" \notin Calls
    /\ 1 .. MaxItems \subseteq Batches

VARIABLES
    caller,     \* the key of each call that runs
    bulk,       \* it is a bulk scrape
    items,      \* its items: "waiting", "running" or how they ended
    slots,      \* its semaphore
    reply       \* the answer of the step that answers a call

calls == <<caller, bulk, items, slots>>
bulkVars == <<vars, calls, reply>>

NoReply == [call |-> "none"]

(* status: "success" or "error" of a ScrapeResponse *)
Result(status) == [status |-> status]
Results == {Result("success"), Result("error")}
Waiting == [status |-> "waiting"]
Running == [status |-> "running"]
Ended(i) == i \notin {Waiting, Running}

BulkInit ==
    /\ Init
    /\ caller = [c \in Calls |-> NoKey]
    /\ bulk = [c \in Calls |-> FALSE]
    /\ items = [c \in Calls |-> <<>>]
    /\ slots = [c \in Calls |-> 0]
    /\ reply = NoReply

-------------------------------------------------------------------------------
Refusal(c, e) == [call |-> c, status |-> e.status, code |-> CallCode(e)]

(* The call is answered with an exception, before it has run anything. *)
Refuse(c, e) == reply' = Refusal(c, e) /\ UNCHANGED calls

(* Mutant of Concurrency: the payload's number is not capped. *)
ConcurrencyUncapped(asked) == IF asked = 0 THEN Default ELSE Max({1, asked})

(* min(), max() and the default of `max_concurrency or 8' *)
Concurrency(asked) ==
    LET wanted == IF asked = 0 THEN Default ELSE asked IN
    Max({1, Min({wanted, MaxConcurrency})})

(* Mutant of Charge: the check is of one unit, whatever the batch. *)
ChargeOne(k, n) == Check(k, 1)

(* _check_rate_limit_units() *)
Charge(k, n) == Check(k, n)

(* The limiter admits the n items of the call, or refuses them all. *)
Admit(c, k, isBulk, n, permits) ==
    /\ Charge(k, n)
    /\ IF answer'.allowed
       THEN /\ caller' = [caller EXCEPT ![c] = k]
            /\ bulk' = [bulk EXCEPT ![c] = isBulk]
            /\ items' = [items EXCEPT ![c] = [i \in 1 .. n |-> Waiting]]
            /\ slots' = [slots EXCEPT ![c] = permits]
            /\ reply' = NoReply
       ELSE Refuse(c, RateLimited)

(* get_api_key() refuses, of either route. *)
Unauthorized(c) ==
    /\ caller[c] = NoKey
    /\ Refuse(c, MissingAuth) \/ Refuse(c, InvalidKey)
    /\ UNCHANGED vars

(* POST /v1/scrape: the URL is looked at before the limiter. *)
Scrape(c, k) ==
    /\ caller[c] = NoKey
    /\ \/ \E e \in Faults \cap AllUrlFaults : Refuse(c, e) /\ UNCHANGED vars
       \/ Admit(c, k, FALSE, 1, 1)

(* POST /v1/bulk-scrape: the URLs are looked at once the items run.        *)
BulkScrape(c, k, n, asked) ==
    /\ caller[c] = NoKey
    /\ IF n \in 1 .. MaxItems THEN Admit(c, k, TRUE, n, Concurrency(asked))
       ELSE Refuse(c, BadBatch) /\ UNCHANGED vars

(* `async with semaphore': the tasks of a batch take their turn in order.  *)
StartItem(c, i) ==
    /\ items[c][i] = Waiting
    /\ \A j \in 1 .. i - 1 : items[c][j] # Waiting
    /\ slots[c] > 0
    /\ slots' = [slots EXCEPT ![c] = @ - 1]
    /\ items' = [items EXCEPT ![c][i] = Running]
    /\ reply' = NoReply
    /\ UNCHANGED <<vars, caller, bulk>>

(* Mutant of SlotBack: the slot of an item that raised is not returned. *)
SlotBackOnResult(c, outcome) ==
    IF outcome \in Results THEN [slots EXCEPT ![c] = @ + 1] ELSE slots

SlotBack(c, outcome) == [slots EXCEPT ![c] = @ + 1]

(* _execute_one_scrape() returns or raises; a single scrape has had its    *)
(* URL looked at.                                                          *)
EndItem(c, i) ==
    /\ items[c][i] = Running
    /\ \E outcome \in Results \union (IF bulk[c] THEN Faults ELSE Faults \ AllUrlFaults) :
         /\ items' = [items EXCEPT ![c][i] = outcome]
         /\ slots' = SlotBack(c, outcome)
    /\ reply' = NoReply
    /\ UNCHANGED <<vars, caller, bulk>>

ItemAnswer(outcome) ==
    IF outcome \in Results THEN outcome ELSE [code |-> ItemCode(outcome)]

Succeeded(c) == {i \in DOMAIN items[c] : items[c][i] = Result("success")}

BatchAnswer(c) ==
    [call |-> c, status |-> 200,
     results |-> [i \in DOMAIN items[c] |-> ItemAnswer(items[c][i])],
     succeeded |-> Cardinality(Succeeded(c)),
     failed |-> Len(items[c]) - Cardinality(Succeeded(c))]

(* gather() has every result, or the single scrape its own. *)
Answer(c) ==
    /\ caller[c] # NoKey
    /\ \A i \in DOMAIN items[c] : Ended(items[c][i])
    /\ reply' = IF bulk[c] THEN BatchAnswer(c)
                ELSE IF items[c][1] \in Results
                THEN [call |-> c, status |-> 200, results |-> items[c]]
                ELSE Refusal(c, items[c][1])
    /\ caller' = [caller EXCEPT ![c] = NoKey]
    /\ bulk' = [bulk EXCEPT ![c] = FALSE]
    /\ items' = [items EXCEPT ![c] = <<>>]
    /\ slots' = [slots EXCEPT ![c] = 0]
    /\ UNCHANGED vars

RunItems(c) == \E i \in DOMAIN items[c] : StartItem(c, i) \/ EndItem(c, i)

BulkNext ==
    \/ \E c \in Calls :
         \/ \E k \in Keys : Scrape(c, k)
         \/ \E k \in Keys, n \in 0 .. MaxItems + 1, asked \in Asked : BulkScrape(c, k, n, asked)
         \/ Unauthorized(c) \/ RunItems(c) \/ Answer(c)
    \/ Tick /\ reply' = NoReply /\ UNCHANGED calls

(* Scrapes end (ScrapeEndpoint.tla), and a task that can go on does.       *)
BulkFairness == \A c \in Calls : WF_bulkVars(RunItems(c) \/ Answer(c))

BulkSpec == BulkInit /\ [][BulkNext]_bulkVars /\ BulkFairness

-------------------------------------------------------------------------------
Began(c) == caller[c] = NoKey /\ caller'[c] # NoKey

(* Every item that runs is paid for and nothing else is: a call begins     *)
(* only with its whole batch admitted, units enter a window only for the   *)
(* items of a call that begins, and no refusal leaves a batch partly paid. *)
PaysPerItem ==
    [][/\ \A c \in Calls : Began(c) => answer'.allowed /\ answer'.units = Len(items'[c])
       /\ \A k \in Metered :
            LET paid == Live(k, windows'[k]) - Live(k, windows[k]) IN
            paid > 0 => \E c \in Calls : Began(c) /\ caller'[c] = k /\ Len(items'[c]) = paid]_bulkVars

(* A batch is answered item for item, in its order, however its items      *)
(* overtake one another, each failure with the code the same failure has   *)
(* when it is scraped alone: except a session of another key and an        *)
(* unexpected exception, which the two endpoints name differently.         *)
AnswersMatch ==
    [][\A c \in Calls : bulk[c] /\ reply'.call = c =>
         /\ DOMAIN reply'.results = DOMAIN items[c]
         /\ reply'.succeeded + reply'.failed = Len(items[c])
         /\ \A i \in DOMAIN items[c] :
              LET outcome == items[c][i] IN
              IF outcome \in Results THEN reply'.results[i] = outcome
              ELSE \/ reply'.results[i].code = Refusal(c, outcome).code
                   \/ outcome \in {SessionOfAnother, Crash}]_bulkVars

(* No batch runs more of its items at a time than the server allows, and   *)
(* no slot is lost or made up: what a call has to give out and what its    *)
(* items hold add up to a number of slots that is neither 0 nor above      *)
(* MAX_BULK_CONCURRENCY, whatever the payload asked for.                   *)
RunningItems(c) == {i \in DOMAIN items[c] : items[c][i] = Running}
SlotsBalance ==
    \A c \in Calls : caller[c] # NoKey =>
        slots[c] + Cardinality(RunningItems(c)) \in 1 .. MaxConcurrency

(* A call always has a next step of its own: an item that runs and will    *)
(* end, an item whose turn it is with a slot to take, or its answer.  No   *)
(* exception of an item and no order of their ends strands the others.     *)
NoneStranded ==
    \A c \in Calls : caller[c] # NoKey =>
        \/ \A i \in DOMAIN items[c] : Ended(items[c][i])
        \/ RunningItems(c) # {}
        \/ /\ slots[c] > 0
           /\ \E i \in DOMAIN items[c] :
                /\ items[c][i] = Waiting
                /\ \A j \in 1 .. i - 1 : items[c][j] # Waiting

(* Every call is answered: no item waits for a slot for ever. *)
CallEnds == \A c \in Calls : caller[c] # NoKey ~> caller[c] = NoKey
================================================================================
