-------------------------------- MODULE Rail --------------------------------
(***************************************************************************)
(* What one process remembers of Paystack: how its recent calls fared,     *)
(* which /v1/status reports, and the bank directory, which /v1/banks takes *)
(* from Redis, from Paystack, or else from memory.  An outcome is stamped  *)
(* before the mutex is taken; the directory in memory has no mutex at all. *)
(***************************************************************************)
EXTENDS Integers, Sequences, FiniteSets

CONSTANTS
    Call,          \* calls of the client that are under way at a time
    List,          \* what Paystack answers: to ListBanks, a list of banks
    Empty,         \* a list without banks, or of which the filter leaves none
    None,          \* an error, the slice of a new process, a missing key
    Cap,           \* outcomes kept (512)
    MaxAge,        \* how long they count (5 minutes)
    Few,           \* with fewer nothing is concluded (4)
    MaxTime,       \* bound on the clock
    MaxCalls,      \* with so many outcomes no further call begins
    MaxRestarts    \* bound on restarts

ASSUME RailAssumption ==
    /\ Cap \in Nat \ {0}
    /\ MaxAge \in Nat
    /\ MaxTime \in Nat
    /\ MaxRestarts \in Nat
    /\ None \notin List
    /\ Empty \notin List \cup {None}

VARIABLES
    now,        \* time.Now()
    log,        \* every outcome appended since the process started
    first,      \* Health.outcomes is log from here on
    memory,     \* banksHandler.cache: the words of a slice
    redis,      \* the key banks:nigeria:v1
    call,       \* what each call is doing
    restarts    \* restarts so far

vars == <<now, log, first, memory, redis, call, restarts>>

Outcome == [at : 0..MaxTime, success : BOOLEAN]

\* Client.do looks at the status of a reply and not at what is in it: a reply
\* without data is a success like any other.
Answer == List \cup {Empty, None}

\* The list whose array the slice points to, and the one whose length it has.
Slice == [array : Answer, len : Answer]

Step == {"idle", "ask", "stamp", "record", "fallback", "save", "store",
         "refused"}

\* picker: made for a GET /v1/banks; filled: memory held a directory when
\* that came in, and no list without banks was written to it since; got:
\* what Paystack answered; stamp: the time that record has read; unsaved:
\* the words of memory that are yet to be written.
Doing == [step : Step, picker : BOOLEAN, filled : BOOLEAN, got : Answer,
          stamp : 0..MaxTime, unsaved : SUBSET {"array", "len"}]

TypeOK ==
    /\ now \in 0..MaxTime
    /\ log \in Seq(Outcome)
    /\ first \in 1..(Len(log) + 1)
    /\ memory \in Slice
    /\ redis \in Answer
    /\ call \in [Call -> Doing]
    /\ restarts \in 0..MaxRestarts

Nothing == [step |-> "idle", picker |-> FALSE, filled |-> FALSE, got |-> None,
            stamp |-> 0, unsaved |-> {}]

Init ==
    /\ now = 0
    /\ log = <<>>
    /\ first = 1
    /\ memory = [array |-> None, len |-> None]
    /\ redis = None
    /\ call = [c \in Call |-> Nothing]
    /\ restarts = 0

-----------------------------------------------------------------------------
At(c, step) == call[c].step = step

Goto(c, step) == call' = [call EXCEPT ![c].step = step]

Return(c) == call' = [call EXCEPT ![c] = Nothing]

\* The call before has returned.
Free(c) == (At(c, "idle") \/ At(c, "refused")) /\ Len(log) < MaxCalls

HasDirectory == memory.array \in List /\ memory.len \in List

-----------------------------------------------------------------------------
(* Client.do, and the outcome it records.                                  *)

\* Any other request that calls Paystack.
Use(c) ==
    /\ Free(c)
    /\ call' = [call EXCEPT ![c] = [Nothing EXCEPT !.step = "ask"]]
    /\ UNCHANGED <<now, log, first, memory, redis, restarts>>

\* Only the picker's answers have banks in them.
Ask(c) ==
    /\ At(c, "ask")
    /\ \E answer \in Answer :
          /\ call[c].picker \/ answer \notin List
          /\ call' = [call EXCEPT ![c].got = answer, ![c].step = "stamp"]
    /\ UNCHANGED <<now, log, first, memory, redis, restarts>>

\* Mutant: the time rounded up.
StampRoundedUp(c) ==
    /\ At(c, "stamp")
    /\ call' = [call EXCEPT ![c].stamp = now + 1, ![c].step = "record"]
    /\ UNCHANGED <<now, log, first, memory, redis, restarts>>

\* record reads the clock, then waits for the mutex.
Stamp(c) ==
    /\ At(c, "stamp")
    /\ call' = [call EXCEPT ![c].stamp = now, ![c].step = "record"]
    /\ UNCHANGED <<now, log, first, memory, redis, restarts>>

RecentAt(outcome, time) == outcome.at > time - MaxAge

\* Mutant: everything up to the last outcome that is too old goes, as if the
\* outcomes were in the order of their stamps.
PruneToLastOld(outcomes, time) ==
    \E i \in first..(Len(outcomes) + 1) :
        /\ \A j \in first..(i - 1) : j = i - 1 => ~RecentAt(outcomes[j], time)
        /\ \A j \in i..Len(outcomes) : RecentAt(outcomes[j], time)
        /\ first' = IF Len(outcomes) - i >= Cap
                    THEN Len(outcomes) - Cap + 1 ELSE i

\* The scan stops at the first outcome that is recent; of those from there on
\* the newest Cap are kept.
Prune(outcomes, time) ==
    \E i \in first..(Len(outcomes) + 1) :
        /\ \A j \in first..(i - 1) : ~RecentAt(outcomes[j], time)
        /\ i <= Len(outcomes) => RecentAt(outcomes[i], time)
        /\ first' = IF Len(outcomes) - i >= Cap
                    THEN Len(outcomes) - Cap + 1 ELSE i

\* Mutant: h.cache, err = ListBanks(), and the error is looked at afterwards.
RecordOverwriting(c) ==
    /\ At(c, "record")
    /\ log' = Append(log, [at |-> call[c].stamp,
                           success |-> call[c].got # None])
    /\ Prune(log', call[c].stamp)
    /\ \/ ~call[c].picker /\ Return(c) /\ UNCHANGED memory
       \/ /\ call[c].picker
          /\ memory' = [array |-> call[c].got, len |-> call[c].got]
          /\ Goto(c, IF call[c].got = None THEN "fallback" ELSE "store")
    /\ UNCHANGED <<now, redis, restarts>>

\* Then the handler goes on.
Record(c) ==
    /\ At(c, "record")
    /\ log' = Append(log, [at |-> call[c].stamp,
                           success |-> call[c].got # None])
    /\ Prune(log', call[c].stamp)
    /\ \/ ~call[c].picker /\ Return(c)
       \/ call[c].picker /\ call[c].got = None /\ Goto(c, "fallback")
       \/ /\ call[c].picker
          /\ call[c].got # None
          /\ call' = [call EXCEPT ![c].step = "save",
                                  ![c].unsaved = {"array", "len"}]
    /\ UNCHANGED <<now, memory, redis, restarts>>

\* Snapshot, under the mutex: of the outcomes kept, those that count.
Counted == {i \in first..Len(log) : RecentAt(log[i], now)}

Report(counted) ==
    LET total == Cardinality(counted)
        failures == Cardinality({i \in counted : ~log[i].success})
    IN  IF total < Few THEN "ok"
        ELSE IF 2 * failures >= total THEN "outage"
        ELSE IF 5 * failures >= total THEN "degraded" ELSE "ok"

-----------------------------------------------------------------------------
(* GET /v1/banks.                                                          *)

\* An error of Redis is a miss, and so is a list without banks.
Look(c) ==
    /\ Free(c)
    /\ \/ redis \in List /\ Return(c)
       \/ call' = [call EXCEPT ![c] = [Nothing EXCEPT !.step = "ask",
                                          !.picker = TRUE,
                                          !.filled = HasDirectory]]
    /\ UNCHANGED <<now, log, first, memory, redis, restarts>>

\* Paystack erred.  A length that goes with a nil array panics, and with one
\* that holds no banks it may or may not.
Fallback(c) ==
    /\ At(c, "fallback")
    /\ \/ memory.len \in List /\ memory.array # None /\ Return(c)
       \/ ~HasDirectory /\ Goto(c, "refused")
    /\ UNCHANGED <<now, log, first, memory, redis, restarts>>

\* h.cache = active, whether or not there are banks in it: another call may
\* read or write between the words, in whichever order they are written.
Save(c, word) ==
    LET rest == call[c].unsaved \ {word}
        saved == [call EXCEPT ![c].unsaved = rest,
                              ![c].step = IF rest = {} THEN "store" ELSE "save"]
    IN  /\ At(c, "save")
        /\ word \in call[c].unsaved
        /\ memory' = [memory EXCEPT ![word] = call[c].got]
        /\ call' = IF call[c].got = Empty
                   THEN [d \in Call |-> [saved[d] EXCEPT !.filled = FALSE]]
                   ELSE saved
        /\ UNCHANGED <<now, log, first, redis, restarts>>

\* An error of Redis is dropped.
StoreRedis(c) ==
    /\ At(c, "store")
    /\ redis' \in {call[c].got, redis}
    /\ Return(c)
    /\ UNCHANGED <<now, log, first, memory, restarts>>

\* The day is over, or Redis has lost the key.
Evict ==
    /\ redis # None
    /\ redis' = None
    /\ UNCHANGED <<now, log, first, memory, call, restarts>>

-----------------------------------------------------------------------------
Tick ==
    /\ now < MaxTime
    /\ now' = now + 1
    /\ UNCHANGED <<log, first, memory, redis, call, restarts>>

\* Memory and calls are gone, Redis is not.
Restart ==
    /\ restarts < MaxRestarts
    /\ restarts' = restarts + 1
    /\ log' = <<>>
    /\ first' = 1
    /\ memory' = [array |-> None, len |-> None]
    /\ call' = [c \in Call |-> Nothing]
    /\ UNCHANGED <<now, redis>>

CallStep(c) == \/ Use(c) \/ Ask(c) \/ Stamp(c) \/ Record(c)
               \/ Look(c) \/ Fallback(c) \/ StoreRedis(c)
               \/ \E word \in {"array", "len"} : Save(c, word)

Next == (\E c \in Call : CallStep(c)) \/ Evict \/ Tick \/ Restart

Spec == Init /\ [][Next]_vars

-----------------------------------------------------------------------------
(* What the code keeps.                                                    *)

\* What ought to count: of the last Cap outcomes the recent ones.
Due == {i \in DOMAIN log : i > Len(log) - Cap /\ RecentAt(log[i], now)}

\* Although outcomes are appended out of the order of their stamps and cut by
\* clocks that are late, /v1/status reports on all that count and no others.
StatusIsExact == Counted = Due /\ Report(Counted) = Report(Due)

\* Once a process has a bank directory, no GET /v1/banks that comes in later
\* is refused for want of one, however Redis and Paystack fail meanwhile and
\* the writers of the slice race: unless Paystack has answered, and a call
\* has written to memory since then, that there are no banks at all.
PickerStaysFilled ==
    \A c \in Call : At(c, "refused") => ~call[c].filled
=============================================================================
