----------------------------- MODULE RailProofs -----------------------------
(***************************************************************************)
(* What the status reports on is exact and the bank picker stays filled,   *)
(* for any number of calls and directories, any capacity and any age.      *)
(***************************************************************************)
EXTENDS Rail, TLAPS

\* What was cut is too old or beyond the capacity, and will remain so.
WindowOK ==
    /\ first > Len(log) - Cap
    /\ \A i \in 1..(first - 1) :
          i <= Len(log) - Cap \/ ~RecentAt(log[i], now)
    /\ \A c \in Call : call[c].stamp <= now

\* Whatever is written to memory is a directory, or ends what was found there.
DirectoryOK ==
    /\ \A c \in Call : call[c].filled => HasDirectory
    /\ \A c \in Call : At(c, "save") => call[c].got \in List \cup {Empty}
    /\ \A c \in Call : At(c, "refused") => ~call[c].filled

RailInv == TypeOK /\ WindowOK /\ DirectoryOK

-----------------------------------------------------------------------------
(* The calls, one replaced at a time.                                      *)

\* The record of one call is replaced by one that carries no more.
Replaces(c, new) ==
    /\ call' = [call EXCEPT ![c] = new]
    /\ new \in Doing
    /\ new.stamp <= now
    /\ new.filled => HasDirectory
    /\ new.step = "save" => new.got \in List \cup {Empty}
    /\ new.step = "refused" => ~new.filled

LEMMA ReplacedIsOK ==
    ASSUME RailInv, NEW c \in Call, NEW new, Replaces(c, new),
           UNCHANGED <<now, log, first, restarts>>,
           memory' \in Slice, HasDirectory => HasDirectory',
           redis' \in Answer
    PROVE  RailInv'
<1>1. /\ call' \in [Call -> Doing]
      /\ \A d \in Call : call'[d] = IF d = c THEN new ELSE call[d]
  BY DEF RailInv, TypeOK, Replaces
<1>2. TypeOK'
  BY <1>1 DEF RailInv, TypeOK
<1>3. WindowOK'
  BY <1>1 DEF RailInv, WindowOK, Replaces, RecentAt
<1>4. DirectoryOK'
  BY <1>1 DEF RailInv, DirectoryOK, Replaces, At
<1>5. QED
  BY <1>2, <1>3, <1>4 DEF RailInv

LEMMA NothingIsOK ==
    /\ RailAssumption => Nothing \in Doing
    /\ Nothing.stamp = 0 /\ ~Nothing.filled /\ Nothing.step = "idle"
BY DEF RailAssumption, Nothing, Doing, Step, Answer

LEMMA ReturnReplaces ==
    ASSUME RailInv, NEW c \in Call, Return(c)
    PROVE  Replaces(c, Nothing)
BY RailAssumption, NothingIsOK DEF RailInv, TypeOK, Return, Replaces

\* The step of a call is written, and nothing else of it.
LEMMA GotoReplaces ==
    ASSUME RailInv, NEW c \in Call, NEW step \in Step, Goto(c, step),
           step # "save", step = "refused" => ~HasDirectory
    PROVE  Replaces(c, [call[c] EXCEPT !.step = step])
<1> DEFINE new == [call[c] EXCEPT !.step = step]
<1>1. call[c] \in Doing
  BY DEF RailInv, TypeOK
<1>2. /\ new \in Doing /\ new.step = step
      /\ new.stamp = call[c].stamp /\ new.filled = call[c].filled
  BY <1>1 DEF Doing
<1>3. call' = [call EXCEPT ![c] = new]
  BY DEF Goto
<1> HIDE DEF new
<1>4. Replaces(c, new)
  BY <1>2, <1>3 DEF Replaces, RailInv, WindowOK, DirectoryOK
<1>5. QED
  BY <1>4 DEF new

-----------------------------------------------------------------------------
(* The steps.                                                              *)

LEMMA UseStep == ASSUME RailInv, NEW c \in Call, Use(c) PROVE RailInv'
<1> DEFINE new == [Nothing EXCEPT !.step = "ask"]
<1>1. new \in Doing /\ new.stamp = 0 /\ ~new.filled /\ new.step = "ask"
  BY RailAssumption, NothingIsOK DEF Doing, Step
<1>2. call' = [call EXCEPT ![c] = new]
  BY DEF Use
<1> HIDE DEF new
<1>3. Replaces(c, new)
  BY <1>1, <1>2 DEF Replaces, RailInv, TypeOK
<1>4. QED
  BY <1>3, ReplacedIsOK DEF Use, RailInv, TypeOK, HasDirectory

LEMMA AskStep == ASSUME RailInv, NEW c \in Call, Ask(c) PROVE RailInv'
<1>1. PICK answer \in Answer :
         call' = [call EXCEPT ![c].got = answer, ![c].step = "stamp"]
  BY DEF Ask
<1> DEFINE new == [call[c] EXCEPT !.got = answer, !.step = "stamp"]
<1>2. call[c] \in Doing
  BY DEF RailInv, TypeOK
<1>3. /\ new \in Doing /\ new.step = "stamp"
      /\ new.stamp = call[c].stamp /\ new.filled = call[c].filled
  BY <1>2 DEF Doing, Step
<1>4. call' = [call EXCEPT ![c] = new]
  BY <1>1
<1> HIDE DEF new
<1>5. Replaces(c, new)
  BY <1>3, <1>4 DEF Replaces, RailInv, WindowOK, DirectoryOK
<1>6. QED
  BY <1>5, ReplacedIsOK DEF Ask, RailInv, TypeOK, HasDirectory

LEMMA StampStep == ASSUME RailInv, NEW c \in Call, Stamp(c) PROVE RailInv'
<1> DEFINE new == [call[c] EXCEPT !.stamp = now, !.step = "record"]
<1>1. call[c] \in Doing /\ now \in 0..MaxTime
  BY DEF RailInv, TypeOK
<1>2. /\ new \in Doing /\ new.step = "record"
      /\ new.stamp = now /\ new.filled = call[c].filled
  BY <1>1 DEF Doing, Step
<1>3. call' = [call EXCEPT ![c] = new]
  BY DEF Stamp
<1> HIDE DEF new
<1>4. Replaces(c, new)
  BY <1>1, <1>2, <1>3 DEF Replaces, RailInv, DirectoryOK
<1>5. QED
  BY <1>4, ReplacedIsOK DEF Stamp, RailInv, TypeOK, HasDirectory

LEMMA OutcomeAt ==
    ASSUME NEW outcome \in Outcome
    PROVE  outcome.at \in 0..MaxTime
BY DEF Outcome

\* Cutting with a clock that is late spares more, never less.
LEMMA PruneStep ==
    ASSUME RailInv, NEW outcome \in Outcome, NEW time \in 0..MaxTime,
           time <= now, UNCHANGED now, log' = Append(log, outcome),
           Prune(log', time)
    PROVE  /\ log' \in Seq(Outcome) /\ first' \in 1..(Len(log') + 1)
           /\ first' > Len(log') - Cap
           /\ \A i \in 1..(first' - 1) :
                 i <= Len(log') - Cap \/ ~RecentAt(log'[i], now')
<1>1. /\ log \in Seq(Outcome) /\ Len(log) \in Nat
      /\ first \in 1..(Len(log) + 1) /\ Cap \in Nat \ {0}
      /\ now \in 0..MaxTime /\ MaxAge \in Nat /\ MaxTime \in Nat
  BY RailAssumption DEF RailInv, TypeOK
<1>2. /\ log' \in Seq(Outcome) /\ Len(log') = Len(log) + 1
      /\ \A i \in 1..Len(log) : log'[i] = log[i]
  BY <1>1
<1>3. PICK k \in first..(Len(log') + 1) :
         /\ \A j \in first..(k - 1) : ~RecentAt(log'[j], time)
         /\ first' = IF Len(log') - k >= Cap THEN Len(log') - Cap + 1 ELSE k
  BY DEF Prune
<1>4. k \in Int /\ k >= first /\ k <= Len(log') + 1
  BY <1>1, <1>2, <1>3
<1>5. first' \in 1..(Len(log') + 1) /\ first' > Len(log') - Cap
  BY <1>1, <1>2, <1>3, <1>4
<1>6. ASSUME NEW i \in 1..(first' - 1), i > Len(log') - Cap
      PROVE  ~RecentAt(log'[i], now')
  <2>1. first' = k /\ i < k /\ i \in Int /\ 1 <= i
    BY <1>1, <1>2, <1>3, <1>4, <1>5, <1>6
  <2>2. i \in 1..Len(log')
    BY <1>2, <1>4, <2>1, <1>1
  <2> DEFINE cut == log'[i]
  <2>3. cut \in Outcome
    BY <1>2, <2>2
  <2> HIDE DEF cut
  <2>4. cut.at \in Nat
    BY <1>1, <2>3, OutcomeAt
  <2>5. CASE i >= first
    <3>1. ~RecentAt(cut, time)
      BY <1>1, <1>3, <1>4, <2>1, <2>5 DEF cut
    <3>2. time \in Int /\ now \in Int /\ MaxAge \in Int /\ cut.at \in Int
      BY <1>1, <2>4
    <3>3. ~RecentAt(cut, now)
      BY <3>1, <3>2 DEF RecentAt
    <3>4. QED
      BY <3>3 DEF cut
  <2>6. CASE i < first
    <3>1. i \in 1..(first - 1) /\ i > Len(log) - Cap /\ log'[i] = log[i]
      BY <1>1, <1>2, <1>6, <2>1, <2>6
    <3>2. ~RecentAt(log[i], now)
      BY <1>1, <3>1 DEF RailInv, WindowOK
    <3>3. QED
      BY <3>1, <3>2 DEF RecentAt
  <2>7. QED
    BY <1>1, <2>1, <2>5, <2>6
<1>7. \A i \in 1..(first' - 1) :
         i <= Len(log') - Cap \/ ~RecentAt(log'[i], now')
  <2> TAKE i \in 1..(first' - 1)
  <2>1. i <= Len(log') - Cap \/ i > Len(log') - Cap
    BY <1>1, <1>2, <1>5
  <2>2. QED
    BY <2>1, <1>6
<1>8. QED
  BY <1>2, <1>5, <1>7

LEMMA RecordStep == ASSUME RailInv, NEW c \in Call, Record(c) PROVE RailInv'
<1> DEFINE outcome == [at |-> call[c].stamp, success |-> call[c].got # None]
<1>1. /\ call[c] \in Doing /\ call[c].stamp \in 0..MaxTime
      /\ call[c].stamp <= now
  BY DEF RailInv, TypeOK, WindowOK, Doing
<1>2. outcome \in Outcome
  BY <1>1 DEF Outcome
<1>3. log' = Append(log, outcome) /\ Prune(log', call[c].stamp)
      /\ UNCHANGED <<now, memory, redis, restarts>>
  BY DEF Record
<1> HIDE DEF outcome
<1>4. /\ log' \in Seq(Outcome) /\ first' \in 1..(Len(log') + 1)
      /\ first' > Len(log') - Cap
      /\ \A i \in 1..(first' - 1) :
            i <= Len(log') - Cap \/ ~RecentAt(log'[i], now')
  BY <1>1, <1>2, <1>3, PruneStep
<1>5. \E new : Replaces(c, new)
  <2>1. CASE Return(c)
    BY <2>1, ReturnReplaces
  <2>2. CASE Goto(c, "fallback")
    BY <2>2, GotoReplaces DEF Step
  <2>3. CASE /\ call[c].got # None
             /\ call' = [call EXCEPT ![c].step = "save",
                                     ![c].unsaved = {"array", "len"}]
    <3> DEFINE new == [call[c] EXCEPT !.step = "save",
                                      !.unsaved = {"array", "len"}]
    <3>1. /\ new \in Doing /\ new.step = "save" /\ new.got = call[c].got
          /\ new.stamp = call[c].stamp /\ new.filled = call[c].filled
      BY <1>1 DEF Doing, Step
    <3>2. call' = [call EXCEPT ![c] = new]
      BY <2>3
    <3> HIDE DEF new
    <3>3. Replaces(c, new)
      BY <1>1, <2>3, <3>1, <3>2
         DEF Replaces, RailInv, WindowOK, DirectoryOK, Doing, Answer
    <3>4. QED
      BY <3>3
  <2>4. QED
    BY <2>1, <2>2, <2>3 DEF Record
<1>6. PICK new : Replaces(c, new)
  BY <1>5
<1>7. /\ call' \in [Call -> Doing]
      /\ \A d \in Call : call'[d] = IF d = c THEN new ELSE call[d]
  BY <1>6 DEF RailInv, TypeOK, Replaces
<1>8. TypeOK'
  BY <1>3, <1>4, <1>7 DEF RailInv, TypeOK
<1>9. WindowOK'
  BY <1>3, <1>4, <1>6, <1>7 DEF RailInv, WindowOK, Replaces
<1>10. DirectoryOK'
  BY <1>3, <1>6, <1>7 DEF RailInv, DirectoryOK, Replaces, At, HasDirectory
<1>11. QED
  BY <1>8, <1>9, <1>10 DEF RailInv

LEMMA LookStep == ASSUME RailInv, NEW c \in Call, Look(c) PROVE RailInv'
<1>1. \E new : Replaces(c, new)
  <2>1. CASE Return(c)
    BY <2>1, ReturnReplaces
  <2>2. CASE call' = [call EXCEPT ![c] = [Nothing EXCEPT !.step = "ask",
                         !.picker = TRUE, !.filled = HasDirectory]]
    <3> DEFINE new == [Nothing EXCEPT !.step = "ask", !.picker = TRUE,
                                      !.filled = HasDirectory]
    <3>1. HasDirectory \in BOOLEAN
      BY DEF HasDirectory
    <3>2. /\ new \in Doing /\ new.step = "ask" /\ new.stamp = 0
          /\ new.filled = HasDirectory
      BY <3>1, RailAssumption, NothingIsOK DEF Doing, Step
    <3>3. call' = [call EXCEPT ![c] = new]
      BY <2>2
    <3> HIDE DEF new
    <3>4. Replaces(c, new)
      BY <3>2, <3>3 DEF Replaces, RailInv, TypeOK
    <3>5. QED
      BY <3>4
  <2>3. QED
    BY <2>1, <2>2 DEF Look
<1>2. QED
  BY <1>1, ReplacedIsOK DEF Look, RailInv, TypeOK, HasDirectory

\* A call that came in when there was a directory finds one still.
LEMMA FallbackStep ==
    ASSUME RailInv, NEW c \in Call, Fallback(c) PROVE RailInv'
<1>1. \E new : Replaces(c, new)
  BY ReturnReplaces, GotoReplaces DEF Fallback, Step
<1>2. QED
  BY <1>1, ReplacedIsOK DEF Fallback, RailInv, TypeOK, HasDirectory

\* A list with banks leaves a directory where there was one.  One without
\* leaves no call with a claim to it.
LEMMA SaveStep ==
    ASSUME RailInv, NEW c \in Call, NEW word \in {"array", "len"}, Save(c, word)
    PROVE  RailInv'
<1> DEFINE rest == call[c].unsaved \ {word}
           step == IF rest = {} THEN "store" ELSE "save"
           new == [call[c] EXCEPT !.unsaved = rest, !.step = step]
           saved == [call EXCEPT ![c] = new]
<1>1. /\ call[c] \in Doing /\ call[c].got \in Answer
      /\ call[c].got \in List \cup {Empty}
  BY DEF RailInv, TypeOK, DirectoryOK, Save, Doing
<1>2. rest \in SUBSET {"array", "len"} /\ step \in {"store", "save"}
  BY <1>1 DEF Doing
<1>3. call' = IF call[c].got = Empty
              THEN [d \in Call |-> [saved[d] EXCEPT !.filled = FALSE]]
              ELSE saved
  <2>1. [call EXCEPT ![c].unsaved = rest, ![c].step = step] = saved
    OBVIOUS
  <2>2. CASE call[c].got # Empty
    BY <2>1, <2>2 DEF Save
  <2>3. CASE call[c].got = Empty
    <3> DEFINE written == [call EXCEPT ![c].unsaved = rest, ![c].step = step]
    <3>1. call' = [d \in Call |-> [written[d] EXCEPT !.filled = FALSE]]
      BY <2>3, Zenon DEF Save
    <3> HIDE DEF written, saved
    <3>2. written = saved
      BY <2>1 DEF written
    <3>3. QED
      BY <2>3, <3>1, <3>2
  <2>4. QED
    BY <2>2, <2>3
<1> HIDE DEF rest, step
<1>4. /\ new \in Doing /\ new.step = step /\ new.got = call[c].got
      /\ new.stamp = call[c].stamp /\ new.filled = call[c].filled
  BY <1>1, <1>2 DEF Doing, Step
<1> HIDE DEF new
<1>5. memory' \in Slice
  BY <1>1 DEF Save, RailInv, TypeOK, Slice
<1>6. CASE call[c].got # Empty
  <2>1. Replaces(c, new)
    BY <1>1, <1>2, <1>3, <1>4, <1>6
    DEF Replaces, RailInv, WindowOK, DirectoryOK
  <2>2. HasDirectory => HasDirectory'
    BY <1>1, <1>6 DEF Save, RailInv, TypeOK, Slice, HasDirectory
  <2>3. QED
    BY <1>5, <2>1, <2>2, ReplacedIsOK DEF Save, RailInv, TypeOK
<1>7. CASE call[c].got = Empty
  <2>1. \A d \in Call : saved[d] = IF d = c THEN new ELSE call[d]
    BY DEF RailInv, TypeOK
  <2>2. ASSUME NEW d \in Call
        PROVE  /\ saved[d] \in Doing
               /\ saved[d].stamp <= now
               /\ saved[d].step = "save" => saved[d].got \in List \cup {Empty}
    BY <1>1, <1>4, <2>1 DEF RailInv, TypeOK, WindowOK, DirectoryOK, At
  <2> HIDE DEF saved
  <2>3. ASSUME NEW d \in Call
        PROVE  /\ call'[d] \in Doing /\ ~call'[d].filled
               /\ call'[d].stamp = saved[d].stamp
               /\ call'[d].step = saved[d].step /\ call'[d].got = saved[d].got
    <3>1. saved[d] \in Doing /\ call'[d] = [saved[d] EXCEPT !.filled = FALSE]
      BY <1>3, <1>7, <2>2
    <3>2. QED
      BY <3>1 DEF Doing
  <2>4. TypeOK'
    <3>1. call' \in [Call -> Doing]
      BY <1>3, <1>7, <2>3
    <3>2. QED
      BY <1>5, <3>1 DEF Save, RailInv, TypeOK
  <2>5. WindowOK'
    BY <2>2, <2>3 DEF Save, RailInv, WindowOK, RecentAt
  <2>6. DirectoryOK'
    BY <2>2, <2>3 DEF DirectoryOK, At
  <2>7. QED
    BY <2>4, <2>5, <2>6 DEF RailInv
<1>8. QED
  BY <1>6, <1>7

LEMMA StoreRedisStep ==
    ASSUME RailInv, NEW c \in Call, StoreRedis(c) PROVE RailInv'
<1>1. Replaces(c, Nothing)
  BY ReturnReplaces DEF StoreRedis
<1>2. redis' \in Answer
  BY DEF StoreRedis, RailInv, TypeOK, Doing
<1>3. QED
  BY <1>1, <1>2, ReplacedIsOK DEF StoreRedis, RailInv, TypeOK, HasDirectory

LEMMA EvictStep == ASSUME RailInv, Evict PROVE RailInv'
BY DEF Evict, RailInv, TypeOK, WindowOK, DirectoryOK, Answer, At, HasDirectory,
       RecentAt

\* What is too old does not become recent again.
LEMMA TickStep == ASSUME RailInv, Tick PROVE RailInv'
<1>1. now \in Nat /\ now' = now + 1 /\ now' \in 0..MaxTime /\ MaxAge \in Nat
      /\ UNCHANGED <<log, first, memory, redis, call, restarts>>
  BY RailAssumption DEF Tick, RailInv, TypeOK
<1>2. ASSUME NEW i \in 1..(first - 1), ~RecentAt(log[i], now)
      PROVE  ~RecentAt(log[i], now')
  <2>1. log[i] \in Outcome
    BY DEF RailInv, TypeOK
  <2>2. log[i].at \in Int
    BY <2>1 DEF Outcome
  <2>3. QED
    BY <1>1, <1>2, <2>2 DEF RecentAt
<1>3. \A c \in Call : call[c].stamp \in Int
  BY DEF RailInv, TypeOK, Doing
<1>4. WindowOK'
  BY <1>1, <1>2, <1>3 DEF RailInv, WindowOK
<1>5. TypeOK' /\ DirectoryOK'
  BY <1>1 DEF RailInv, TypeOK, DirectoryOK, At, HasDirectory
<1>6. QED
  BY <1>4, <1>5 DEF RailInv

LEMMA RestartStep == ASSUME RailInv, Restart PROVE RailInv'
<1>1. /\ now \in Nat /\ log' = <<>> /\ first' = 1 /\ Len(log') = 0
      /\ Cap \in Nat \ {0} /\ UNCHANGED <<now, redis>>
      /\ \A c \in Call : call'[c] = Nothing
  BY RailAssumption DEF Restart, RailInv, TypeOK
<1>2. TypeOK'
  BY <1>1, RailAssumption, NothingIsOK
  DEF Restart, RailInv, TypeOK, Slice, Answer
<1>3. WindowOK'
  BY <1>1, NothingIsOK DEF WindowOK
<1>4. DirectoryOK'
  BY <1>1, NothingIsOK DEF DirectoryOK, At
<1>5. QED
  BY <1>2, <1>3, <1>4 DEF RailInv

-----------------------------------------------------------------------------
LEMMA InitRail == Init => RailInv
<1> SUFFICES ASSUME Init PROVE RailInv
  OBVIOUS
<1>1. Len(log) = 0 /\ first = 1 /\ now = 0 /\ Cap \in Nat \ {0}
      /\ \A c \in Call : call[c] = Nothing
  BY RailAssumption DEF Init
<1>2. TypeOK
  BY <1>1, RailAssumption, NothingIsOK DEF Init, TypeOK, Slice, Answer
<1>3. WindowOK /\ DirectoryOK
  BY <1>1, NothingIsOK DEF WindowOK, DirectoryOK, At
<1>4. QED
  BY <1>2, <1>3 DEF RailInv

LEMMA NextRail == RailInv /\ [Next]_vars => RailInv'
<1> SUFFICES ASSUME RailInv, [Next]_vars PROVE RailInv'
  OBVIOUS
<1>1. ASSUME NEW c \in Call, CallStep(c) PROVE RailInv'
  BY <1>1, UseStep, AskStep, StampStep, RecordStep, LookStep, FallbackStep,
     StoreRedisStep, SaveStep DEF CallStep
<1>2. CASE UNCHANGED vars
  BY <1>2 DEF vars, RailInv, TypeOK, WindowOK, DirectoryOK, At, HasDirectory,
              RecentAt
<1>3. QED
  BY <1>1, <1>2, EvictStep, TickStep, RestartStep DEF Next

LEMMA RailHolds == Spec => []RailInv
BY InitRail, NextRail, PTL DEF Spec

-----------------------------------------------------------------------------
\* The outcomes kept are a window of those recorded, and what a slice, Redis
\* and the calls hold are answers of Paystack.
THEOREM TypeCorrect == Spec => []TypeOK
<1>1. RailInv => TypeOK
  BY DEF RailInv
<1>2. QED
  BY <1>1, RailHolds, PTL

\* The status is computed from exactly the outcomes that count: of the last
\* Cap those younger than MaxAge, in whichever order calls were stamped and
\* took the mutex.
THEOREM StatusStaysExact == Spec => []StatusIsExact
<1>1. RailInv => StatusIsExact
  <2> SUFFICES ASSUME RailInv PROVE Counted = Due
    BY DEF StatusIsExact
  <2>1. /\ log \in Seq(Outcome) /\ Len(log) \in Nat /\ Cap \in Nat
        /\ first \in 1..(Len(log) + 1) /\ DOMAIN log = 1..Len(log)
    BY RailAssumption DEF RailInv, TypeOK
  <2>2. Counted \subseteq Due
    BY <2>1 DEF RailInv, WindowOK, Counted, Due
  <2>3. Due \subseteq Counted
    <3> SUFFICES ASSUME NEW i \in Due PROVE i \in Counted
      OBVIOUS
    <3>1. i \in 1..Len(log) /\ i > Len(log) - Cap /\ RecentAt(log[i], now)
      BY <2>1 DEF Due
    <3>2. ~(i \in 1..(first - 1))
      BY <2>1, <3>1 DEF RailInv, WindowOK
    <3>3. QED
      BY <2>1, <3>1, <3>2 DEF Counted
  <2>4. QED
    BY <2>2, <2>3
<1>2. QED
  BY <1>1, RailHolds, PTL

\* Once there is a directory in memory, no later call for it is refused, but
\* after an answer without banks has been written there.
THEOREM PickerIsNeverEmptied == Spec => []PickerStaysFilled
<1>1. RailInv => PickerStaysFilled
  BY DEF RailInv, DirectoryOK, PickerStaysFilled
<1>2. QED
  BY <1>1, RailHolds, PTL

=============================================================================
