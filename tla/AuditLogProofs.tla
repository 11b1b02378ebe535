--------------------------- MODULE AuditLogProofs ---------------------------
(* What TLAPS proves of AuditLog: for every number of requests and         *)
(* processes, whatever fails, dies or arrives late, and however the clocks *)
(* differ.                                                                 *)
EXTENDS AuditLog, TLAPS

(* The first turn of log(): a call that is quiet is alone and the latest. *)
LEMMA Begun ==
    ASSUME TypeOK, NEW r \in Requests, NEW s \in Stages,
           NEW others \in SUBSET Requests, NEW table \in SUBSET Entries,
           BeginLog(r, s, others, table)
    PROVE  /\ pc' = [pc EXCEPT ![r] = "read"]
           /\ stage' = [stage EXCEPT ![r] = s]
           /\ time' \in [Requests -> 0 .. MaxClock]
           /\ \A x \in Requests \ {r} : time'[x] = time[x]
           /\ last' = last
           /\ quiet' \subseteq Requests \X Stages
           /\ \A c \in quiet' :
                 \/ c \in quiet /\ c \notin Calling(others)
                 \/ /\ c = <<r, s>>
                    /\ others = {}
                    /\ \A e \in table : e.time < time'[r]
<1>1. PICK t \in Stamps :
        /\ time' = [time EXCEPT ![r] = t]
        /\ quiet' = (quiet \ Calling(others)) \cup
               IF others = {} /\ \A e \in table : e.time < t
               THEN {<<r, s>>} ELSE {}
  BY DEF BeginLog
<1>2. t \in 0 .. MaxClock
  BY ClockAssumption DEF Stamps, TypeOK
<1>3. time'[r] = t
  BY <1>1 DEF TypeOK
<1>4. quiet' \subseteq Requests \X Stages
  BY <1>1 DEF TypeOK
<1>5. \A x \in Requests \ {r} : time'[x] = time[x]
  BY <1>1 DEF TypeOK
<1>6. time' \in [Requests -> 0 .. MaxClock]
  BY <1>1, <1>2 DEF TypeOK
<1>7. \A c \in quiet' :
         \/ c \in quiet /\ c \notin Calling(others)
         \/ /\ c = <<r, s>>
            /\ others = {}
            /\ \A e \in table : e.time < time'[r]
  BY <1>1, <1>3
<1> QED
  BY <1>4, <1>5, <1>6, <1>7 DEF BeginLog, Goto

(* What is in flight and what is pending can be told from pc. *)
LEMMA PendingInFlight == Pending \subseteq InFlight
BY DEF Pending, InFlight

(* An INSERT that succeeds: the row is new, and whoever is quiet in the    *)
(* table is pointed at by it or by another one.                            *)
LEMMA Inserted ==
    ASSUME IInv, NEW r \in Pending, log' = log \cup {Entry(r)}
    PROVE  /\ log' \subseteq Entries
           /\ Entry(r) \notin log
           /\ \A e \in log' : CallOf(e) \in quiet => Chained(e)'
           /\ \A e \in log', x \in Pending \ {r} : CallOf(e) \in quiet
                => \/ last[x] = Hash(e)
                   \/ \E f \in log' \ {e} : f.previous = Hash(e)
           /\ \A x \in Pending : last[x] = Genesis \/ \E f \in log' : Hash(f) = last[x]
           /\ ReferencesExist'
           /\ \A x \in InFlight \ {r} : <<x, stage[x]>> \notin quiet
<1> DEFINE n == Entry(r)
<1>1. /\ r \in Requests /\ r \in InFlight
      /\ stage[r] \in Stages
      /\ kind[r] \in Kinds
      /\ time[r] \in 0 .. MaxClock
      /\ last[r] \in Hashes \cup {Genesis}
  BY PendingInFlight DEF Pending, InFlight, IInv, StagesFollow, TypeOK
<1>2. n \in Entries
  BY <1>1 DEF Entry, Entries
<1>3. /\ n.request = r /\ n.stage = stage[r] /\ n.previous = last[r]
      /\ n.time = time[r]
  BY DEF Entry
<1>4. n \notin log
  BY <1>1, <1>3 DEF IInv, EntriesKnown
<1>5. \A e \in log : e \in Entries /\ e.time \in Nat
  BY ClockAssumption DEF IInv, TypeOK, Entries
<1>6. <<r, stage[r]>> \in quiet => /\ InFlight = {r}
                                   /\ \A e \in log : e.time < time[r]
  BY <1>1 DEF IInv, QuietAlone
<1>7. ASSUME NEW e \in log, CallOf(e) \in quiet
      PROVE  \E f \in log' \ {e} : f.previous = Hash(e)
  <2>1. \/ last[r] = Hash(e)
        \/ \E f \in log \ {e} : f.previous = Hash(e)
    BY <1>7 DEF IInv, PendingChained
  <2>2. n \in log' \ {e}
    BY <1>4
  <2> QED
    BY <2>1, <2>2, <1>3
<1>8. ASSUME CallOf(n) \in quiet
      PROVE  /\ ~ \E f \in log' \ {n} : f.time >= n.time
             /\ Pending \ {r} = {}
  <2>1. <<r, stage[r]>> \in quiet
    BY <1>8, <1>3 DEF CallOf
  <2>2. time[r] \in Nat
    BY <1>1, ClockAssumption
  <2> QED
    BY <2>1, <2>2, <1>3, <1>5, <1>6, PendingInFlight
<1>9. \A e \in log' : CallOf(e) \in quiet => Chained(e)'
  BY <1>7, <1>8 DEF Chained, Hash
<1>10. \A x \in Pending : last[x] = Genesis \/ \E f \in log' : Hash(f) = last[x]
  BY DEF IInv, PendingReferences
<1>11. ReferencesExist'
  <2> SUFFICES ASSUME NEW e \in log', e.previous # Genesis
               PROVE  \E f \in log' \ {e} : Hash(f) = e.previous
    BY DEF ReferencesExist, Hash
  <2>1. CASE e = n
    <3>1. \E f \in log : Hash(f) = last[r]
      BY <2>1, <1>3 DEF IInv, PendingReferences
    <3> QED
      BY <3>1, <2>1, <1>3, <1>4
  <2>2. CASE e \in log
    BY <2>2 DEF IInv, ReferencesExist
  <2> QED
    BY <2>1, <2>2
<1>12. \A x \in InFlight \ {r} : <<x, stage[x]>> \notin quiet
  BY <1>1 DEF IInv, QuietAlone, InFlight
<1>13. log' \subseteq Entries
  BY <1>2 DEF IInv, TypeOK
<1> HIDE DEF n
<1>14. \A e \in log', x \in Pending \ {r} : CallOf(e) \in quiet
                => \E f \in log' \ {e} : f.previous = Hash(e)
  BY <1>7, <1>8 DEF n
<1> QED
  BY <1>4, <1>9, <1>10, <1>11, <1>12, <1>13, <1>14 DEF n

(* A table that only a call that is over, or none, has written to. *)
LEMMA Kept ==
    ASSUME IInv, log' = log
    PROVE  /\ \A e \in log' : CallOf(e) \in quiet => Chained(e)'
           /\ \A e \in log', x \in Pending : CallOf(e) \in quiet
                => \/ last[x] = Hash(e)
                   \/ \E f \in log' \ {e} : f.previous = Hash(e)
           /\ \A x \in Pending : last[x] = Genesis \/ \E f \in log' : Hash(f) = last[x]
           /\ ReferencesExist'
BY DEF IInv, QuietEntriesAreChained, PendingChained, PendingReferences,
       ReferencesExist, Chained, Hash

(* A call of log() begins, the caller having just written its entry or not *)
LEMMA CallBegins ==
    ASSUME IInv, NEW r \in Requests, NEW s \in Stages, ~Reached(r, s),
           s = "tap" \/ stage[r] = "none",
           BeginLog(r, s, InFlight \ {r}, log'),
           \/ log' = log /\ r \notin InFlight
           \/ log' = log \cup {Entry(r)} /\ r \in Pending /\ stage[r] = "handler"
    PROVE  /\ TypeOK' <=> /\ clock' \in 0 .. MaxClock
                          /\ kind' \in [Requests -> Kinds]
                          /\ at' \in [Requests -> Instances]
                          /\ written' \in [Requests -> BOOLEAN]
                          /\ reply' \in [Requests -> {"none", "ok", "error"}]
           /\ EntriesKnown' /\ PendingReferences' /\ ReferencesExist'
           /\ QuietKnown' /\ QuietAlone' /\ PendingChained' /\ QuietEntriesAreChained'
<1>1. log' \subseteq Entries
  BY Inserted DEF IInv, TypeOK
<1>2. /\ pc' = [pc EXCEPT ![r] = "read"]
      /\ stage' = [stage EXCEPT ![r] = s]
      /\ time' \in [Requests -> 0 .. MaxClock]
      /\ \A x \in Requests \ {r} : time'[x] = time[x]
      /\ last' = last
      /\ quiet' \subseteq Requests \X Stages
      /\ \A c \in quiet' :
            \/ c \in quiet /\ c \notin Calling(InFlight \ {r})
            \/ /\ c = <<r, s>>
               /\ InFlight \ {r} = {}
               /\ \A e \in log' : e.time < time'[r]
  <2>1. InFlight \ {r} \in SUBSET Requests
    BY DEF InFlight
  <2>2. log' \in SUBSET Entries
    BY <1>1
  <2>3. TypeOK
    BY DEF IInv
  <2> QED
    BY <2>1, <2>2, <2>3, Begun
<1>3. /\ InFlight' = InFlight \cup {r}
      /\ Pending' = Pending \ {r}
      /\ \A x \in Requests : x # r => stage'[x] = stage[x]
      /\ stage'[r] = s
  BY <1>2 DEF IInv, TypeOK, InFlight, Pending
<1>4. \A e \in log' : /\ e.request \in Requests
                      /\ Reached(e.request, e.stage)
                      /\ e.request # r /\ e.stage = stage[e.request] =>
                            e.request \notin InFlight
  <2>1. \A e \in log : e.request \in Requests
    BY DEF IInv, TypeOK, Entries
  <2>2. Entry(r).request = r /\ Entry(r).stage = stage[r]
    BY DEF Entry
  <2> QED
    BY <2>1, <2>2 DEF IInv, EntriesKnown, Reached
<1>5. \A e \in log' : CallOf(e) # <<r, s>>
  BY <1>4 DEF CallOf
<1>6. EntriesKnown'
  <2> SUFFICES ASSUME NEW e \in log'
               PROVE  /\ Reached(e.request, e.stage)'
                      /\ e.stage = stage'[e.request] => e.request \notin InFlight'
    BY DEF EntriesKnown
  <2>1. CASE e.request = r
    <3>1. e.stage \in Stages /\ e.stage # s
      BY <2>1, <1>1, <1>5 DEF CallOf, Entries
    <3>2. Reached(r, e.stage)
      BY <2>1, <1>4
    <3> QED
      BY <2>1, <3>1, <3>2, <1>3 DEF Reached, Stages
  <2>2. CASE e.request # r
    BY <2>2, <1>3, <1>4 DEF Reached
  <2> QED
    BY <2>1, <2>2
<1>7. QuietKnown'
  BY <1>2, <1>3 DEF IInv, TypeOK, QuietKnown, Reached, Stages
<1>8. QuietAlone'
  <2> SUFFICES ASSUME NEW x \in InFlight', <<x, stage'[x]>> \in quiet'
               PROVE  InFlight' = {x} /\ \A e \in log' : e.time < time'[x]
    BY DEF QuietAlone
  <2>1. CASE x = r
    <3>1. <<r, s>> \notin quiet
      BY DEF IInv, QuietKnown
    <3> QED
      BY <2>1, <3>1, <1>2, <1>3
  <2>2. CASE x # r
    <3>1. x \in InFlight \ {r} /\ stage'[x] = stage[x]
      BY <2>2, <1>3 DEF InFlight
    <3> QED
      BY <3>1, <2>2, <1>2 DEF Calling
  <2> QED
    BY <2>1, <2>2
<1>9. /\ \A e \in log' : CallOf(e) \in quiet => Chained(e)'
      /\ \A e \in log', x \in Pending \ {r} : CallOf(e) \in quiet
            => \/ last[x] = Hash(e)
               \/ \E f \in log' \ {e} : f.previous = Hash(e)
      /\ \A x \in Pending : last[x] = Genesis \/ \E f \in log' : Hash(f) = last[x]
      /\ ReferencesExist'
  BY Kept, Inserted
<1>10. \A e \in log' : CallOf(e) \in quiet' => CallOf(e) \in quiet
  BY <1>2, <1>5
<1>11. QuietEntriesAreChained' /\ PendingChained' /\ PendingReferences'
  BY <1>2, <1>3, <1>9, <1>10
     DEF QuietEntriesAreChained, PendingChained, PendingReferences, CallOf, Hash
<1>12. pc' \in [Requests -> Labels] /\ stage' \in [Requests -> Stages \cup {"none"}]
  BY <1>2 DEF IInv, TypeOK, Labels
<1> QED
  BY <1>1, <1>2, <1>6, <1>7, <1>8, <1>9, <1>11, <1>12 DEF IInv, TypeOK

(* Calls of log() that end or are given up, and those that go on. *)
LEMMA CallsEnd ==
    ASSUME IInv, InFlight' \subseteq InFlight, Pending' \subseteq Pending,
           UNCHANGED <<call, quiet>>,
           \/ log' = log
           \/ \E r \in Pending : r \notin InFlight' /\ log' = log \cup {Entry(r)}
    PROVE  /\ log' \subseteq Entries
           /\ EntriesKnown' /\ PendingReferences' /\ ReferencesExist'
           /\ QuietKnown' /\ QuietAlone' /\ PendingChained' /\ QuietEntriesAreChained'
<1>1. stage' = stage /\ time' = time /\ last' = last /\ quiet' = quiet
  BY DEF call
<1>2. QuietKnown'
  BY <1>1 DEF IInv, QuietKnown, Reached
<1>3. CASE log' = log
  <2>1. EntriesKnown'
    BY <1>1, <1>3 DEF IInv, EntriesKnown, Reached
  <2>2. QuietAlone'
    BY <1>1, <1>3 DEF IInv, QuietAlone
  <2>3. PendingChained' /\ QuietEntriesAreChained' /\ PendingReferences' /\ ReferencesExist'
    BY <1>1, <1>3, Kept
       DEF QuietEntriesAreChained, PendingChained, PendingReferences, CallOf, Hash
  <2>4. log' \subseteq Entries
    BY <1>3 DEF IInv, TypeOK
  <2> QED
    BY <1>2, <2>1, <2>2, <2>3, <2>4
<1>4. ASSUME NEW r \in Pending, r \notin InFlight', log' = log \cup {Entry(r)}
      PROVE  /\ log' \subseteq Entries
             /\ EntriesKnown' /\ PendingReferences' /\ ReferencesExist'
             /\ QuietAlone' /\ PendingChained' /\ QuietEntriesAreChained'
  <2>1. /\ log' \subseteq Entries
        /\ \A e \in log' : CallOf(e) \in quiet => Chained(e)'
        /\ \A e \in log', x \in Pending \ {r} : CallOf(e) \in quiet
                => \/ last[x] = Hash(e)
                   \/ \E f \in log' \ {e} : f.previous = Hash(e)
        /\ \A x \in Pending : last[x] = Genesis \/ \E f \in log' : Hash(f) = last[x]
        /\ ReferencesExist'
        /\ \A x \in InFlight \ {r} : <<x, stage[x]>> \notin quiet
    BY <1>4, Inserted
  <2>2. Pending' \subseteq Pending \ {r} /\ InFlight' \subseteq InFlight \ {r}
    BY <1>4 DEF Pending, InFlight
  <2>3. EntriesKnown'
    <3>1. Entry(r).request = r /\ Entry(r).stage = stage[r]
      BY DEF Entry
    <3> QED
      BY <3>1, <1>1, <1>4 DEF IInv, EntriesKnown, Reached
  <2>4. QuietAlone'
    BY <1>1, <2>1, <2>2 DEF QuietAlone
  <2>5. PendingChained' /\ QuietEntriesAreChained' /\ PendingReferences'
    BY <1>1, <2>1, <2>2
       DEF QuietEntriesAreChained, PendingChained, PendingReferences, CallOf, Hash
  <2> QED
    BY <2>1, <2>3, <2>4, <2>5
<1> QED
  BY <1>2, <1>3, <1>4

-----------------------------------------------------------------------------
(* One lemma per action. *)

LEMMA ArriveKeeps ==
    ASSUME IInv, NEW r \in Requests, Arrive(r)
    PROVE  IInv'
<1>1. /\ pc[r] = "idle" /\ stage[r] = "none" /\ ~written[r] /\ reply[r] # "ok"
      /\ r \notin InFlight
  BY DEF Arrive, IInv, StagesFollow, InFlight
<1>2. /\ clock' = clock /\ kind' = kind /\ at' = at /\ written' = written
      /\ reply' = reply /\ log' = log
  BY DEF Arrive, request
<1>3. \A x \in Requests : HasEntry(x, "handler")' = HasEntry(x, "handler")
  BY <1>2 DEF HasEntry, CallOf
<1>4. CASE kind[r] = "authorize" /\ BeginLog(r, "handler", InFlight, log)
  <2>1. InFlight \ {r} = InFlight
    BY <1>1
  <2>2. /\ TypeOK'
        /\ EntriesKnown' /\ PendingReferences' /\ ReferencesExist'
        /\ QuietKnown' /\ QuietAlone' /\ PendingChained' /\ QuietEntriesAreChained'
    <3>1. ~Reached(r, "handler") /\ "handler" \in Stages
      BY <1>1 DEF Reached, Stages
    <3>2. BeginLog(r, "handler", InFlight \ {r}, log')
      BY <1>2, <1>4, <2>1
    <3> QED
      BY <1>1, <1>2, <3>1, <3>2, CallBegins DEF IInv, TypeOK
  <2>3. pc' = [pc EXCEPT ![r] = "read"] /\ stage' = [stage EXCEPT ![r] = "handler"]
    BY <1>4 DEF BeginLog, Goto
  <2>4. StagesFollow'
    BY <1>1, <1>2, <1>4, <2>3 DEF IInv, TypeOK, StagesFollow, InFlight, Stages
  <2>5. RecordsPrecede' /\ DecisionsAreOnRecord'
    BY <1>1, <1>2, <1>3, <2>3
       DEF IInv, TypeOK, RecordsPrecede, DecisionsAreOnRecord
  <2> QED
    BY <2>2, <2>4, <2>5 DEF IInv
<1>5. CASE kind[r] # "authorize" /\ Goto(r, "write") /\ UNCHANGED <<call, quiet>>
  <2>1. pc' = [pc EXCEPT ![r] = "write"] /\ UNCHANGED <<call, quiet>>
    BY <1>5 DEF Goto
  <2>2. InFlight' = InFlight /\ Pending' = Pending
    BY <1>1, <2>1 DEF IInv, TypeOK, InFlight, Pending
  <2>3. /\ EntriesKnown' /\ PendingReferences' /\ ReferencesExist'
        /\ QuietKnown' /\ QuietAlone' /\ PendingChained' /\ QuietEntriesAreChained'
    BY <1>2, <2>1, <2>2, CallsEnd
  <2>4. TypeOK'
    BY <1>2, <2>1 DEF IInv, TypeOK, Labels, call
  <2>5. StagesFollow'
    BY <1>1, <1>2, <1>5, <2>1, <2>2 DEF IInv, TypeOK, StagesFollow, call
  <2>6. RecordsPrecede' /\ DecisionsAreOnRecord'
    BY <1>1, <1>2, <1>3, <1>5, <2>1
       DEF IInv, TypeOK, RecordsPrecede, DecisionsAreOnRecord
  <2> QED
    BY <2>3, <2>4, <2>5, <2>6 DEF IInv
<1> QED
  BY <1>4, <1>5 DEF Arrive

LEMMA WriteKeeps ==
    ASSUME IInv, NEW r \in Requests, Write(r)
    PROVE  IInv'
<1> DEFINE s == IF kind[r] = "decide" THEN "handler" ELSE "tap"
<1>1. /\ pc[r] = "write" /\ r \notin InFlight
      /\ stage[r] = IF kind[r] = "authorize" THEN "handler" ELSE "none"
      /\ kind[r] \in {"authorize", "decide", "plain"}
      /\ reply[r] # "ok"
  BY KindsAssumption DEF Write, IInv, TypeOK, StagesFollow, InFlight
<1>2. /\ clock' = clock /\ kind' = kind /\ at' = at /\ log' = log
      /\ written' = [written EXCEPT ![r] = TRUE]
  BY DEF Write, request
<1>3. \A x \in Requests : HasEntry(x, "handler")' = HasEntry(x, "handler")
  BY <1>2 DEF HasEntry, CallOf
<1>4. /\ BeginLog(r, s, InFlight \ {r}, log')
      /\ reply' = IF s = "tap" THEN [reply EXCEPT ![r] = "ok"] ELSE reply
  <2>1. InFlight \ {r} = InFlight
    BY <1>1
  <2> QED
    BY <1>2, <2>1 DEF Write, Answer, Reply
<1>5. /\ ~Reached(r, s) /\ s \in Stages
      /\ s = "tap" \/ stage[r] = "none"
  BY <1>1 DEF Reached, Stages
<1>6. /\ TypeOK'
      /\ EntriesKnown' /\ PendingReferences' /\ ReferencesExist'
      /\ QuietKnown' /\ QuietAlone' /\ PendingChained' /\ QuietEntriesAreChained'
  BY <1>1, <1>2, <1>4, <1>5, CallBegins DEF IInv, TypeOK
<1>7. pc' = [pc EXCEPT ![r] = "read"] /\ stage' = [stage EXCEPT ![r] = s]
  BY <1>4 DEF BeginLog, Goto
<1>8. StagesFollow'
  BY <1>1, <1>2, <1>4, <1>5, <1>7 DEF IInv, TypeOK, StagesFollow, InFlight
<1>9. RecordsPrecede' /\ DecisionsAreOnRecord'
  BY <1>1, <1>2, <1>3, <1>4, <1>7
     DEF IInv, TypeOK, RecordsPrecede, DecisionsAreOnRecord
<1> QED
  BY <1>6, <1>8, <1>9 DEF IInv

LEMMA ReadLastKeeps ==
    ASSUME IInv, NEW r \in Requests, ReadLast(r)
    PROVE  IInv'
<1>1. /\ pc[r] = "read" /\ r \in InFlight
      /\ pc' = [pc EXCEPT ![r] = "insert"]
      /\ UNCHANGED <<clock, kind, at, stage, time, written, reply, log, quiet>>
  BY DEF ReadLast, Goto, InFlight, request
<1>2. PICK h \in IF log = {} THEN {Genesis} ELSE {Hash(e) : e \in LastEntries} :
        last' = [last EXCEPT ![r] = h]
  BY DEF ReadLast
<1>3. \/ log = {} /\ h = Genesis
      \/ \E m \in log : h = Hash(m) /\ \A f \in log : f.time <= m.time
  BY <1>2 DEF LastEntries
<1>4. h \in Hashes \cup {Genesis}
  BY <1>3 DEF IInv, TypeOK, Hash, Hashes, Entries
<1>5. TypeOK'
  BY <1>1, <1>2, <1>4 DEF IInv, TypeOK, Labels
<1>6. InFlight' = InFlight /\ Pending' = Pending \cup {r}
  BY <1>1 DEF IInv, TypeOK, InFlight, Pending
<1>7. last'[r] = h /\ \A x \in Requests : x # r => last'[x] = last[x]
  BY <1>2 DEF IInv, TypeOK
<1>8. PendingReferences'
  BY <1>1, <1>3, <1>6, <1>7 DEF IInv, PendingReferences, Pending, Hash
<1>9. PendingChained'
  <2> SUFFICES ASSUME NEW e \in log, NEW x \in Pending', CallOf(e) \in quiet
               PROVE  \/ last'[x] = Hash(e)
                      \/ \E f \in log \ {e} : f.previous = Hash(e)
    BY <1>1 DEF PendingChained, CallOf, Hash
  <2>1. CASE x = r
    <3>1. PICK m \in log : h = Hash(m) /\ \A f \in log : f.time <= m.time
      BY <1>3
    <3>2. m.time \in Nat /\ e.time \in Nat
      BY ClockAssumption DEF IInv, TypeOK, Entries
    <3>3. m = e \/ \E f \in log \ {e} : f.time >= e.time
      BY <3>1, <3>2
    <3> QED
      BY <2>1, <3>1, <3>3, <1>7 DEF IInv, QuietEntriesAreChained, Chained
  <2>2. CASE x # r
    BY <2>2, <1>6, <1>7 DEF IInv, PendingChained, Pending
  <2> QED
    BY <2>1, <2>2
<1>10. QuietEntriesAreChained' /\ ReferencesExist' /\ QuietKnown'
  BY <1>1 DEF IInv, QuietEntriesAreChained, ReferencesExist, QuietKnown,
              Chained, CallOf, Hash, Reached
<1>11. EntriesKnown' /\ QuietAlone'
  BY <1>1, <1>6 DEF IInv, EntriesKnown, QuietAlone, Reached
<1>12. StagesFollow' /\ RecordsPrecede' /\ DecisionsAreOnRecord'
  BY <1>1, <1>6 DEF IInv, TypeOK, StagesFollow, RecordsPrecede,
                    DecisionsAreOnRecord, HasEntry, CallOf
<1> QED
  BY <1>5, <1>8, <1>9, <1>10, <1>11, <1>12 DEF IInv

LEMMA InsertKeeps ==
    ASSUME IInv, NEW r \in Requests, Insert(r)
    PROVE  IInv'
<1>1. /\ pc[r] = "insert" /\ r \in InFlight /\ r \in Pending
      /\ stage[r] \in Stages
      /\ kind[r] \in {"authorize", "decide", "plain"}
      /\ reply[r] = "ok" <=> stage[r] = "tap"
      /\ stage[r] = "handler" => kind[r] # "plain"
  BY KindsAssumption DEF Insert, IInv, TypeOK, StagesFollow, InFlight, Pending
<1>2. /\ clock' = clock /\ kind' = kind /\ at' = at /\ written' = written
      /\ log' = log \cup {Entry(r)}
  BY DEF Insert, request
<1>3. \A x \in Requests : HasEntry(x, "handler") => HasEntry(x, "handler")'
  BY <1>2 DEF HasEntry, CallOf
<1>4. stage[r] = "handler" => HasEntry(r, "handler")'
  <2>1. Entry(r) \in log' /\ Entry(r).request = r /\ Entry(r).stage = stage[r]
    BY <1>2 DEF Entry
  <2> QED
    BY <2>1 DEF HasEntry, CallOf
<1>5. CASE stage[r] = "handler" /\ kind[r] # "authorize" /\ Answer(r, log')
  <2>1. BeginLog(r, "tap", InFlight \ {r}, log') /\ reply' = [reply EXCEPT ![r] = "ok"]
    BY <1>5 DEF Answer, Reply
  <2>2. ~Reached(r, "tap") /\ "tap" \in Stages
    BY <1>5 DEF Reached, Stages
  <2>3. /\ TypeOK'
        /\ EntriesKnown' /\ PendingReferences' /\ ReferencesExist'
        /\ QuietKnown' /\ QuietAlone' /\ PendingChained' /\ QuietEntriesAreChained'
    BY <1>1, <1>2, <1>5, <2>1, <2>2, CallBegins DEF IInv, TypeOK
  <2>4. pc' = [pc EXCEPT ![r] = "read"] /\ stage' = [stage EXCEPT ![r] = "tap"]
    BY <2>1 DEF BeginLog, Goto
  <2>5. StagesFollow'
    BY <1>1, <1>2, <2>1, <2>4 DEF IInv, TypeOK, StagesFollow, InFlight, Stages
  <2>6. RecordsPrecede' /\ DecisionsAreOnRecord'
    BY <1>2, <1>3, <1>4, <1>5, <2>1, <2>4
       DEF IInv, TypeOK, RecordsPrecede, DecisionsAreOnRecord
  <2> QED
    BY <2>3, <2>5, <2>6 DEF IInv
<1>6. ASSUME NEW label \in {"write", "done"},
             pc' = [pc EXCEPT ![r] = label], UNCHANGED <<call, reply, quiet>>,
             label = "write" => stage[r] = "handler" /\ kind[r] = "authorize"
      PROVE  IInv'
  <2>1. InFlight' = InFlight \ {r} /\ Pending' = Pending \ {r}
    BY <1>1, <1>6 DEF IInv, TypeOK, InFlight, Pending
  <2>2. /\ log' \subseteq Entries
        /\ EntriesKnown' /\ PendingReferences' /\ ReferencesExist'
        /\ QuietKnown' /\ QuietAlone' /\ PendingChained' /\ QuietEntriesAreChained'
    BY <1>1, <1>2, <1>6, <2>1, CallsEnd
  <2>3. TypeOK'
    BY <1>2, <1>6, <2>2 DEF IInv, TypeOK, Labels, call
  <2>4. StagesFollow'
    BY <1>1, <1>2, <1>6, <2>1 DEF IInv, TypeOK, StagesFollow, call
  <2>5. RecordsPrecede' /\ DecisionsAreOnRecord'
    BY <1>2, <1>3, <1>4, <1>6
       DEF IInv, TypeOK, RecordsPrecede, DecisionsAreOnRecord
  <2> QED
    BY <2>2, <2>3, <2>4, <2>5 DEF IInv
<1> QED
  BY <1>5, <1>6 DEF Insert, Goto

(* Requests that are given up: nothing begins, no INSERT starts to be      *)
(* pending, and what becomes written was about to be.                      *)
LEMMA GivenUp ==
    ASSUME IInv, UNCHANGED <<clock, request, call, log, quiet>>,
           pc' \in [Requests -> Labels],
           written' \in [Requests -> BOOLEAN],
           reply' \in [Requests -> {"none", "ok", "error"}],
           \A r \in Requests :
               /\ pc'[r] # pc[r] => /\ pc[r] # "idle"
                                    /\ \/ pc'[r] \in {"done", "cut"}
                                       \/ pc'[r] = "orphan" /\ pc[r] = "insert"
               /\ written'[r] => written[r] \/ pc[r] = "write"
               /\ reply'[r] # reply[r] =>
                     reply'[r] = "error" /\ pc[r] # "idle" /\ stage[r] # "tap"
    PROVE  IInv'
<1>1. InFlight' \subseteq InFlight /\ Pending' \subseteq Pending
  BY DEF InFlight, Pending
<1>2. /\ EntriesKnown' /\ PendingReferences' /\ ReferencesExist'
      /\ QuietKnown' /\ QuietAlone' /\ PendingChained' /\ QuietEntriesAreChained'
  BY <1>1, CallsEnd
<1>3. TypeOK'
  BY DEF IInv, TypeOK, request, call
<1>4. StagesFollow'
  BY <1>1 DEF IInv, StagesFollow, request, call
<1>5. \A x \in Requests : HasEntry(x, "handler")' = HasEntry(x, "handler")
  BY DEF HasEntry, CallOf
<1>6. RecordsPrecede' /\ DecisionsAreOnRecord'
  BY <1>5 DEF IInv, RecordsPrecede, DecisionsAreOnRecord, request
<1> QED
  BY <1>2, <1>3, <1>4, <1>6 DEF IInv

LEMMA WriteFailsKeeps ==
    ASSUME IInv, NEW r \in Requests, WriteFails(r)
    PROVE  IInv'
<1>1. stage[r] # "tap"
  BY DEF WriteFails, IInv, StagesFollow
<1>2. /\ pc' \in [Requests -> Labels]
      /\ written' \in [Requests -> BOOLEAN]
      /\ reply' \in [Requests -> {"none", "ok", "error"}]
  BY DEF WriteFails, Goto, Reply, IInv, TypeOK, Labels
<1> QED
  BY <1>1, <1>2, GivenUp DEF WriteFails, Goto, Reply, IInv, TypeOK

LEMMA LogFailsKeeps ==
    ASSUME IInv, NEW r \in Requests, LogFails(r)
    PROVE  IInv'
<1>1. /\ pc' \in [Requests -> Labels]
      /\ written' \in [Requests -> BOOLEAN]
      /\ reply' \in [Requests -> {"none", "ok", "error"}]
  BY DEF LogFails, Goto, Reply, IInv, TypeOK, Labels
<1> QED
  BY <1>1, GivenUp DEF LogFails, Goto, Reply, IInv, TypeOK

LEMMA DieKeeps ==
    ASSUME IInv, NEW i, Die(i)
    PROVE  IInv'
<1>1. PICK W \in SUBSET {r \in Requests : at[r] = i /\ pc[r] = "write"} :
        written' = [r \in Requests |-> r \in W \/ written[r]]
  BY DEF Die
<1>2. /\ pc' \in [Requests -> Labels]
      /\ reply' \in [Requests -> {"none", "ok", "error"}]
  BY DEF Die, IInv, TypeOK, Labels
<1>3. /\ written' \in [Requests -> BOOLEAN]
      /\ \A r \in Requests : written'[r] => written[r] \/ pc[r] = "write"
  BY <1>1
<1> QED
  BY <1>2, <1>3, GivenUp DEF Die

LEMMA SettleKeeps ==
    ASSUME IInv, NEW r \in Requests, Settle(r)
    PROVE  IInv'
<1>1. /\ pc[r] = "orphan" /\ r \in Pending
      /\ pc' = [pc EXCEPT ![r] = "cut"]
      /\ UNCHANGED <<clock, request, call, written, reply, quiet>>
  BY DEF Settle, Goto, Pending
<1>2. InFlight' = InFlight \ {r} /\ Pending' = Pending \ {r}
  BY <1>1 DEF IInv, TypeOK, InFlight, Pending
<1>3. log' = log \/ log' = log \cup {Entry(r)}
  BY DEF Settle
<1>4. /\ log' \subseteq Entries
      /\ EntriesKnown' /\ PendingReferences' /\ ReferencesExist'
      /\ QuietKnown' /\ QuietAlone' /\ PendingChained' /\ QuietEntriesAreChained'
  BY <1>1, <1>2, <1>3, CallsEnd
<1>5. TypeOK'
  BY <1>1, <1>4 DEF IInv, TypeOK, Labels, request, call
<1>6. StagesFollow'
  BY <1>1, <1>2 DEF IInv, TypeOK, StagesFollow, request, call
<1>7. \A x \in Requests : HasEntry(x, "handler") => HasEntry(x, "handler")'
  BY <1>3 DEF HasEntry, CallOf
<1>8. RecordsPrecede' /\ DecisionsAreOnRecord'
  BY <1>1, <1>7 DEF IInv, TypeOK, RecordsPrecede, DecisionsAreOnRecord, request
<1> QED
  BY <1>4, <1>5, <1>6, <1>8 DEF IInv

(* Only time passes, or nothing happens. *)
LEMMA TimeKeeps ==
    ASSUME IInv, clock' \in 0 .. MaxClock,
           UNCHANGED <<request, pc, call, written, reply, log, quiet>>
    PROVE  IInv'
<1>1. TypeOK'
  BY DEF IInv, TypeOK, request, call
<1>2. InFlight' = InFlight /\ Pending' = Pending
  BY DEF InFlight, Pending
<1>3. /\ EntriesKnown' /\ PendingReferences' /\ ReferencesExist'
      /\ QuietKnown' /\ QuietAlone' /\ PendingChained' /\ QuietEntriesAreChained'
  BY <1>2, CallsEnd
<1>4. StagesFollow' /\ RecordsPrecede' /\ DecisionsAreOnRecord'
  BY <1>2 DEF IInv, StagesFollow, RecordsPrecede, DecisionsAreOnRecord,
              HasEntry, CallOf, request, call
<1> QED
  BY <1>1, <1>3, <1>4 DEF IInv

LEMMA Initially == Init => IInv
<1> SUFFICES ASSUME Init PROVE IInv
  OBVIOUS
<1>1. TypeOK
  BY ClockAssumption DEF Init, TypeOK, Labels
<1>2. InFlight = {} /\ Pending = {}
  BY DEF Init, InFlight, Pending
<1>3. StagesFollow /\ EntriesKnown /\ RecordsPrecede /\ DecisionsAreOnRecord
  BY <1>2 DEF Init, StagesFollow, EntriesKnown, RecordsPrecede, DecisionsAreOnRecord
<1>4. /\ PendingReferences /\ ReferencesExist /\ QuietKnown /\ QuietAlone
      /\ PendingChained /\ QuietEntriesAreChained
  BY <1>2 DEF Init, PendingReferences, ReferencesExist, QuietKnown, QuietAlone,
              PendingChained, QuietEntriesAreChained
<1> QED
  BY <1>1, <1>3, <1>4 DEF IInv

LEMMA Preserved == IInv /\ [Next]_vars => IInv'
<1> SUFFICES ASSUME IInv, [Next]_vars PROVE IInv'
  OBVIOUS
<1>1. CASE \E r \in Requests : Arrive(r) \/ Handle(r)
  <2>1. PICK r \in Requests : Arrive(r) \/ Handle(r)
    BY <1>1
  <2>2. ASSUME TapFails(r) PROVE IInv'
    BY <2>2, DieKeeps DEF TapFails
  <2> QED
    BY <2>1, <2>2, ArriveKeeps, WriteKeeps, WriteFailsKeeps, ReadLastKeeps,
       InsertKeeps, LogFailsKeeps, SettleKeeps DEF Handle
<1>2. CASE \E i \in Instances : Crash(i)
  BY <1>2, DieKeeps DEF Crash
<1>3. CASE Tick
  <2>1. clock' \in 0 .. MaxClock
    BY <1>3, ClockAssumption DEF Tick, IInv, TypeOK
  <2> QED
    BY <1>3, <2>1, TimeKeeps DEF Tick
<1>4. CASE UNCHANGED vars
  <2>1. clock' \in 0 .. MaxClock
    BY <1>4 DEF vars, IInv, TypeOK
  <2> QED
    BY <1>4, <2>1, TimeKeeps DEF vars
<1> QED
  BY <1>1, <1>2, <1>3, <1>4 DEF Next

-----------------------------------------------------------------------------
(* The theorems. *)

(* The inductive invariant holds: what is pending in the audit log refers  *)
(* to what is in it (audit-logger.service.ts:14-36).                       *)
THEOREM Inductive == Spec => []IInv
BY Initially, Preserved, PTL DEF Spec

(* Type correctness of the audit log and its callers. *)
THEOREM TypeCorrect == Spec => []TypeOK
<1>1. IInv => TypeOK
  BY DEF IInv
<1> QED
  BY <1>1, Inductive, PTL

(* An entry written while nobody else called log() is pointed at as soon   *)
(* as there is one that is not older, so that it cannot be taken out       *)
(* unnoticed (audit-logger.service.ts:21).                                 *)
THEOREM Chain == Spec => []QuietEntriesAreChained
<1>1. IInv => QuietEntriesAreChained
  BY DEF IInv
<1> QED
  BY <1>1, Inductive, PTL

(* Every previousHash but '0' is the hash of another entry of the table    *)
(* (audit-logger.service.ts:27).                                           *)
THEOREM References == Spec => []ReferencesExist
<1>1. IInv => ReferencesExist
  BY DEF IInv
<1> QED
  BY <1>1, Inductive, PTL

(* Consents that are saved and decisions that are answered have an entry   *)
(* (consent.service.ts:41, 100, 117).                                      *)
THEOREM OnRecord == Spec => []DecisionsAreOnRecord
<1>1. IInv => DecisionsAreOnRecord
  BY DEF IInv
<1> QED
  BY <1>1, Inductive, PTL
=============================================================================
