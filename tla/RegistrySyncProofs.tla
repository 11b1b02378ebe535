------------------------- MODULE RegistrySyncProofs -------------------------
(* What TLAPS proves of RegistrySync: for any participants, any number of  *)
(* overlapping syncs, versions and restarts.                               *)
EXTENDS RegistrySync, TLAPS

(* The entries are numbers, and Versions are those from 2 on. *)
LEMMA Numbers ==
    ASSUME TypeOK
    PROVE  /\ \A c \in Clients : participants[c] \in Nat
           /\ \A s \in Syncs : answer[s] \in Nat
           /\ \A s \in Syncs : answer[s] # NoAnswer => answer[s] >= FirstVersion
           /\ published \in Nat /\ published >= FirstVersion
           /\ first \in Nat
BY BoundsAssumption
   DEF TypeOK, Entries, Versions, NoAnswer, Absent, MockEntry, FirstVersion

LEMMA Initially == Init => IInv
<1> SUFFICES ASSUME Init PROVE IInv
  OBVIOUS
<1>1. TypeOK
  BY BoundsAssumption
     DEF Init, TypeOK, Nobody, Entries, Versions, FirstVersion
<1>2. /\ NotFromTheFuture /\ OnlyCallsAreAnswered /\ OverlapsKnown /\ StartsInOrder /\ FirstAlone /\ AnswersAreNew
      /\ ServesDirectory
  BY DEF Init, NotFromTheFuture, OnlyCallsAreAnswered, OverlapsKnown, StartsInOrder, FirstAlone, AnswersAreNew,
         ServesDirectory, Nobody, NoAnswer, Absent, FirstVersion
<1> QED
  BY <1>1, <1>2 DEF IInv

(* A call that begins. *)
LEMMA AskKeeps ==
    ASSUME IInv, NEW s \in Syncs, NEW map \in [Clients -> Entries], Ask(s, map),
           UNCHANGED <<setting, published, restarts, ahead, first>>,
           phase' \in {"first", "up"}, ~ahead,
           \/ phase = "down" /\ \A c \in Clients : map[c] <= published
           \/ phase = "up" /\ phase' = "up" /\ map = participants /\ MayOverlap
    PROVE  IInv'
<1>1. TypeOK'
  BY DEF Ask, IInv, TypeOK, setting
<1>2. NotFromTheFuture'
  BY DEF Ask, IInv, NotFromTheFuture
<1>9. OnlyCallsAreAnswered'
  BY DEF Ask, IInv, OnlyCallsAreAnswered
<1>3. /\ inFlight' = inFlight \cup {s} /\ s \notin inFlight
      /\ answer' = answer /\ participants' = map
      /\ overlap' = IF inFlight = {} THEN overlap ELSE inFlight \cup {s}
      /\ timed' = timed /\ prompt' = prompt /\ listing' = listing
  BY DEF Ask, setting
<1>4. phase = "down" => inFlight = {} /\ first = NoAnswer /\ overlap = {}
  BY DEF IInv, FirstAlone
<1>5. OverlapsKnown'
  BY <1>3, <1>4 DEF IInv, OverlapsKnown, MayOverlap
<1>6. StartsInOrder' /\ FirstAlone'
  BY <1>3, <1>4 DEF IInv, StartsInOrder, FirstAlone
<1>7. ServesDirectory'
  BY <1>3, <1>4 DEF IInv, ServesDirectory
<1>8. AnswersAreNew'
  <2> SUFFICES ASSUME NEW t \in inFlight', answer[t] # NoAnswer
               PROVE  /\ answer[t] >= first
                      /\ t \notin overlap' => \A c \in Clients : map[c] <= answer[t]
    BY <1>3 DEF AnswersAreNew
  <2>1. answer[s] = NoAnswer
    BY <1>3 DEF IInv, OnlyCallsAreAnswered
  <2>2. t \in inFlight /\ t \in overlap'
    BY <1>3, <2>1
  <2> QED
    BY <2>2 DEF IInv, AnswersAreNew
<1> QED
  BY <1>1, <1>2, <1>5, <1>6, <1>7, <1>8, <1>9 DEF IInv

(* A call that returns, having copied nothing, some entries or all. *)
LEMMA ReturnKeeps ==
    ASSUME IInv, NEW s \in inFlight, Return(s),
           participants' \in [Clients -> Entries],
           \A c \in Clients :
               \/ participants'[c] = participants[c]
               \/ answer[s] # NoAnswer /\ participants'[c] = answer[s],
           \/ first' = first
           \/ /\ phase = "first" /\ answer[s] # NoAnswer /\ first' = answer[s]
              /\ \A c \in listing[answer[s]] : participants'[c] = answer[s]
    PROVE  IInv'
<1>1. /\ inFlight' = inFlight \ {s} /\ overlap' = overlap \ {s} /\ phase' = "up"
      /\ answer' = [answer EXCEPT ![s] = NoAnswer]
      /\ timed' = timed /\ prompt' = prompt /\ listing' = listing /\ configured' = configured
      /\ published' = published /\ restarts' = restarts /\ ahead' = ahead
  BY DEF Return, setting
<1>2. s \in Syncs /\ answer[s] \in {NoAnswer} \cup Versions
  BY DEF IInv, TypeOK
<1>3. TypeOK'
  BY <1>1, <1>2 DEF IInv, TypeOK
<1>4. NotFromTheFuture'
  BY <1>1, <1>2, Numbers DEF IInv, TypeOK, NotFromTheFuture, NoAnswer
<1>5. OnlyCallsAreAnswered'
  BY <1>1, <1>2 DEF IInv, TypeOK, OnlyCallsAreAnswered
<1>6. OverlapsKnown' /\ StartsInOrder' /\ FirstAlone'
  BY <1>1 DEF IInv, OverlapsKnown, StartsInOrder, FirstAlone
<1>7. \A t \in inFlight' : t \in overlap /\ t # s /\ phase # "first"
  BY <1>1 DEF IInv, OverlapsKnown, StartsInOrder, FirstAlone
<1>8. AnswersAreNew'
  <2> SUFFICES ASSUME NEW t \in inFlight', answer'[t] # NoAnswer
               PROVE  answer'[t] >= first' /\ t \in overlap'
    BY DEF AnswersAreNew
  <2>1. t \in inFlight /\ t \in Syncs /\ answer'[t] = answer[t]
    BY <1>1, <1>7 DEF IInv, TypeOK
  <2>2. first' = first /\ t \in overlap'
    BY <1>1, <1>7
  <2> QED
    BY <2>1, <2>2 DEF IInv, AnswersAreNew
<1>9. ServesDirectory'
  <2>1. CASE first' = first
    <3> SUFFICES ASSUME first # NoAnswer, NEW c \in listing[first]
                 PROVE  participants'[c] >= first
      BY <1>1, <2>1 DEF ServesDirectory
    <3>1. c \in Clients
      BY DEF IInv, TypeOK
    <3>2. participants[c] >= first
      BY DEF IInv, ServesDirectory
    <3>3. answer[s] # NoAnswer => answer[s] >= first
      BY DEF IInv, AnswersAreNew
    <3> QED
      BY <3>1, <3>2, <3>3
  <2>2. CASE first' # first
    BY <1>1, <1>2, <2>2, BoundsAssumption
       DEF ServesDirectory, NoAnswer, Versions, FirstVersion
  <2> QED
    BY <2>1, <2>2
<1> QED
  BY <1>3, <1>4, <1>5, <1>6, <1>8, <1>9 DEF IInv

LEMMA InitKeeps ==
    ASSUME IInv, OnModuleInit
    PROVE  IInv'
<1>1. MockMap \in [Clients -> Entries] /\ \A c \in Clients : MockMap[c] <= published
  BY Numbers DEF IInv, MockMap, Entries, Absent, MockEntry, FirstVersion
<1>2. CASE configured
  BY <1>1, <1>2, AskKeeps DEF OnModuleInit
<1>3. CASE ~configured
  <2>1. /\ phase = "down" /\ phase' = "up" /\ participants' = MockMap /\ ~ahead
        /\ UNCHANGED <<setting, published, restarts, ahead, first, inFlight, answer, overlap>>
    BY <1>3 DEF OnModuleInit, calls
  <2>2. inFlight = {} /\ first = NoAnswer /\ overlap = {}
    BY <2>1 DEF IInv, FirstAlone
  <2>3. TypeOK'
    BY <1>1, <2>1 DEF IInv, TypeOK, setting
  <2>4. NotFromTheFuture' /\ OnlyCallsAreAnswered'
    BY <1>1, <2>1 DEF IInv, NotFromTheFuture, OnlyCallsAreAnswered
  <2>5. OverlapsKnown' /\ StartsInOrder' /\ FirstAlone' /\ AnswersAreNew' /\ ServesDirectory'
    BY <2>1, <2>2 DEF OverlapsKnown, StartsInOrder, FirstAlone, AnswersAreNew, ServesDirectory
  <2> QED
    BY <2>3, <2>4, <2>5 DEF IInv
<1> QED
  BY <1>2, <1>3

LEMMA OtherStartsKeeps ==
    ASSUME IInv, OtherStarts
    PROVE  IInv'
BY DEF OtherStarts, setting, calls, IInv, TypeOK, NotFromTheFuture,
       OnlyCallsAreAnswered, OverlapsKnown, StartsInOrder, FirstAlone,
       AnswersAreNew, ServesDirectory

LEMMA IntervalKeeps ==
    ASSUME IInv, Interval
    PROVE  IInv'
<1>1. participants \in [Clients -> Entries]
  BY DEF IInv, TypeOK
<1> QED
  BY <1>1, AskKeeps DEF Interval, IInv, StartsInOrder

LEMMA SyncKeeps ==
    ASSUME IInv, NEW s \in Syncs, Apply(s) \/ ApplyInPart(s) \/ SyncFails(s)
    PROVE  /\ IInv'
           /\ s \in inFlight /\ s \notin inFlight'
           /\ \A c \in Clients :
                 \/ participants'[c] = participants[c]
                 \/ answer[s] # NoAnswer /\ participants'[c] = answer[s]
<1>1. /\ s \in inFlight /\ Return(s)
  BY DEF Apply, ApplyInPart, SyncFails, Answered
<1>2. /\ participants \in [Clients -> Entries]
      /\ answer[s] # NoAnswer => answer[s] \in Entries /\ listing[answer[s]] \subseteq Clients
  BY DEF IInv, TypeOK, Entries
<1>3. CASE Apply(s)
  BY <1>1, <1>2, <1>3, ReturnKeeps DEF Apply, Answered, SetAll, Return
<1>4. CASE ApplyInPart(s)
  <2>1. PICK part \in SUBSET listing[answer[s]] :
           participants' = [c \in Clients |-> IF c \in part THEN answer[s] ELSE participants[c]]
    BY <1>4 DEF ApplyInPart, SetAll
  <2>2. answer[s] # NoAnswer /\ first' = first
    BY <1>4 DEF ApplyInPart, Answered
  <2>3. /\ participants' \in [Clients -> Entries]
        /\ \A c \in Clients :
              participants'[c] = participants[c] \/ participants'[c] = answer[s]
    BY <1>2, <2>1, <2>2
  <2> QED
    BY <1>1, <2>2, <2>3, ReturnKeeps DEF Return
<1>5. CASE SyncFails(s)
  BY <1>1, <1>2, <1>5, ReturnKeeps DEF SyncFails, Return
<1> QED
  BY <1>3, <1>4, <1>5

LEMMA DirectoryAnswersKeeps ==
    ASSUME IInv, NEW s \in Syncs, DirectoryAnswers(s)
    PROVE  IInv'
<1>1. /\ s \in inFlight
      /\ answer' = [answer EXCEPT ![s] = published]
      /\ UNCHANGED <<timed, prompt, configured, listing, published, phase, participants,
                     inFlight, overlap, restarts, ahead, first>>
  BY DEF DirectoryAnswers, setting
<1>2. published \in Versions
  BY DEF IInv, TypeOK
<1>3. TypeOK'
  BY <1>1, <1>2 DEF IInv, TypeOK
<1>4. NotFromTheFuture' /\ OnlyCallsAreAnswered'
  BY <1>1, Numbers DEF IInv, TypeOK, NotFromTheFuture, OnlyCallsAreAnswered
<1>5. first <= published
  BY DEF IInv, NotFromTheFuture
<1>6. AnswersAreNew'
  BY <1>1, <1>5, Numbers DEF IInv, TypeOK, AnswersAreNew, NotFromTheFuture
<1>7. OverlapsKnown' /\ StartsInOrder' /\ FirstAlone' /\ ServesDirectory'
  BY <1>1 DEF IInv, OverlapsKnown, StartsInOrder, FirstAlone, ServesDirectory
<1> QED
  BY <1>3, <1>4, <1>6, <1>7 DEF IInv

LEMMA RestartKeeps ==
    ASSUME IInv, Restart
    PROVE  IInv'
<1>1. TypeOK'
  BY BoundsAssumption DEF Restart, IInv, TypeOK, setting, Nobody, Entries
<1>2. NotFromTheFuture' /\ OnlyCallsAreAnswered'
  BY Numbers DEF Restart, IInv, NotFromTheFuture, OnlyCallsAreAnswered, Nobody,
                 NoAnswer, Absent
<1>3. OverlapsKnown' /\ StartsInOrder' /\ FirstAlone' /\ AnswersAreNew' /\ ServesDirectory'
  BY DEF Restart, setting, OverlapsKnown, StartsInOrder, FirstAlone, AnswersAreNew, ServesDirectory
<1> QED
  BY <1>1, <1>2, <1>3 DEF IInv

LEMMA PublishKeeps ==
    ASSUME IInv, Publish
    PROVE  IInv'
<1>1. TypeOK'
  BY BoundsAssumption DEF Publish, IInv, TypeOK, setting, calls, Versions, FirstVersion
<1>2. NotFromTheFuture'
  BY Numbers DEF Publish, IInv, NotFromTheFuture, calls
<1>3. /\ OnlyCallsAreAnswered' /\ OverlapsKnown' /\ StartsInOrder' /\ FirstAlone' /\ AnswersAreNew'
      /\ ServesDirectory'
  BY DEF Publish, IInv, OnlyCallsAreAnswered, OverlapsKnown, StartsInOrder, FirstAlone, AnswersAreNew,
         ServesDirectory, setting, calls
<1> QED
  BY <1>1, <1>2, <1>3 DEF IInv

LEMMA StutterKeeps ==
    ASSUME IInv, UNCHANGED vars
    PROVE  IInv'
BY DEF vars, setting, calls, IInv, TypeOK, NotFromTheFuture, OnlyCallsAreAnswered,
       OverlapsKnown, StartsInOrder, FirstAlone, AnswersAreNew, ServesDirectory

LEMMA Preserved == IInv /\ [Next]_vars => IInv'
BY OtherStartsKeeps, InitKeeps, IntervalKeeps, SyncKeeps, DirectoryAnswersKeeps, RestartKeeps,
   PublishKeeps, StutterKeeps DEF Next

(* What a step does to the map of a process that goes on. *)
LEMMA StepKeepsEntries ==
    ASSUME IInv, [Next]_vars, phase' # "down", NEW c \in Clients
    PROVE  EntryKept(c)
<1>1. participants[c] \in Nat
  BY Numbers DEF IInv
<1>2. CASE participants' = participants
  BY <1>1, <1>2 DEF EntryKept
<1>3. CASE OnModuleInit
  <2>1. participants' = MockMap
    BY <1>3 DEF OnModuleInit, Ask
  <2>2. participants[c] = Absent
    BY <1>3 DEF OnModuleInit, IInv, StartsInOrder, FirstAlone, Nobody
  <2> QED
    BY <2>1, <2>2 DEF EntryKept, MockMap, Absent, MockEntry
<1>4. ASSUME NEW s \in Syncs, Apply(s) \/ ApplyInPart(s) \/ SyncFails(s)
      PROVE  EntryKept(c)
  <2>1. /\ s \in inFlight /\ s \notin inFlight'
        /\ \/ participants'[c] = participants[c]
           \/ answer[s] # NoAnswer /\ participants'[c] = answer[s]
    BY <1>4, SyncKeeps
  <2>2. CASE participants'[c] = participants[c]
    BY <1>1, <2>2 DEF EntryKept
  <2>3. CASE answer[s] # NoAnswer /\ participants'[c] = answer[s] /\ s \notin overlap
    BY <1>1, <2>1, <2>3, Numbers DEF IInv, AnswersAreNew, EntryKept
  <2>4. CASE answer[s] # NoAnswer /\ participants'[c] = answer[s] /\ s \in overlap
    <3>1. participants'[c] >= FirstVersion
      BY <2>4, Numbers DEF IInv
    <3>2. ~prompt
      BY <2>4 DEF IInv, OverlapsKnown
    <3> QED
      BY <2>1, <2>4, <3>1, <3>2 DEF EntryKept
  <2> QED
    BY <2>1, <2>2, <2>3, <2>4
<1>5. CASE OtherStarts \/ Interval
  BY <1>2, <1>5 DEF OtherStarts, Interval, Ask
<1>6. ~Restart
  BY DEF Restart
<1>7. CASE \E s \in Syncs : DirectoryAnswers(s)
  BY <1>2, <1>7 DEF DirectoryAnswers
<1>8. CASE Publish \/ UNCHANGED vars
  BY <1>2, <1>8 DEF Publish, vars
<1> QED
  BY <1>3, <1>4, <1>5, <1>6, <1>7, <1>8 DEF Next

-----------------------------------------------------------------------------
(* The theorems. *)

(* The inductive invariant holds: an answer is not overtaken but by a sync *)
(* that overlapped it (registry.service.ts:74-97).                         *)
THEOREM Inductive == Spec => []IInv
BY Initially, Preserved, PTL DEF Spec

(* Type correctness of the registry. *)
THEOREM TypeCorrect == Spec => []TypeOK
<1>1. IInv => TypeOK
  BY DEF IInv
<1> QED
  BY <1>1, Inductive, PTL

(* The map never falls back behind the first sync that succeeded           *)
(* (registry.service.ts:27-36, 80-97).                                     *)
THEOREM Serving == Spec => []ServesDirectory
<1>1. IInv => ServesDirectory
  BY DEF IInv
<1> QED
  BY <1>1, Inductive, PTL

(* Entries get older only by syncs that overlapped, which requests that    *)
(* end within the hour do not (registry.service.ts:35, auth.module.ts:36). *)
THEOREM Monotone == Spec => NeverOlder
<1>1. IInv /\ [Next]_vars => [phase' # "down" => \A c \in Clients : EntryKept(c)]_vars
  BY StepKeepsEntries
<1> QED
  BY <1>1, Inductive, PTL DEF Spec, NeverOlder
=============================================================================
