------------------------------ MODULE AuditLog ------------------------------
(***************************************************************************)
(* AuditLogger.log and its callers.  An entry carries the hash of its own  *)
(* data and the hash of the entry that a SELECT ordered by timestamp found *)
(* one await before the INSERT.  createConsentRequest ("authorize") awaits *)
(* log() before it saves the consent, processConsent ("decide") after its  *)
(* writes; behind every handler LoggingInterceptor calls log() once more,  *)
(* in the turn of the event loop that answers, and awaits it in a callback *)
(* whose promise nobody looks at.                                          *)
(*                                                                         *)
(* Every await is a step.  An INSERT whose answer was lost may still reach *)
(* the table later.                                                        *)
(***************************************************************************)
EXTENDS Naturals, FiniteSets

CONSTANTS Requests,   \* HTTP requests that reach a handler
          Instances,  \* processes of the service
          Kinds,      \* what is requested, see KindsAssumption
          Genesis,    \* the string '0', previousHash of a first entry
          MaxClock,   \* bound: the last millisecond
          Faults      \* what may go wrong, see FaultsAssumption

Stages == {"handler", "tap"}

(* createHash covers the data of the call, its timestamp included, but not *)
(* previousHash: equal requests of one millisecond have equal hashes.      *)
Hashes == [kind : Kinds, stage : Stages, time : 0 .. MaxClock]

Entries == [request : Requests, kind : Kinds, stage : Stages,
            time : 0 .. MaxClock, previous : Hashes \cup {Genesis}]

ASSUME KindsAssumption == Kinds \subseteq {"authorize", "decide", "plain"}
ASSUME GenesisAssumption == Genesis \notin Hashes
ASSUME ClockAssumption == MaxClock \in Nat
ASSUME FaultsAssumption == Faults \subseteq {"db", "crash", "skew"}

VARIABLES clock,    \* Date.now()
          kind,     \* what a request asks for, once it has arrived
          at,       \* ... and the process that handles it
          pc,       \* the await at which its handling stands
          stage,    \* its current or latest call of log()
          time,     \* data.timestamp of that call
          last,     \* what getLastHash returned to it
          written,  \* the handler's own writes have taken effect
          reply,    \* the answer to the request
          log,      \* the table audit_logs
          quiet     \* history: calls of log(), as <<request, stage>>, that
                    \* overlapped no other one and began when every entry
                    \* in the table was older than their own timestamp

request == <<kind, at>>
call == <<stage, time, last>>
vars == <<clock, request, pc, call, written, reply, log, quiet>>

(* "orphan": nobody waits for the INSERT any more, but it may be under way *)
(* "cut": ended with its process, or without its entry.                    *)
Labels == {"idle", "write", "read", "insert", "orphan", "done", "cut"}

Init ==
    /\ clock = 0
    /\ kind \in [Requests -> Kinds]
    /\ at \in [Requests -> Instances]
    /\ pc = [r \in Requests |-> "idle"]
    /\ stage = [r \in Requests |-> "none"]
    /\ time = [r \in Requests |-> 0]
    /\ last = [r \in Requests |-> Genesis]
    /\ written = [r \in Requests |-> FALSE]
    /\ reply = [r \in Requests |-> "none"]
    /\ log = {}
    /\ quiet = {}

Goto(r, label) == pc' = [pc EXCEPT ![r] = label]

Reply(r, answer) == reply' = [reply EXCEPT ![r] = answer]

(* Mutant: the hash of the row as stored, previousHash included.           *)
HashOfRow(e) == e

Hash(e) == [kind |-> e.kind, stage |-> e.stage, time |-> e.time]

CallOf(e) == <<e.request, e.stage>>

HasEntry(r, s) == \E e \in log : CallOf(e) = <<r, s>>

InFlight == {r \in Requests : pc[r] \in {"read", "insert", "orphan"}}

Calling(S) == {<<r, stage[r]>> : r \in S}

(* new Date() in the caller; with "skew" its clock may be behind.          *)
Stamps == IF "skew" \in Faults THEN 0 .. clock ELSE {clock}

(* The call of log() up to its first await, the others being under way and *)
(* the table as given.                                                     *)
BeginLog(r, s, others, table) ==
    /\ Goto(r, "read")
    /\ stage' = [stage EXCEPT ![r] = s]
    /\ \E t \in Stamps :
        /\ time' = [time EXCEPT ![r] = t]
        /\ quiet' = (quiet \ Calling(others)) \cup
               IF others = {} /\ \A e \in table : e.time < t
               THEN {<<r, s>>} ELSE {}
    /\ UNCHANGED last

(* The response, and the tap of LoggingInterceptor.                        *)
Answer(r, table) ==
    /\ Reply(r, "ok")
    /\ BeginLog(r, "tap", InFlight \ {r}, table)

-----------------------------------------------------------------------------
(* The handlers.                                                           *)

Arrive(r) ==
    /\ pc[r] = "idle"
    /\ \/ /\ kind[r] = "authorize"
          /\ BeginLog(r, "handler", InFlight, log)
       \/ /\ kind[r] # "authorize"
          /\ Goto(r, "write")
          /\ UNCHANGED <<call, quiet>>
    /\ UNCHANGED <<clock, request, written, reply, log>>

(* Everything else the handler awaits: the save of the consent, and of the *)
(* code when it is approved.                                               *)
Write(r) ==
    /\ pc[r] = "write"
    /\ written' = [written EXCEPT ![r] = TRUE]
    /\ \/ /\ kind[r] = "decide"
          /\ BeginLog(r, "handler", InFlight, log)
          /\ UNCHANGED reply
       \/ /\ kind[r] # "decide"
          /\ Answer(r, log)
    /\ UNCHANGED <<clock, request, log>>

WriteFails(r) ==
    /\ "db" \in Faults
    /\ pc[r] = "write"
    /\ \E effect \in BOOLEAN : written' = [written EXCEPT ![r] = effect]
    /\ Goto(r, "done")
    /\ Reply(r, "error")
    /\ UNCHANGED <<clock, request, call, log, quiet>>

-----------------------------------------------------------------------------
(* log() from its first await on.                                          *)

(* Mutant: the commented-out query, ordered by an id that is a uuid.       *)
AnyEntry == log

LastEntries == {e \in log : \A f \in log : f.time <= e.time}

(* Mutant: the latest hash computed, kept in memory.                       *)
ReadLastComputed(r) ==
    /\ pc[r] = "read"
    /\ Goto(r, "insert")
    /\ \E s \in InFlight :
        last' = [last EXCEPT ![r] =
                    [kind |-> kind[s], stage |-> stage[s], time |-> time[s]]]
    /\ UNCHANGED <<clock, request, stage, time, written, reply, log, quiet>>

(* getLastHash: an entry of the greatest timestamp, any one of several.    *)
ReadLast(r) ==
    /\ pc[r] = "read"
    /\ Goto(r, "insert")
    /\ \E h \in IF log = {} THEN {Genesis} ELSE {Hash(e) : e \in LastEntries} :
        last' = [last EXCEPT ![r] = h]
    /\ UNCHANGED <<clock, request, stage, time, written, reply, log, quiet>>

Entry(r) == [request |-> r, kind |-> kind[r], stage |-> stage[r],
             time |-> time[r], previous |-> last[r]]

(* auditRepository.save; backupToColdStorage is empty.  Then the caller    *)
(* goes on.                                                                *)
Insert(r) ==
    /\ pc[r] = "insert"
    /\ log' = log \cup {Entry(r)}
    /\ \/ /\ stage[r] = "handler"
          /\ kind[r] = "authorize"
          /\ Goto(r, "write")
          /\ UNCHANGED <<call, reply, quiet>>
       \/ /\ stage[r] = "handler"
          /\ kind[r] # "authorize"
          /\ Answer(r, log')
       \/ /\ stage[r] = "tap"
          /\ Goto(r, "done")
          /\ UNCHANGED <<call, reply, quiet>>
    /\ UNCHANGED <<clock, request, written>>

(* Mutant: the handlers do not await log().                                *)
LogFailsUnseen(r) ==
    /\ "db" \in Faults
    /\ pc[r] \in {"read", "insert"}
    /\ stage[r] = "handler"
    /\ \/ /\ kind[r] = "authorize"
          /\ Goto(r, "write")
          /\ UNCHANGED <<call, reply, quiet>>
       \/ /\ kind[r] # "authorize"
          /\ Answer(r, log)
    /\ UNCHANGED <<clock, request, written, log>>

(* An await of log() rejects: the handler's caller gets an error ...       *)
LogFails(r) ==
    /\ "db" \in Faults
    /\ pc[r] \in {"read", "insert"}
    /\ stage[r] = "handler"
    /\ Goto(r, IF pc[r] = "insert" THEN "orphan" ELSE "done")
    /\ Reply(r, "error")
    /\ UNCHANGED <<clock, request, call, written, log, quiet>>

(* A process dies, with all it was handling.                               *)
Die(i) ==
    /\ pc' = [r \in Requests |->
                 IF at[r] # i \/ pc[r] \notin {"write", "read", "insert"} THEN pc[r]
                 ELSE IF pc[r] = "insert" THEN "orphan" ELSE "cut"]
    /\ \E W \in SUBSET {r \in Requests : at[r] = i /\ pc[r] = "write"} :
        written' = [r \in Requests |-> r \in W \/ written[r]]
    /\ UNCHANGED <<clock, request, call, reply, log, quiet>>

(* Mutant: the tap catches the error and drops it.                         *)
TapFailsSilently(r) ==
    /\ "db" \in Faults
    /\ pc[r] \in {"read", "insert"}
    /\ stage[r] = "tap"
    /\ Goto(r, "done")
    /\ UNCHANGED <<clock, request, call, written, reply, log, quiet>>

(* ... and the tap's promise is rejected unhandled, which ends the process *)
(* (Node from version 15 on).                                              *)
TapFails(r) ==
    /\ "db" \in Faults
    /\ pc[r] \in {"read", "insert"}
    /\ stage[r] = "tap"
    /\ Die(at[r])

(* An INSERT nobody waits for reaches the table, or it does not.           *)
Settle(r) ==
    /\ pc[r] = "orphan"
    /\ Goto(r, "cut")
    /\ log' \in {log, log \cup {Entry(r)}}
    /\ UNCHANGED <<clock, request, call, written, reply, quiet>>

Crash(i) ==
    /\ "crash" \in Faults
    /\ Die(i)

Tick ==
    /\ clock < MaxClock
    /\ clock' = clock + 1
    /\ UNCHANGED <<request, pc, call, written, reply, log, quiet>>

(* What the event loop and the database do for a request that is there.    *)
Handle(r) ==
    \/ Write(r) \/ WriteFails(r)
    \/ ReadLast(r) \/ Insert(r) \/ LogFails(r) \/ TapFails(r)
    \/ Settle(r)

Next ==
    \/ \E r \in Requests : Arrive(r) \/ Handle(r)
    \/ \E i \in Instances : Crash(i)
    \/ Tick

Spec == Init /\ [][Next]_vars

(* An await that is answered is resumed; clients and clocks need not go on *)
FairSpec == Spec /\ \A r \in Requests : WF_vars(Handle(r))

-----------------------------------------------------------------------------
(* Properties.                                                             *)

TypeOK ==
    /\ clock \in 0 .. MaxClock
    /\ kind \in [Requests -> Kinds]
    /\ at \in [Requests -> Instances]
    /\ pc \in [Requests -> Labels]
    /\ stage \in [Requests -> Stages \cup {"none"}]
    /\ time \in [Requests -> 0 .. MaxClock]
    /\ last \in [Requests -> Hashes \cup {Genesis}]
    /\ written \in [Requests -> BOOLEAN]
    /\ reply \in [Requests -> {"none", "ok", "error"}]
    /\ log \subseteq Entries
    /\ quiet \subseteq Requests \X Stages

(* "Create hash for tamper detection" (audit-logger.service.ts:21): what   *)
(* the chain still gives, forks, equal timestamps, late INSERTs and clocks *)
(* that differ notwithstanding: an entry whose log() overlapped no other   *)
(* one is pointed at by another entry as soon as there is one that is not  *)
(* older, so that its removal leaves a hash that belongs to nothing.       *)
Chained(e) ==
    (\E f \in log \ {e} : f.time >= e.time)
        => \E f \in log \ {e} : f.previous = Hash(e)

QuietEntriesAreChained ==
    \A e \in log : CallOf(e) \in quiet => Chained(e)

(* And no false alarm: whatever was refused, lost or cut off, a            *)
(* previousHash other than '0' is the hash of another entry in the table.  *)
ReferencesExist ==
    \A e \in log : e.previous = Genesis \/ \E f \in log \ {e} : Hash(f) = e.previous

(* No consent is saved by createConsentRequest, and no decision answered   *)
(* by processConsent, without its entry in the table, whichever await      *)
(* rejects and whenever a process dies (consent.service.ts:41, 100, 117).  *)
DecisionsAreOnRecord ==
    \A r \in Requests :
        (\/ kind[r] = "authorize" /\ written[r]
         \/ kind[r] # "plain" /\ reply[r] = "ok")
            => HasEntry(r, "handler")

(* An answer of success gets its own entry from the interceptor, unless    *)
(* the process ends: a record that cannot be written is not dropped        *)
(* (logging.interceptor.ts:19).                                            *)
SuccessIsAudited ==
    \A r \in Requests : reply[r] = "ok" ~> HasEntry(r, "tap") \/ pc[r] = "cut"

-----------------------------------------------------------------------------
(* The inductive invariant.                                                *)

(* A request calls log() from its handler, then from the tap.              *)
Reached(r, s) == s = stage[r] \/ (s = "handler" /\ stage[r] = "tap")

StagesFollow ==
    \A r \in Requests :
        /\ pc[r] = "idle" => stage[r] = "none" /\ ~written[r]
        /\ pc[r] = "write" =>
              stage[r] = IF kind[r] = "authorize" THEN "handler" ELSE "none"
        /\ r \in InFlight => stage[r] \in Stages
        /\ stage[r] = "handler" => kind[r] # "plain"
        /\ reply[r] = "ok" <=> stage[r] = "tap"

(* Entries are those of calls that are over.                               *)
EntriesKnown ==
    \A e \in log :
        /\ Reached(e.request, e.stage)
        /\ e.stage = stage[e.request] => e.request \notin InFlight

RecordsPrecede ==
    \A r \in Requests :
        kind[r] = "authorize" /\ pc[r] = "write" => HasEntry(r, "handler")

Pending == {r \in Requests : pc[r] \in {"insert", "orphan"}}

(* What a pending INSERT refers to is in the table.                        *)
PendingReferences ==
    \A r \in Pending : last[r] = Genesis \/ \E f \in log : Hash(f) = last[r]

QuietKnown == \A c \in quiet : Reached(c[1], c[2])

QuietAlone ==
    \A r \in InFlight : <<r, stage[r]>> \in quiet
        => InFlight = {r} /\ \A e \in log : e.time < time[r]

(* Whoever read the table with a quiet entry in it points at that entry,   *)
(* or need not.                                                            *)
PendingChained ==
    \A e \in log, r \in Pending : CallOf(e) \in quiet
        => \/ last[r] = Hash(e)
           \/ \E f \in log \ {e} : f.previous = Hash(e)

(* The entries and the calls under way as the proofs need them: what is    *)
(* written down is over, what is pending refers to what is written down,   *)
(* and a quiet call is alone until its entry is there (audit-logger        *)
(* .service.ts:14-36).                                                     *)
IInv ==
    /\ TypeOK
    /\ StagesFollow
    /\ EntriesKnown
    /\ RecordsPrecede
    /\ DecisionsAreOnRecord
    /\ PendingReferences
    /\ ReferencesExist
    /\ QuietKnown
    /\ QuietAlone
    /\ PendingChained
    /\ QuietEntriesAreChained
=============================================================================
