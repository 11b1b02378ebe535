---------------------------- MODULE RegistrySync ----------------------------
(***************************************************************************)
(* The participants of the Open Banking registry, as a RegistryService     *)
(* knows them.  A process has two: AuthModule provides its own, with an    *)
(* HTTP client that gives up after 10 seconds of silence, for the consent  *)
(* page; RegistryModule's client has no timeout, and its map answers the   *)
(* gateway.  One of them, of either kind, is what this module is about.    *)
(* They share the directory and the start of the application: Nest awaits  *)
(* the init hooks one after the other, the global RegistryModule's first,  *)
(* and listens when all have ended.  A hook loads three mock participants  *)
(* and awaits a first sync; from then on there is one every hour.          *)
(*                                                                         *)
(* A sync may outlast the hour and overlap the next one: without a timeout *)
(* when the directory is silent, with one when its answer trickles in.  An *)
(* entry is represented by its age: absent, the mock's, or the version of  *)
(* the directory it was copied from.                                       *)
(***************************************************************************)
EXTENDS Naturals

CONSTANTS Clients,     \* client ids
          Mock,        \* the client ids of mockParticipants
          Syncs,       \* bound: how many calls may overlap
          MaxVersion,  \* bound: the last version of the directory
          MaxRestarts  \* bound: how often the process is started again

Absent == 0
MockEntry == 1
FirstVersion == 2

Versions == FirstVersion .. MaxVersion

NoAnswer == 0

ASSUME MockAssumption == Mock \subseteq Clients
ASSUME BoundsAssumption ==
    MaxVersion \in Nat /\ MaxRestarts \in Nat /\ FirstVersion <= MaxVersion

VARIABLES timed,        \* the service is the one whose client has a timeout
          prompt,       \* and that timeout ends all its requests within the hour
          configured,   \* OPEN_BANKING_REGISTRY_URL is set
          listing,      \* the participants in each version of the directory
          published,    \* its present version
          ahead,        \* the hook Nest awaits before this one has not ended
          phase,        \* of onModuleInit
          participants, \* the map
          inFlight,     \* the calls of syncParticipants under way
          answer,       \* of a call: the version in the response, if any
          restarts,
          overlap,      \* history: calls that overlapped another one
          first         \* history: the version the first sync applied

setting == <<timed, prompt, configured, listing>>
calls == <<inFlight, answer, overlap>>
vars == <<setting, published, phase, participants, calls, restarts, ahead, first>>

Nobody == [c \in Clients |-> Absent]

Init ==
    /\ timed \in BOOLEAN
    /\ prompt \in BOOLEAN
    /\ prompt => timed
    /\ ahead = timed
    /\ configured \in BOOLEAN
    /\ listing \in [Versions -> SUBSET Clients]
    /\ published = FirstVersion
    /\ phase = "down"
    /\ participants = Nobody
    /\ inFlight = {}
    /\ answer = [s \in Syncs |-> NoAnswer]
    /\ restarts = 0
    /\ overlap = {}
    /\ first = NoAnswer

-----------------------------------------------------------------------------
(* RegistryService.                                                        *)

(* Mutant: a sync starts from an empty map.                                *)
AskCleared(s, map) ==
    /\ s \notin inFlight
    /\ inFlight' = inFlight \cup {s}
    /\ overlap' = IF inFlight = {} THEN overlap ELSE inFlight \cup {s}
    /\ participants' = Nobody
    /\ UNCHANGED answer

(* syncParticipants up to its await, the map being as given.               *)
Ask(s, map) ==
    /\ s \notin inFlight
    /\ inFlight' = inFlight \cup {s}
    /\ overlap' = IF inFlight = {} THEN overlap ELSE inFlight \cup {s}
    /\ participants' = map
    /\ UNCHANGED answer

(* Mutant: a map with the mock's keys only.                                *)
MockKeys == [c \in Mock |-> MockEntry]

MockMap == [c \in Clients |-> IF c \in Mock THEN MockEntry ELSE Absent]

(* The hook of the other service ends, if the directory lets it.           *)
OtherStarts ==
    /\ ahead
    /\ ahead' = FALSE
    /\ UNCHANGED <<setting, published, phase, participants, calls, restarts, first>>

(* onModuleInit: without a URL the first sync returns at once.             *)
OnModuleInit ==
    /\ phase = "down"
    /\ ~ahead
    /\ \/ /\ configured
          /\ phase' = "first"
          /\ \E s \in Syncs : Ask(s, MockMap)
       \/ /\ ~configured
          /\ phase' = "up"
          /\ participants' = MockMap
          /\ UNCHANGED calls
    /\ UNCHANGED <<setting, published, restarts, ahead, first>>

(* Mutant: the interval is shorter than the timeout.                       *)
MayOverlapAnyway == TRUE

(* Requests that end within the hour are alone.                            *)
MayOverlap == prompt => inFlight = {}

(* Mutant: refreshed until a first sync has succeeded.                     *)
IntervalUntilSynced ==
    /\ phase = "up"
    /\ configured
    /\ first = NoAnswer
    /\ MayOverlap
    /\ \E s \in Syncs : Ask(s, participants)
    /\ UNCHANGED <<setting, published, phase, restarts, ahead, first>>

Interval ==
    /\ phase = "up"
    /\ configured
    /\ MayOverlap
    /\ \E s \in Syncs : Ask(s, participants)
    /\ UNCHANGED <<setting, published, phase, restarts, ahead, first>>

(* A call of syncParticipants returns, and the first one ends onModuleInit *)
Return(s) ==
    /\ inFlight' = inFlight \ {s}
    /\ answer' = [answer EXCEPT ![s] = NoAnswer]
    /\ overlap' = overlap \ {s}
    /\ phase' = "up"
    /\ UNCHANGED <<setting, published, restarts, ahead>>

Answered(s) == s \in inFlight /\ answer[s] # NoAnswer

(* participants.set for each one in `listed`; no entry is ever deleted.    *)
SetAll(listed, v) ==
    participants' = [c \in Clients |-> IF c \in listed THEN v ELSE participants[c]]

Apply(s) ==
    /\ Answered(s)
    /\ SetAll(listing[answer[s]], answer[s])
    /\ first' = IF phase = "first" THEN answer[s] ELSE first
    /\ Return(s)

(* An element that is no participant makes forEach throw half way.         *)
ApplyInPart(s) ==
    /\ Answered(s)
    /\ \E part \in SUBSET listing[answer[s]] : SetAll(part, answer[s])
    /\ Return(s)
    /\ UNCHANGED first

(* Mutant: the error leaves onModuleInit, which never ends.                *)
SyncThrows(s) ==
    /\ s \in inFlight
    /\ inFlight' = inFlight \ {s}
    /\ answer' = [answer EXCEPT ![s] = NoAnswer]
    /\ overlap' = overlap \ {s}
    /\ UNCHANGED <<setting, published, phase, participants, restarts, ahead, first>>

(* No connection, an error status, or the timeout: the map is kept.        *)
SyncFails(s) ==
    /\ s \in inFlight
    /\ Return(s)
    /\ UNCHANGED <<participants, first>>

-----------------------------------------------------------------------------
(* The process and the directory.                                          *)

Restart ==
    /\ restarts < MaxRestarts
    /\ restarts' = restarts + 1
    /\ ahead' = timed
    /\ phase' = "down"
    /\ participants' = Nobody
    /\ inFlight' = {}
    /\ answer' = [s \in Syncs |-> NoAnswer]
    /\ overlap' = {}
    /\ first' = NoAnswer
    /\ UNCHANGED <<setting, published>>

DirectoryAnswers(s) ==
    /\ s \in inFlight
    /\ answer[s] = NoAnswer
    /\ answer' = [answer EXCEPT ![s] = published]
    /\ UNCHANGED <<setting, published, phase, participants, inFlight, overlap,
                   restarts, ahead, first>>

Publish ==
    /\ published < MaxVersion
    /\ published' = published + 1
    /\ UNCHANGED <<setting, phase, participants, calls, restarts, ahead, first>>

Next ==
    \/ OtherStarts \/ OnModuleInit \/ Interval
    \/ \E s \in Syncs : Apply(s) \/ ApplyInPart(s) \/ SyncFails(s) \/ DirectoryAnswers(s)
    \/ Restart \/ Publish

Spec == Init /\ [][Next]_vars

Ends(s) == Apply(s) \/ ApplyInPart(s) \/ SyncFails(s)

(* Nest calls the hook whose turn it is, the timer fires, and so does a    *)
(* timeout.  That the other service's hook ends is not assumed: its client *)
(* has no timeout.                                                         *)
FairSpec ==
    /\ Spec
    /\ WF_vars(OnModuleInit)
    /\ WF_vars(Interval)
    /\ \A s \in Syncs : WF_vars(prompt /\ Ends(s))

-----------------------------------------------------------------------------
(* Properties.                                                             *)

Entries == {Absent, MockEntry} \cup Versions

TypeOK ==
    /\ timed \in BOOLEAN
    /\ prompt \in BOOLEAN
    /\ ahead \in BOOLEAN
    /\ configured \in BOOLEAN
    /\ listing \in [Versions -> SUBSET Clients]
    /\ published \in Versions
    /\ phase \in {"down", "first", "up"}
    /\ participants \in [Clients -> Entries]
    /\ inFlight \subseteq Syncs
    /\ answer \in [Syncs -> {NoAnswer} \cup Versions]
    /\ restarts \in 0 .. MaxRestarts
    /\ overlap \subseteq inFlight
    /\ first \in {NoAnswer} \cup Versions

(* Once a process has synced, it serves what it knew then or something     *)
(* later, to the gateway as to the consent page: no failed, partial or     *)
(* overtaken sync takes a participant back behind the version the process  *)
(* started with (registry.service.ts:27-36, 73-97).                        *)
ServesDirectory ==
    first # NoAnswer => \A c \in listing[first] : participants[c] >= first

(* While a process runs, the entries of a service whose requests end in    *)
(* time, as the consent page's do but for an answer that trickles in,      *)
(* never get older.  Others may, but only by a sync that overlapped        *)
(* another one, and never back to the mock or to nothing                   *)
(* (registry.service.ts:35, auth.module.ts:36).                            *)
EntryKept(c) ==
    \/ participants'[c] >= participants[c]
    \/ /\ ~prompt
       /\ \E s \in overlap : s \notin inFlight'
       /\ participants'[c] >= FirstVersion

NeverOlder == [][phase' # "down" => \A c \in Clients : EntryKept(c)]_vars

(* What the start really depends on: that the directory, or the network,   *)
(* ends every request in some way, be it an error.                         *)
RequestsEnd == WF_vars(OtherStarts) /\ \A s \in Syncs : WF_vars(Ends(s))

(* The sync of the start is optional (registry.service.ts:31) in that it   *)
(* need not succeed: a refused, failed or malformed answer never keeps     *)
(* either service from starting, on the condition that every request ends. *)
(* A service whose own requests end by their timeout needs the condition   *)
(* for the other one only.  Without it this is false of the code: one      *)
(* silent directory holds up the untimed service's hook, and with it the   *)
(* timed one's and the whole application (registry.module.ts:9).           *)
StartsUp ==
    /\ RequestsEnd => (phase = "down" ~> phase = "up")
    /\ prompt /\ ~ahead /\ phase = "down" ~> phase = "up" \/ ahead

(* What CatchesUp has to assume of the world: the hook ahead ends, of      *)
(* syncs repeated for ever the directory answers some, and of its answers  *)
(* some can be read.                                                       *)
Reachable ==
    /\ WF_vars(OtherStarts)
    /\ \A s \in Syncs : SF_vars(DirectoryAnswers(s)) /\ SF_vars(Apply(s))

(* After the last change of the directory the service comes to know every  *)
(* participant as it is listed, whatever failed, was read in part or was   *)
(* overtaken before (registry.service.ts:35).                              *)
CatchesUp ==
    Reachable =>
        (configured /\ published = MaxVersion
            ~> \A c \in listing[MaxVersion] : participants[c] = MaxVersion)

-----------------------------------------------------------------------------
(* The inductive invariant.                                                *)

NotFromTheFuture ==
    /\ \A c \in Clients : participants[c] <= published
    /\ \A s \in Syncs : answer[s] <= published
    /\ first <= published

OnlyCallsAreAnswered == \A s \in Syncs \ inFlight : answer[s] = NoAnswer

(* Who is in flight with another one is known to have overlapped, and a    *)
(* request that ends in time is alone.                                     *)
OverlapsKnown ==
    /\ \A s, t \in inFlight : s # t => s \in overlap
    /\ prompt => overlap = {}

(* A hook waits for the one before it.                                     *)
StartsInOrder == ahead => timed /\ phase = "down"

(* Before the first sync is over there is no other.                        *)
FirstAlone ==
    /\ phase = "down" => inFlight = {} /\ participants = Nobody
    /\ phase # "up" => first = NoAnswer /\ overlap = {}

(* A sync that is alone brings nothing older than what is there; no sync   *)
(* brings anything older than the first one did.                           *)
AnswersAreNew ==
    \A s \in inFlight : answer[s] # NoAnswer =>
        /\ answer[s] >= first
        /\ s \notin overlap => \A c \in Clients : participants[c] <= answer[s]

(* What the proofs need: no answer can be overtaken but by a sync that     *)
(* overlapped it (registry.service.ts:73-92).                              *)
IInv ==
    /\ TypeOK
    /\ NotFromTheFuture
    /\ OnlyCallsAreAnswered
    /\ OverlapsKnown
    /\ StartsInOrder
    /\ FirstAlone
    /\ AnswersAreNew
    /\ ServesDirectory
=============================================================================
