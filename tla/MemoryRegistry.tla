--------------------------- MODULE MemoryRegistry ---------------------------
(***************************************************************************)
(* The in-memory service registry (pkg/discovery/memory), the instances    *)
(* that register with it and report their health, and the clients that     *)
(* look a service up and pick one of its addresses                         *)
(* (internal/grpcutil.ServiceConnection).                                  *)
(*                                                                         *)
(* A sync.RWMutex makes a write one step.  A lookup holds the read lock    *)
(* while it walks the instances of a service, in the order the Go map      *)
(* gives, and reads the clock again for each of them: time may pass inside *)
(* it.  The clock is counted in seconds; a record keeps the seconds since  *)
(* it was last active, up to the first second at which it is stale.        *)
(*                                                                         *)
(* An instance has one service and one address for its life, and is not    *)
(* restarted under the same id (GenerateInstanceID).                       *)
(***************************************************************************)
EXTENDS Naturals

CONSTANTS Service, Instance, Client,
          ServiceOf,     \* the service an instance registers for
          TTL,           \* seconds after which a silent record is stale
          MaxSilence,    \* seconds an instance may go without reporting
          NoRecord       \* the value of an entry that is absent

ASSUME RegistryConstantsOK ==
  /\ ServiceOf \in [Instance -> Service]
  /\ TTL \in Nat
  /\ MaxSilence \in 0..TTL    \* the heartbeat keeps up with the TTL
  /\ NoRecord \notin 0..(TTL + 1)

Stale == TTL + 1
Age   == 0..Stale

VARIABLES
  serviceAddrs,  \* the record of each instance: the age of its lastActive
  proc,          \* the instance's process
  waiting,       \* the processes blocked in Lock()
  quiet,         \* seconds since a process that is up registered or reported
  pc,            \* where each client is in its lookup
  asked,         \* the service it looks up
  todo,          \* the records its loop has yet to visit
  answer,        \* what its last lookup returned
  before         \* history: the instances active when its lookup began

vars == <<serviceAddrs, proc, waiting, quiet, pc, asked, todo, answer, before>>

registry == <<serviceAddrs, proc, waiting, quiet>>
client   == <<pc, asked, todo, answer, before>>

Registered    == {i \in Instance : serviceAddrs[i] # NoRecord}
Records(s)    == {i \in Registered : ServiceOf[i] = s}

\* Mutants: exactly TTL seconds is stale; every record is active.
IsActiveStrict(i) == serviceAddrs[i] # NoRecord /\ serviceAddrs[i] < TTL
IsActiveAlways(i) == serviceAddrs[i] # NoRecord

\* i.lastActive.Before(now - TTL), negated: exactly TTL seconds is active.
IsActive(i)   == serviceAddrs[i] # NoRecord /\ serviceAddrs[i] <= TTL
Active        == {i \in Instance : IsActive(i)}

Answer == [status : {"none", "notFound", "ok"}, addrs : SUBSET Instance]

Init ==
  /\ serviceAddrs = [i \in Instance |-> NoRecord]
  /\ proc   = [i \in Instance |-> "new"]
  /\ waiting = {}
  /\ quiet  = [i \in Instance |-> 0]
  /\ pc     = [c \in Client |-> "idle"]
  /\ asked  \in [Client -> Service]
  /\ todo   = [c \in Client |-> {}]
  /\ answer = [c \in Client |-> [status |-> "none", addrs |-> {}]]
  /\ before = [c \in Client |-> {}]

NoReader == \A c \in Client : pc[c] # "scan"

\* Mutant: the write does not take the lock.
WriteUnlocked(i) == waiting' = waiting \ {i}

\* Lock() and Unlock() around a write: it needs every lookup to have ended.
WriteLocked(i) == NoReader /\ waiting' = waiting \ {i}

Touch(i) == /\ serviceAddrs' = [serviceAddrs EXCEPT ![i] = 0]
            /\ quiet' = [quiet EXCEPT ![i] = 0]

(***************************************************************************)
(* Instances                                                               *)
(***************************************************************************)

\* A write finds the read lock held: from now on new lookups wait for it.
Block(i) ==
  /\ proc[i] # "dead" /\ i \notin waiting /\ ~NoReader
  /\ waiting' = waiting \cup {i}
  /\ UNCHANGED <<serviceAddrs, proc, quiet, client>>

Register(i) ==
  /\ proc[i] = "new" /\ WriteLocked(i)
  /\ Touch(i)
  /\ proc' = [proc EXCEPT ![i] = "up"]
  /\ UNCHANGED client

\* A leaving process still runs its heartbeat goroutine after Deregister.
Deregister(i) ==
  /\ proc[i] = "up" /\ WriteLocked(i)
  /\ serviceAddrs' = [serviceAddrs EXCEPT ![i] = NoRecord]
  /\ proc' = [proc EXCEPT ![i] = "leaving"]
  /\ quiet' = [quiet EXCEPT ![i] = 0]
  /\ UNCHANGED client

\* Mutant: a report without a record makes one.
ReportUpserting(i) ==
  /\ proc[i] \in {"up", "leaving"} /\ WriteLocked(i)
  /\ Touch(i)
  /\ UNCHANGED <<proc, client>>

\* Without a record the call returns an error and changes nothing.
ReportHealthyState(i) ==
  /\ proc[i] \in {"up", "leaving"} /\ WriteLocked(i)
  /\ IF i \in Registered THEN Touch(i) ELSE UNCHANGED <<serviceAddrs, quiet>>
  /\ UNCHANGED <<proc, client>>

\* A crash before the deferred Deregister, or the exit after it.
Exit(i) ==
  /\ proc[i] \in {"up", "leaving"}
  /\ proc' = [proc EXCEPT ![i] = "dead"]
  /\ quiet' = [quiet EXCEPT ![i] = 0]
  /\ waiting' = waiting \ {i}
  /\ UNCHANGED <<serviceAddrs, client>>

\* Mutant: the seconds are counted without the cap.
TickUncapped ==
  /\ \A i \in Instance : proc[i] = "up" => quiet[i] < MaxSilence
  /\ quiet' = [i \in Instance |-> IF proc[i] = "up" THEN quiet[i] + 1 ELSE quiet[i]]
  /\ serviceAddrs' = [i \in Instance |->
       IF serviceAddrs[i] # NoRecord THEN serviceAddrs[i] + 1 ELSE NoRecord]
  /\ UNCHANGED <<proc, waiting, client>>

\* A second passes.  The heartbeat is assumed to keep up: no process that is up
\* has been quiet for longer than MaxSilence.
Tick ==
  /\ \A i \in Instance : proc[i] = "up" => quiet[i] < MaxSilence
  /\ quiet' = [i \in Instance |-> IF proc[i] = "up" THEN quiet[i] + 1 ELSE quiet[i]]
  /\ serviceAddrs' = [i \in Instance |->
       IF serviceAddrs[i] \in 0..TTL THEN serviceAddrs[i] + 1 ELSE serviceAddrs[i]]
  /\ UNCHANGED <<proc, waiting, client>>

(***************************************************************************)
(* Clients                                                                 *)
(***************************************************************************)

Return(c, status, addrs) ==
  answer' = [answer EXCEPT ![c] = [status |-> status, addrs |-> addrs]]

\* RLock, which waits behind a blocked Lock, and the check for a service without records.
LookupStart(c) ==
  /\ pc[c] = "idle" /\ waiting = {}
  /\ \E s \in Service :
       /\ asked' = [asked EXCEPT ![c] = s]
       /\ IF Records(s) = {}
            THEN /\ Return(c, "notFound", {})
                 /\ UNCHANGED <<pc, todo, before>>
            ELSE /\ Return(c, "none", {})
                 /\ pc' = [pc EXCEPT ![c] = "scan"]
                 /\ todo' = [todo EXCEPT ![c] = Records(s)]
                 /\ before' = [before EXCEPT ![c] = Active]
  /\ UNCHANGED registry

\* One turn of the loop: an inactive record is skipped.
LookupScan(c) ==
  /\ pc[c] = "scan"
  /\ \E i \in todo[c] :
       /\ todo' = [todo EXCEPT ![c] = @ \ {i}]
       /\ answer' = [answer EXCEPT ![c].addrs = IF IsActive(i) THEN @ \cup {i} ELSE @]
  /\ UNCHANGED <<registry, pc, asked, before>>

\* return res, nil: the deferred RUnlock.
LookupReturn(c) ==
  /\ pc[c] = "scan" /\ todo[c] = {}
  /\ Return(c, "ok", answer[c].addrs)
  /\ pc' = [pc EXCEPT ![c] = "pick"]
  /\ before' = [before EXCEPT ![c] = {}]
  /\ UNCHANGED <<registry, asked, todo>>

\* addrs[rand.Intn(len(addrs))]: any of them is dialled.  rand.Intn(0) panics.
Pick(c) ==
  /\ pc[c] = "pick"
  /\ \/ /\ answer[c].addrs # {}
        /\ pc' = [pc EXCEPT ![c] = "idle"]
        /\ Return(c, "none", {})
     \/ /\ answer[c].addrs = {}
        /\ pc' = [pc EXCEPT ![c] = "panicked"]
        /\ UNCHANGED answer
  /\ UNCHANGED <<registry, asked, todo, before>>

Next == \/ Tick
        \/ \E i \in Instance : \/ Register(i) \/ Deregister(i)
                               \/ ReportHealthyState(i) \/ Exit(i) \/ Block(i)
        \/ \E c \in Client : \/ LookupStart(c) \/ LookupScan(c)
                             \/ LookupReturn(c) \/ Pick(c)

\* The clock moves, a loop that is running ends, and the heartbeat goroutine of
\* a process that is up goes on calling.  Nothing obliges a client to look up,
\* or a process to register, leave or crash.
Fairness ==
  /\ WF_vars(Tick)
  /\ \A c \in Client : WF_vars(LookupScan(c) \/ LookupReturn(c))
  /\ \A i \in Instance : WF_vars(proc[i] = "up" /\ (Block(i) \/ ReportHealthyState(i)))

Spec     == Init /\ [][Next]_vars
FairSpec == Spec /\ Fairness

(***************************************************************************)
(* Properties                                                              *)
(***************************************************************************)

TypeOK ==
  /\ serviceAddrs \in [Instance -> Age \cup {NoRecord}]
  /\ proc   \in [Instance -> {"new", "up", "leaving", "dead"}]
  /\ waiting \in SUBSET Instance
  /\ quiet  \in [Instance -> 0..MaxSilence]
  /\ pc     \in [Client -> {"idle", "scan", "pick", "panicked"}]
  /\ asked  \in [Client -> Service]
  /\ todo   \in [Client -> SUBSET Instance]
  /\ answer \in [Client -> Answer]
  /\ before \in [Client -> SUBSET Instance]

\* The lookup is atomic but for the clock: an answer has every instance of the
\* service that is active when the lookup ends, and none that was not active
\* when it began (ServiceAddresses under RWMutex, memory.go:62-79).
AnswerBounded ==
  \A c \in Client : pc[c] = "scan" =>
    /\ answer[c].addrs \subseteq before[c] \cap Records(asked[c])
    /\ Active \cap Records(asked[c]) \subseteq answer[c].addrs \cup todo[c]

\* A process that reports in time is never skipped: a lookup that walks the
\* records of its service returns it, to the last second of the TTL.
HealthyListed ==
  \A c \in Client : pc[c] = "scan" =>
    \A i \in Instance :
      /\ proc[i] = "up" /\ ServiceOf[i] = asked[c]
      => i \in answer[c].addrs \cup todo[c]

\* A heartbeat that comes after Deregister does not bring the record back, and
\* nothing does: the leaving instance is not listed again.
NoResurrection ==
  [][\A i \in Instance : proc[i] \in {"leaving", "dead"} /\ ~IsActive(i) => ~IsActive(i)']_vars

\* An instance that crashed is no longer listed in the end.
CrashedUnlisted ==
  \A i \in Instance : (proc[i] = "dead") ~> ~IsActive(i)

\* ServiceAddresses without an error has an address ("no service addresses
\* found" is an error, discovery.go:25), so a caller may pick one.
EmptyIsNotFound ==
  \A c \in Client : answer[c].status = "ok" => answer[c].addrs # {}

Left == {i \in Instance : proc[i] \in {"leaving", "dead"} /\ serviceAddrs[i] = NoRecord}

Discovery == INSTANCE ServiceRegistry WITH
               registered <- Registered, active <- Active, left <- Left

\* The registry implements what discovery.Registry promises.
RegistrySpec == Discovery!Spec
=============================================================================
