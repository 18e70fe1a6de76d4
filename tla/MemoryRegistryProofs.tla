------------------------ MODULE MemoryRegistryProofs ------------------------
(***************************************************************************)
(* What holds of the in-memory registry for any number of services,        *)
(* instances and clients, any TTL, and heartbeats within it: lookups are   *)
(* atomic but for the clock, they never skip a process that reports in     *)
(* time, and the registry implements discovery.Registry.                   *)
(***************************************************************************)
EXTENDS MemoryRegistry, TLAPS

\* The record of a process that is up is as old as its last report.
RecordsFresh ==
  \A i \in Instance :
    /\ proc[i] = "up" => serviceAddrs[i] # NoRecord /\ serviceAddrs[i] <= quiet[i]
    /\ proc[i] \in {"new", "leaving"} => serviceAddrs[i] = NoRecord

\* What a lookup that holds the read lock can count on.
ScansExact ==
  \A c \in Client : pc[c] = "scan" =>
    /\ todo[c] \subseteq Records(asked[c])
    /\ Active \subseteq before[c]

IInv == TypeOK /\ RecordsFresh /\ ScansExact /\ AnswerBounded

LEMMA AgeType ==
  ASSUME TypeOK, NEW i \in Instance
  PROVE  serviceAddrs[i] = NoRecord \/ (serviceAddrs[i] \in Nat /\ serviceAddrs[i] <= TTL + 1)
<1>1. serviceAddrs[i] \in Age \cup {NoRecord}
  BY DEF TypeOK
<1>2. TTL \in Nat /\ Age = 0..(TTL + 1)
  BY RegistryConstantsOK DEF RegistryConstantsOK, Age, Stale
<1>3. CASE serviceAddrs[i] = NoRecord
  BY <1>3
<1>4. CASE serviceAddrs[i] \in 0..(TTL + 1)
  BY <1>2, <1>4
<1> QED BY <1>1, <1>2, <1>3, <1>4

LEMMA InitOK == Init => IInv
<1> SUFFICES ASSUME Init PROVE IInv
  OBVIOUS
<1>1. TypeOK
  BY RegistryConstantsOK DEF RegistryConstantsOK, Init, TypeOK, Answer
<1>2. RecordsFresh /\ ScansExact /\ AnswerBounded
  BY DEF Init, RecordsFresh, ScansExact, AnswerBounded
<1> QED BY <1>1, <1>2 DEF IInv

LEMMA TypeStep ==
  ASSUME TypeOK, [Next]_vars
  PROVE  TypeOK'
<1> USE RegistryConstantsOK DEF RegistryConstantsOK, TypeOK
<1>0. 0 \in Age /\ 0 \in 0..MaxSilence
  BY DEF Age, Stale
<1>1. ASSUME NEW i \in Instance, Register(i) PROVE TypeOK'
  BY <1>0, <1>1 DEF Register, Touch, WriteLocked, client
<1>2. ASSUME NEW i \in Instance, Deregister(i) PROVE TypeOK'
  BY <1>0, <1>2 DEF Deregister, WriteLocked, client
<1>3. ASSUME NEW i \in Instance, ReportHealthyState(i) PROVE TypeOK'
  BY <1>0, <1>3 DEF ReportHealthyState, Touch, WriteLocked, client
<1>4. ASSUME NEW i \in Instance, Exit(i) PROVE TypeOK'
  BY <1>0, <1>4 DEF Exit, client
<1>5. ASSUME NEW i \in Instance, Block(i) PROVE TypeOK'
  BY <1>5 DEF Block, client
<1>6. CASE Tick
  <2>1. quiet' \in [Instance -> 0..MaxSilence]
    BY <1>6 DEF Tick
  <2>2. serviceAddrs' \in [Instance -> Age \cup {NoRecord}]
    BY <1>6 DEF Tick, Age, Stale
  <2> QED BY <1>6, <2>1, <2>2 DEF Tick, client
<1>7. ASSUME NEW c \in Client, LookupStart(c) PROVE TypeOK'
  <2>1. answer' \in [Client -> Answer]
    BY <1>7 DEF LookupStart, Return, Answer
  <2>2. /\ asked' \in [Client -> Service]
        /\ pc' \in [Client -> {"idle", "scan", "pick", "panicked"}]
        /\ todo' \in [Client -> SUBSET Instance]
        /\ before' \in [Client -> SUBSET Instance]
    BY <1>7 DEF LookupStart, Records, Registered, Active
  <2> QED BY <1>7, <2>1, <2>2 DEF LookupStart, registry
<1>8. ASSUME NEW c \in Client, LookupScan(c) PROVE TypeOK'
  BY <1>8 DEF LookupScan, registry, Answer
<1>9. ASSUME NEW c \in Client, LookupReturn(c) PROVE TypeOK'
  BY <1>9 DEF LookupReturn, Return, registry, Answer
<1>10. ASSUME NEW c \in Client, Pick(c) PROVE TypeOK'
  <2>1. answer' \in [Client -> Answer]
    BY <1>10 DEF Pick, Return, Answer
  <2>2. pc' \in [Client -> {"idle", "scan", "pick", "panicked"}]
    BY <1>10 DEF Pick
  <2> QED BY <1>10, <2>1, <2>2 DEF Pick, registry
<1>11. CASE UNCHANGED vars
  BY <1>11 DEF vars
<1> QED BY <1>1, <1>2, <1>3, <1>4, <1>5, <1>6, <1>7, <1>8, <1>9, <1>10, <1>11 DEF Next

LEMMA FreshStep ==
  ASSUME IInv, [Next]_vars
  PROVE  RecordsFresh'
<1> USE RegistryConstantsOK DEF RegistryConstantsOK, IInv, TypeOK, RecordsFresh
<1>1. ASSUME NEW i \in Instance, Register(i) PROVE RecordsFresh'
  BY <1>1 DEF Register, Touch
<1>2. ASSUME NEW i \in Instance, Deregister(i) PROVE RecordsFresh'
  BY <1>2 DEF Deregister
<1>3. ASSUME NEW i \in Instance, ReportHealthyState(i) PROVE RecordsFresh'
  BY <1>3 DEF ReportHealthyState, Touch, Registered
<1>4. ASSUME NEW i \in Instance, Exit(i) PROVE RecordsFresh'
  BY <1>4 DEF Exit
<1>5. ASSUME NEW i \in Instance, Block(i) PROVE RecordsFresh'
  BY <1>5 DEF Block
<1>6. CASE Tick
  <2> SUFFICES ASSUME NEW i \in Instance
               PROVE  /\ proc[i] = "up" => serviceAddrs'[i] # NoRecord /\ serviceAddrs'[i] <= quiet'[i]
                      /\ proc[i] \in {"new", "leaving"} => serviceAddrs'[i] = NoRecord
    BY <1>6 DEF Tick
  <2>1. CASE proc[i] = "up"
    <3>1. quiet'[i] = quiet[i] + 1 /\ quiet[i] \in 0..MaxSilence /\ quiet[i] < MaxSilence
      BY <1>6, <2>1 DEF Tick
    <3>2. serviceAddrs[i] \in Nat /\ serviceAddrs[i] <= quiet[i] /\ serviceAddrs[i] <= TTL
      BY <2>1, <3>1, AgeType
    <3>3. serviceAddrs'[i] = serviceAddrs[i] + 1
      BY <1>6, <3>2 DEF Tick
    <3>4. serviceAddrs'[i] \in 0..(TTL + 1)
      BY <3>2, <3>3
    <3> QED BY <2>1, <3>1, <3>2, <3>3, <3>4
  <2>2. CASE proc[i] # "up"
    BY <1>6, <2>2 DEF Tick
  <2> QED BY <2>1, <2>2
<1>7. ASSUME NEW c \in Client, LookupStart(c) \/ LookupScan(c) \/ LookupReturn(c) \/ Pick(c)
      PROVE  RecordsFresh'
  BY <1>7 DEF LookupStart, LookupScan, LookupReturn, Pick, registry
<1>8. CASE UNCHANGED vars
  BY <1>8 DEF vars
<1> QED BY <1>1, <1>2, <1>3, <1>4, <1>5, <1>6, <1>7, <1>8 DEF Next

\* While a lookup runs, only the clock and the other lookups move.
LEMMA WritersWait ==
  ASSUME TypeOK, NEW i \in Instance, Register(i) \/ Deregister(i) \/ ReportHealthyState(i)
  PROVE  pc' = pc /\ \A c \in Client : pc[c] # "scan"
BY DEF Register, Deregister, ReportHealthyState, WriteLocked, NoReader, client

\* The clock only deactivates.
LEMMA TickExpires ==
  ASSUME TypeOK, Tick
  PROVE  Active' \subseteq Active /\ Registered' = Registered
<1> SUFFICES ASSUME NEW i \in Instance
             PROVE  /\ IsActive(i)' => IsActive(i)
                    /\ (serviceAddrs[i] = NoRecord) <=> (serviceAddrs'[i] = NoRecord)
  BY DEF Active, Registered
<1>1. serviceAddrs[i] = NoRecord \/ (serviceAddrs[i] \in Nat /\ serviceAddrs[i] <= TTL + 1)
  BY AgeType
<1>2. serviceAddrs'[i] = IF serviceAddrs[i] \in 0..TTL THEN serviceAddrs[i] + 1 ELSE serviceAddrs[i]
  BY DEF Tick, TypeOK
<1> QED BY <1>1, <1>2, RegistryConstantsOK DEF RegistryConstantsOK, IsActive

LEMMA ScanStep ==
  ASSUME IInv, [Next]_vars
  PROVE  ScansExact' /\ AnswerBounded'
<1> USE DEF IInv, ScansExact, AnswerBounded
<1>1. ASSUME NEW i \in Instance, Register(i) \/ Deregister(i) \/ ReportHealthyState(i)
      PROVE  ScansExact' /\ AnswerBounded'
  BY <1>1, WritersWait
<1>2. ASSUME NEW i \in Instance, Exit(i) \/ Block(i) PROVE ScansExact' /\ AnswerBounded'
  BY <1>2 DEF Exit, Block, client, Active, IsActive, Records, Registered
<1>3. CASE Tick
  <2>1. UNCHANGED <<pc, asked, todo, answer, before>>
    BY <1>3 DEF Tick, client
  <2>2. Active' \subseteq Active /\ Registered' = Registered
    BY <1>3, TickExpires
  <2>3. \A s \in Service : Records(s)' = Records(s)
    BY <2>2 DEF Records
  <2> QED BY <2>1, <2>2, <2>3 DEF TypeOK
<1>4. ASSUME NEW c \in Client, LookupStart(c) \/ LookupScan(c) \/ LookupReturn(c) \/ Pick(c)
      PROVE  ScansExact' /\ AnswerBounded'
  <2> USE DEF TypeOK
  <2>0. Active' = Active /\ Registered' = Registered /\ \A s \in Service : Records(s)' = Records(s)
    BY <1>4 DEF LookupStart, LookupScan, LookupReturn, Pick, registry,
                Active, IsActive, Registered, Records
  <2>1. CASE LookupStart(c)
    <3>1. PICK s \in Service :
            /\ asked' = [asked EXCEPT ![c] = s]
            /\ \/ pc' = pc /\ pc[c] = "idle" /\ UNCHANGED <<todo, before>>
               \/ /\ todo' = [todo EXCEPT ![c] = Records(s)]
                  /\ before' = [before EXCEPT ![c] = Active]
                  /\ pc' = [pc EXCEPT ![c] = "scan"]
                  /\ answer'[c].addrs = {}
      <4>1. PICK s \in Service :
              /\ asked' = [asked EXCEPT ![c] = s]
              /\ IF Records(s) = {}
                   THEN UNCHANGED <<pc, todo, before>>
                   ELSE /\ Return(c, "none", {})
                        /\ pc' = [pc EXCEPT ![c] = "scan"]
                        /\ todo' = [todo EXCEPT ![c] = Records(s)]
                        /\ before' = [before EXCEPT ![c] = Active]
        BY <2>1 DEF LookupStart
      <4>2. pc[c] = "idle"
        BY <2>1 DEF LookupStart
      <4>3. Return(c, "none", {}) => answer'[c].addrs = {}
        BY DEF Return
      <4> QED BY <4>1, <4>2, <4>3
    <3>2. \A d \in Client : d # c => answer'[d] = answer[d]
      BY <2>1 DEF LookupStart, Return
    <3>3. Active \subseteq Instance
      BY DEF Active
    <3> QED BY <2>0, <3>1, <3>2, <3>3
  <2>2. CASE LookupScan(c)
    <3>1. PICK i \in todo[c] :
            /\ todo' = [todo EXCEPT ![c] = @ \ {i}]
            /\ answer' = [answer EXCEPT ![c].addrs = IF IsActive(i) THEN @ \cup {i} ELSE @]
      BY <2>2 DEF LookupScan
    <3>2. answer'[c].addrs = IF IsActive(i) THEN answer[c].addrs \cup {i} ELSE answer[c].addrs
      BY <3>1 DEF Answer
    <3>3. i \in Instance /\ (IsActive(i) <=> i \in Active)
      BY DEF Active
    <3>4. /\ UNCHANGED <<pc, asked, before>> /\ pc[c] = "scan"
          /\ \A d \in Client : d # c => answer'[d] = answer[d] /\ todo'[d] = todo[d]
      BY <2>2, <3>1 DEF LookupScan
    <3> QED BY <2>0, <3>1, <3>2, <3>3, <3>4
  <2>3. CASE LookupReturn(c)
    BY <2>0, <2>3 DEF LookupReturn, Return
  <2>4. CASE Pick(c)
    BY <2>0, <2>4 DEF Pick, Return
  <2> QED BY <1>4, <2>1, <2>2, <2>3, <2>4
<1>5. CASE UNCHANGED vars
  BY <1>5 DEF vars, Active, IsActive, Records, Registered
<1> QED BY <1>1, <1>2, <1>3, <1>4, <1>5 DEF Next

LEMMA Inductive == Spec => []IInv
<1>1. IInv /\ [Next]_vars => IInv'
  BY TypeStep, FreshStep, ScanStep DEF IInv
<1> QED BY InitOK, <1>1, PTL DEF Spec

\* The registry never stores a value of another type.
THEOREM TypeCorrect == Spec => []TypeOK
<1>1. IInv => TypeOK
  BY DEF IInv
<1> QED BY Inductive, <1>1, PTL

\* A lookup is atomic but for the clock.
THEOREM AnswerSafe == Spec => []AnswerBounded
<1>1. IInv => AnswerBounded
  BY DEF IInv
<1> QED BY Inductive, <1>1, PTL

\* A lookup never skips a process that reports within the TTL.
THEOREM HealthySafe == Spec => []HealthyListed
<1>1. IInv => HealthyListed
  <2> SUFFICES ASSUME IInv, NEW c \in Client, pc[c] = "scan", NEW i \in Instance,
                      proc[i] = "up", ServiceOf[i] = asked[c]
               PROVE  i \in answer[c].addrs \cup todo[c]
    BY DEF HealthyListed
  <2>1. serviceAddrs[i] # NoRecord /\ serviceAddrs[i] \in Nat /\ serviceAddrs[i] <= quiet[i]
    BY AgeType DEF IInv, RecordsFresh
  <2>2. quiet[i] \in Nat /\ quiet[i] <= TTL
    BY RegistryConstantsOK DEF RegistryConstantsOK, IInv, TypeOK
  <2>3. i \in Active /\ i \in Records(asked[c])
    BY <2>1, <2>2, RegistryConstantsOK
    DEF RegistryConstantsOK, Active, IsActive, Records, Registered
  <2> QED BY <2>3 DEF IInv, AnswerBounded
<1> QED BY Inductive, <1>1, PTL

\* A step of the registry is a step of discovery.Registry, or changes nothing
\* that it speaks of.
LEMMA StepImplements ==
  ASSUME IInv, [Next]_vars
  PROVE  [Discovery!Next]_<<Registered, Active, Left>>
<1> USE DEF IInv, TypeOK, RecordsFresh, Left
<1>1. ASSUME NEW i \in Instance, Register(i) PROVE Discovery!Register(i)
  BY <1>1, RegistryConstantsOK
  DEF Register, Touch, Discovery!Register, RegistryConstantsOK, Registered, Active, IsActive
<1>2. ASSUME NEW i \in Instance, Deregister(i) PROVE Discovery!Deregister(i)
  BY <1>2 DEF Deregister, Discovery!Deregister, Registered, Active, IsActive
<1>3. ASSUME NEW i \in Instance, ReportHealthyState(i)
      PROVE  Discovery!Report(i) \/ UNCHANGED <<Registered, Active, Left>>
  BY <1>3, RegistryConstantsOK
  DEF ReportHealthyState, Touch, Discovery!Report, RegistryConstantsOK, Registered, Active, IsActive
<1>4. ASSUME NEW i \in Instance, Exit(i) \/ Block(i) PROVE UNCHANGED <<Registered, Active, Left>>
  BY <1>4 DEF Exit, Block, Registered, Active, IsActive
<1>5. CASE Tick
  <2>1. ASSUME NEW i \in Instance
        PROVE  serviceAddrs'[i] = NoRecord <=> serviceAddrs[i] = NoRecord
    <3>1. CASE serviceAddrs[i] \in 0..TTL
      <4>1. serviceAddrs'[i] \in 0..(TTL + 1) /\ NoRecord \notin 0..(TTL + 1)
        BY <1>5, <3>1, RegistryConstantsOK DEF RegistryConstantsOK, Tick
      <4>2. serviceAddrs[i] \in 0..(TTL + 1)
        BY <3>1, RegistryConstantsOK DEF RegistryConstantsOK
      <4> QED BY <4>1, <4>2
    <3>2. CASE serviceAddrs[i] \notin 0..TTL
      BY <1>5, <3>2 DEF Tick
    <3> QED BY <3>1, <3>2
  <2>2. UNCHANGED Left
    BY <1>5, <2>1 DEF Tick
  <2> QED BY <1>5, <2>2, TickExpires DEF Discovery!Expire, Discovery!Next
<1>6. ASSUME NEW c \in Client, LookupStart(c) \/ LookupScan(c) \/ LookupReturn(c) \/ Pick(c)
      PROVE  UNCHANGED <<Registered, Active, Left>>
  BY <1>6 DEF LookupStart, LookupScan, LookupReturn, Pick, registry, Registered, Active, IsActive
<1>7. CASE UNCHANGED vars
  BY <1>7 DEF vars, Registered, Active, IsActive
<1> QED BY <1>1, <1>2, <1>3, <1>4, <1>5, <1>6, <1>7 DEF Next, Discovery!Next

\* The in-memory registry implements discovery.Registry.
THEOREM Implements == Spec => RegistrySpec
<1>1. Init => Discovery!Init
  BY DEF Init, Discovery!Init, Registered, Active, IsActive, Left
<1>2. IInv /\ [Next]_vars => [Discovery!Next]_<<Registered, Active, Left>>
  BY StepImplements
<1> QED BY Inductive, <1>1, <1>2, PTL DEF Spec, RegistrySpec, Discovery!Spec

\* Nothing brings back an instance that has left or crashed.
THEOREM NeverResurrected == Spec => NoResurrection
<1>1. IInv /\ [Next]_vars =>
        [\A i \in Instance : proc[i] \in {"leaving", "dead"} /\ ~IsActive(i) => ~IsActive(i)']_vars
  <2> SUFFICES ASSUME IInv, [Next]_vars, NEW i \in Instance,
                      proc[i] \in {"leaving", "dead"}, ~IsActive(i)
               PROVE  ~IsActive(i)'
    OBVIOUS
  <2> USE DEF IInv, TypeOK
  <2>1. ASSUME NEW j \in Instance, Register(j) PROVE ~IsActive(i)'
    <3>1. i # j
      BY <2>1 DEF Register
    <3> QED BY <2>1, <3>1 DEF Register, Touch, IsActive
  <2>2. ASSUME NEW j \in Instance, Deregister(j) PROVE ~IsActive(i)'
    BY <2>2 DEF Deregister, IsActive
  <2>3. ASSUME NEW j \in Instance, ReportHealthyState(j) PROVE ~IsActive(i)'
    <3>1. i = j => serviceAddrs[i] = NoRecord
      BY <2>3 DEF ReportHealthyState, RecordsFresh
    <3> QED BY <2>3, <3>1 DEF ReportHealthyState, Touch, IsActive, Registered
  <2>4. ASSUME NEW j \in Instance, Exit(j) \/ Block(j) PROVE ~IsActive(i)'
    BY <2>4 DEF Exit, Block, IsActive
  <2>5. CASE Tick
    BY <2>5, TickExpires DEF Active
  <2>6. ASSUME NEW c \in Client, LookupStart(c) \/ LookupScan(c) \/ LookupReturn(c) \/ Pick(c)
        PROVE  ~IsActive(i)'
    BY <2>6 DEF LookupStart, LookupScan, LookupReturn, Pick, registry, IsActive
  <2>7. CASE UNCHANGED vars
    BY <2>7 DEF vars, IsActive
  <2> QED BY <2>1, <2>2, <2>3, <2>4, <2>5, <2>6, <2>7 DEF Next
<1> QED BY Inductive, <1>1, PTL DEF Spec, NoResurrection

\* A dead process' record keeps its age but for the clock, which adds a second to
\* it as long as it is active.
DeadAges ==
  \A i \in Instance : proc[i] = "dead" =>
    /\ proc'[i] = "dead"
    /\ IsActive(i)' => IsActive(i) /\ serviceAddrs'[i] >= serviceAddrs[i]
    /\ Tick /\ IsActive(i) => serviceAddrs'[i] = serviceAddrs[i] + 1

\* After a crash the record is active for TTL seconds at most: nothing makes it
\* younger.  It is why CrashedUnlisted holds as soon as time passes.
THEOREM CrashedExpires == Spec => [][DeadAges]_vars
<1>1. IInv /\ [Next]_vars => [DeadAges]_vars
  <2> SUFFICES ASSUME IInv, [Next]_vars, NEW i \in Instance, proc[i] = "dead"
               PROVE  /\ proc'[i] = "dead"
                      /\ IsActive(i)' => IsActive(i) /\ serviceAddrs'[i] >= serviceAddrs[i]
                      /\ Tick /\ IsActive(i) => serviceAddrs'[i] = serviceAddrs[i] + 1
    BY DEF DeadAges
  <2> USE DEF IInv, TypeOK
  <2>0. serviceAddrs[i] = NoRecord \/ serviceAddrs[i] \in Nat
    BY AgeType
  <2>1. CASE Tick
    <3>1. proc'[i] = "dead"
      BY <2>1 DEF Tick
    <3>2. serviceAddrs'[i] = IF serviceAddrs[i] \in 0..TTL THEN serviceAddrs[i] + 1
                                                           ELSE serviceAddrs[i]
      BY <2>1 DEF Tick
    <3>3. IsActive(i) <=> serviceAddrs[i] \in 0..TTL
      BY <2>0, RegistryConstantsOK DEF RegistryConstantsOK, IsActive
    <3>4. IsActive(i)' => IsActive(i)
      BY <2>1, TickExpires DEF Active
    <3> QED BY <2>0, <3>1, <3>2, <3>3, <3>4, RegistryConstantsOK DEF RegistryConstantsOK
  <2>2. CASE ~Tick
    <3>1. proc'[i] = "dead" /\ serviceAddrs'[i] = serviceAddrs[i]
      <4>1. ASSUME NEW j \in Instance,
                   Register(j) \/ Deregister(j) \/ ReportHealthyState(j) \/ Exit(j) \/ Block(j)
            PROVE  proc'[i] = "dead" /\ serviceAddrs'[i] = serviceAddrs[i]
        <5>1. i # j
          BY <4>1 DEF Register, Deregister, ReportHealthyState, Exit, Block
        <5> QED BY <4>1, <5>1 DEF Register, Deregister, ReportHealthyState, Exit, Block, Touch
      <4>2. ASSUME NEW c \in Client, LookupStart(c) \/ LookupScan(c) \/ LookupReturn(c) \/ Pick(c)
            PROVE  UNCHANGED registry
        BY <4>2 DEF LookupStart, LookupScan, LookupReturn, Pick
      <4>3. CASE UNCHANGED vars
        BY <4>3 DEF vars
      <4> QED BY <2>2, <4>1, <4>2, <4>3 DEF Next, registry
    <3> QED BY <2>0, <2>2, <3>1 DEF IsActive
  <2> QED BY <2>1, <2>2
<1> QED BY Inductive, <1>1, PTL DEF Spec

\* An empty answer without an error needs every process of the service to be
\* down: rand.Intn panics in no client whose service has one that is up.
ServedHasAddress ==
  \A c \in Client :
    LookupReturn(c) /\ (\E i \in Instance : proc[i] = "up" /\ ServiceOf[i] = asked[c])
    => answer'[c].addrs # {}

\* The panic of memory_registry_empty_answer cannot happen while a replica of the
\* service is up and reports in time.
THEOREM ServedNotEmpty == Spec => [][ServedHasAddress]_vars
<1>1. TypeOK /\ HealthyListed => [ServedHasAddress]_vars
  <2> SUFFICES ASSUME TypeOK, HealthyListed, NEW c \in Client, LookupReturn(c),
                      NEW i \in Instance, proc[i] = "up", ServiceOf[i] = asked[c]
               PROVE  answer'[c].addrs # {}
    BY DEF ServedHasAddress
  <2>1. i \in answer[c].addrs
    BY DEF HealthyListed, LookupReturn
  <2>2. answer'[c].addrs = answer[c].addrs
    BY DEF LookupReturn, Return, TypeOK
  <2> QED BY <2>1, <2>2
<1> QED BY TypeCorrect, HealthySafe, <1>1, PTL

\* A writer that waits in Lock() waits only for lookups that were running when it
\* came, and each of them only gets shorter.
ReadersDrain ==
  waiting # {} =>
    \A c \in Client : pc'[c] = "scan" => pc[c] = "scan" /\ todo'[c] \subseteq todo[c]

\* Overlapping lookups, however many clients make them, do not keep a heartbeat
\* out of the registry for ever.
THEOREM WritersServed == Spec => [][ReadersDrain]_vars
<1>1. IInv /\ [Next]_vars => [ReadersDrain]_vars
  <2> SUFFICES ASSUME IInv, [Next]_vars, waiting # {}, NEW c \in Client, pc'[c] = "scan"
               PROVE  pc[c] = "scan" /\ todo'[c] \subseteq todo[c]
    BY DEF ReadersDrain
  <2> USE DEF IInv, TypeOK
  <2>1. CASE Tick \/ UNCHANGED vars
    BY <2>1 DEF Tick, client, vars
  <2>2. ASSUME NEW i \in Instance,
               Register(i) \/ Deregister(i) \/ ReportHealthyState(i) \/ Exit(i) \/ Block(i)
        PROVE  UNCHANGED client
    BY <2>2 DEF Register, Deregister, ReportHealthyState, Exit, Block
  <2>3. ASSUME NEW d \in Client, LookupStart(d) \/ LookupScan(d) \/ LookupReturn(d) \/ Pick(d)
        PROVE  pc[c] = "scan" /\ todo'[c] \subseteq todo[c]
    BY <2>3 DEF LookupStart, LookupScan, LookupReturn, Pick
  <2> QED BY <2>1, <2>2, <2>3 DEF Next, client
<1> QED BY Inductive, <1>1, PTL DEF Spec
=============================================================================
