----------------------- MODULE ServiceLifecycleProofs -----------------------
(***************************************************************************)
(* What holds of a service process for any number of requests, any TTL,    *)
(* and reports that are late or fail within it: its instance leaves the    *)
(* registry drained and for good, and stays listed while it lives.         *)
(***************************************************************************)
EXTENDS ServiceLifecycle, TLAPS

\* No RPC is accepted once the server stops, and only the end of the process
\* cuts one off.
StopDrains ==
  /\ \A r \in GrpcRequest :
       /\ req[r] = "pending" => main = "serving" /\ stopper \in {"wait", "stopping"}
       /\ req[r] = "aborted" => main \in {"fatal", "serverStopped", "killed"}
  /\ main \in {"waiting", "deferring", "closing"} => stopper \in {"stopped", "done"}
  /\ main \in Unregistered \cup {"registered", "loaded", "listening"} => stopper = "none"

\* The check is gone from a Deregister that went through to the end.
DeregisteredLate ==
  /\ deregistered # "no" => main \notin Starting \cup {"serving", "waiting", "deferring"}
  /\ deregistered = "ok" => check = "none"

\* Seconds since the heartbeat goroutine last called, and since it last got
\* through at most.
Waited == IF heart = "due" THEN late + 1 ELSE 0
Silent == misses * (MaxLate + 1) + Waited

\* The seconds a passing check has left, while its process lives.
BeatsInTime ==
  /\ check = "passing" /\ Alive => heart # "none" /\ left + Silent >= TTL
  /\ main \in Unregistered => check = "none" /\ heart = "none"

IInv == TypeOK /\ StopDrains /\ DeregisteredLate /\ BeatsInTime

LEMMA ConstantsTyped ==
  /\ Heartbeats \in BOOLEAN
  /\ TTL \in Nat /\ TTL > 0 /\ MaxLate \in Nat /\ MaxMisses \in Nat
BY LifecycleConstantsOK DEF LifecycleConstantsOK

LEMMA InitOK == Init => IInv
<1> SUFFICES ASSUME Init PROVE IInv
  OBVIOUS
<1> USE ConstantsTyped DEF Init, Starting, Running, Ended, Unregistered, SettingUp
<1>1. TypeOK
  <2>1. 0 \in 0..MaxLate /\ 0 \in 0..MaxMisses /\ 0 \in 0..TTL
    OBVIOUS
  <2>2. req \in [Req -> {"none", "pending", "done", "aborted"}]
    OBVIOUS
  <2> QED BY <2>1, <2>2 DEF TypeOK
<1>2. StopDrains
  BY DEF StopDrains, Req, Unregistered, SettingUp
<1>3. DeregisteredLate
  BY DEF DeregisteredLate
<1>4. BeatsInTime
  BY DEF BeatsInTime, Unregistered, SettingUp
<1> QED BY <1>1, <1>2, <1>3, <1>4 DEF IInv

LEMMA TypeStep ==
  ASSUME TypeOK, [Next]_vars
  PROVE  TypeOK'
<1> USE ConstantsTyped DEF TypeOK, Starting, Running, Ended, Unregistered, SettingUp
<1>1. ASSUME NEW how \in Ended, End(how)
      PROVE  /\ main' \in Starting \cup Running \cup Ended /\ http' \in BOOLEAN
             /\ req' \in [Req -> {"none", "pending", "done", "aborted"}]
             /\ heart' \in {"none", "due", "sleeping"}
             /\ late' \in 0..MaxLate /\ misses' \in 0..MaxMisses
  <2>1. req' \in [Req -> {"none", "pending", "done", "aborted"}]
    BY <1>1 DEF End
  <2>2. main' \in Starting \cup Running \cup Ended
    BY <1>1 DEF End
  <2>3. late' \in 0..MaxLate /\ misses' \in 0..MaxMisses
    <3>1. 0 \in 0..MaxLate /\ 0 \in 0..MaxMisses
      OBVIOUS
    <3> QED BY <1>1, <3>1 DEF End
  <2> QED BY <1>1, <2>1, <2>2, <2>3 DEF End
<1>2. CASE Main
  <2>1. CASE Register
    BY <2>1 DEF Register, RegisterCheck
  <2>2. CASE SetUp \/ Load \/ Listen \/ Notify \/ Serve \/ ServeReturns \/ WaitReturns
    BY <2>2 DEF SetUp, Configure, NewRegistry, StartTracing, StartMetrics, Proceed, Load,
                Listen, Notify, Serve, ServeReturns, WaitReturns, beat, consul
  <2>3. CASE ServeAfterStop \/ Exit
    BY <1>1, <2>3 DEF ServeAfterStop, Exit, consul
  <2>4. CASE Deregister
    BY <2>4 DEF Deregister, DeregisterCheck, beat, consul
  <2> QED BY <1>2, <2>1, <2>2, <2>3, <2>4 DEF Main
<1>3. CASE StartFails \/ MetricsFail \/ Kill
  BY <1>1, <1>3 DEF StartFails, SetUpFails, RegisterFails, LoadFails, ListenFails,
                    MetricsFail, Kill, consul, Unregistered, SettingUp
<1>4. CASE ServeHTTP
  BY <1>4 DEF ServeHTTP, beat, consul
<1>5. CASE Signal
  BY <1>1, <1>5 DEF Signal, beat, consul
<1>6. CASE Stopper
  BY <1>6 DEF Stopper, StopStarts, StopReturns, StopDone, beat, consul
<1>7. ASSUME NEW r \in Req, Accept(r) \/ Finish(r) PROVE TypeOK'
  BY <1>7 DEF Accept, Finish, beat, consul
<1>8. CASE Report \/ ReportFails
  BY <1>8 DEF Report, PassTTL, ReportFails, consul
<1>9. CASE Tick
  BY <1>9 DEF Tick
<1>10. CASE UNCHANGED vars
  BY <1>10 DEF vars
<1> QED BY <1>2, <1>3, <1>4, <1>5, <1>6, <1>7, <1>8, <1>9, <1>10 DEF Next

LEMMA DrainStep ==
  ASSUME IInv, [Next]_vars
  PROVE  StopDrains'
<1> USE DEF IInv, TypeOK, StopDrains, Starting, Running, Ended, Req, Unregistered, SettingUp
<1>0. \A r \in GrpcRequest : r \in Req
  OBVIOUS
<1>1. ASSUME NEW how \in {"fatal", "serverStopped", "killed"}, End(how) PROVE StopDrains'
  BY <1>1 DEF End
<1>2. CASE Main
  <2>1. CASE Register \/ SetUp \/ Load \/ Listen \/ Notify \/ Serve \/ ServeReturns \/ WaitReturns \/ Deregister
    BY <2>1 DEF Register, RegisterCheck, SetUp, Configure, NewRegistry, StartTracing,
                StartMetrics, Proceed, Load, Listen, Notify, Serve, ServeReturns,
                WaitReturns, Deregister, DeregisterCheck
  <2>2. CASE ServeAfterStop
    BY <1>1, <2>2 DEF ServeAfterStop
  <2>3. CASE Exit
    BY <2>3 DEF Exit, End
  <2> QED BY <1>2, <2>1, <2>2, <2>3 DEF Main
<1>3. CASE StartFails \/ MetricsFail \/ Kill
  BY <1>1, <1>3 DEF StartFails, SetUpFails, RegisterFails, LoadFails, ListenFails,
                    MetricsFail, Kill, Unregistered, SettingUp
<1>4. CASE ServeHTTP
  BY <1>4 DEF ServeHTTP
<1>5. CASE Signal
  BY <1>1, <1>5 DEF Signal
<1>6. CASE Stopper
  BY <1>6 DEF Stopper, StopStarts, StopReturns, StopDone, Alive
<1>7. ASSUME NEW r \in Req, Accept(r) PROVE StopDrains'
  BY <1>7 DEF Accept, Accepting
<1>8. ASSUME NEW r \in Req, Finish(r) PROVE StopDrains'
  BY <1>8 DEF Finish
<1>9. CASE Report \/ ReportFails \/ Tick
  BY <1>9 DEF Report, PassTTL, ReportFails, Tick
<1>10. CASE UNCHANGED vars
  BY <1>10 DEF vars
<1> QED BY <1>2, <1>3, <1>4, <1>5, <1>6, <1>7, <1>8, <1>9, <1>10 DEF Next

LEMMA DeregisterStep ==
  ASSUME IInv, [Next]_vars
  PROVE  DeregisteredLate'
<1> USE DEF IInv, TypeOK, DeregisteredLate, Starting, Running, Ended, Unregistered,
            SettingUp
<1>1. CASE Main
  BY <1>1 DEF Main, Register, RegisterCheck, SetUp, Configure, NewRegistry, StartTracing,
              StartMetrics, Proceed, Load, Listen, Notify, Serve, ServeAfterStop,
              ServeReturns, WaitReturns, Deregister, DeregisterCheck, Exit, End, consul
<1>2. CASE StartFails \/ MetricsFail \/ Kill \/ ServeHTTP \/ Signal
  BY <1>2 DEF StartFails, SetUpFails, RegisterFails, LoadFails, ListenFails, MetricsFail,
              Kill, ServeHTTP, Signal, End, consul, Unregistered, SettingUp
<1>3. CASE Stopper
  BY <1>3 DEF Stopper, StopStarts, StopReturns, StopDone, consul
<1>4. ASSUME NEW r \in Req, Accept(r) \/ Finish(r) PROVE DeregisteredLate'
  BY <1>4 DEF Accept, Finish, consul
<1>5. CASE Report \/ ReportFails \/ Tick
  BY <1>5 DEF Report, PassTTL, ReportFails, Tick, consul
<1>6. CASE UNCHANGED vars
  BY <1>6 DEF vars
<1> QED BY <1>1, <1>2, <1>3, <1>4, <1>5, <1>6 DEF Next

\* Misses times the longest gap between reports, as a number the provers add.
LEMMA MissedSeconds ==
  ASSUME TypeOK
  PROVE  /\ misses * (MaxLate + 1) \in Nat
         /\ (misses + 1) * (MaxLate + 1) = misses * (MaxLate + 1) + MaxLate + 1
         /\ misses * (MaxLate + 1) + MaxLate + 1 < TTL
<1>1. misses \in Nat /\ MaxLate \in Nat /\ misses <= MaxMisses /\ MaxMisses \in Nat
  BY ConstantsTyped DEF TypeOK
<1>2. \A a, b, c \in Nat : a <= b => a * c <= b * c
  BY SMT
<1>3. (misses + 1) * (MaxLate + 1) <= (MaxMisses + 1) * (MaxLate + 1)
  BY <1>1, <1>2
<1>4. \A a, b \in Nat : a * b \in Nat /\ (a + 1) * b = a * b + b
  BY SMT
<1> QED BY <1>1, <1>3, <1>4, LifecycleConstantsOK, ConstantsTyped DEF LifecycleConstantsOK

\* A passing check of a live process has more than a second left when one passes.
LEMMA TickInTime ==
  ASSUME IInv, Tick, check = "passing", Alive
  PROVE  left > 1
<1>1. left + misses * (MaxLate + 1) + Waited >= TTL
  BY MissedSeconds, ConstantsTyped DEF IInv, TypeOK, BeatsInTime, Silent, Waited,
                                       Unregistered, SettingUp
<1>2. Waited \in Nat /\ Waited <= MaxLate
  BY ConstantsTyped DEF IInv, TypeOK, Tick, Waited
<1> QED BY <1>1, <1>2, MissedSeconds, ConstantsTyped DEF IInv, TypeOK

LEMMA BeatStep ==
  ASSUME IInv, [Next]_vars
  PROVE  BeatsInTime'
<1> DEFINE seconds == misses * (MaxLate + 1)
<1>0. /\ seconds \in Nat /\ late \in Nat /\ late <= MaxLate /\ misses \in Nat
      /\ left \in Nat /\ MaxLate \in Nat /\ TTL \in Nat
  BY MissedSeconds, ConstantsTyped DEF IInv, TypeOK
<1>1. CASE UNCHANGED <<heart, late, misses, check, left>> /\ (Alive' => Alive) /\ main' \notin Unregistered
  BY <1>1 DEF IInv, BeatsInTime, Silent, Waited, Unregistered, SettingUp
<1>2. ASSUME NEW how \in Ended, End(how) PROVE BeatsInTime'
  BY <1>2 DEF End, BeatsInTime, Alive, Ended, Unregistered, SettingUp
<1>3. CASE Main
  <2>1. CASE Register
    BY <2>1 DEF Register, RegisterCheck, BeatsInTime, Unregistered, SettingUp
  <2>2. CASE Load \/ Listen \/ Notify \/ Serve \/ ServeReturns \/ WaitReturns
    BY <1>1, <2>2 DEF Proceed, Load, Listen, Notify, Serve, ServeReturns, WaitReturns,
                      beat, consul, Alive, Ended, Unregistered, SettingUp
  <2>3. CASE ServeAfterStop \/ Exit
    BY <1>2, <2>3 DEF ServeAfterStop, Exit, Ended
  <2>4. CASE Deregister
    <3>1. CASE check' = "none"
      BY <2>4, <3>1 DEF Deregister, DeregisterCheck, BeatsInTime, Unregistered, SettingUp
    <3>2. CASE UNCHANGED consul
      BY <1>1, <2>4, <3>2 DEF Deregister, beat, consul, Alive, Ended, Unregistered,
                              SettingUp
    <3> QED BY <2>4, <3>1, <3>2 DEF Deregister, DeregisterCheck
  <2>5. CASE SetUp
    BY <2>5 DEF SetUp, Configure, NewRegistry, StartTracing, StartMetrics, Proceed, beat,
                consul, IInv, BeatsInTime, Unregistered, SettingUp
  <2> QED BY <1>3, <2>1, <2>2, <2>3, <2>4, <2>5 DEF Main
<1>4. CASE StartFails \/ MetricsFail \/ Kill
  BY <1>2, <1>4 DEF StartFails, SetUpFails, RegisterFails, LoadFails, ListenFails,
                    MetricsFail, Kill, Ended, Unregistered, SettingUp
<1>5. CASE ServeHTTP
  BY <1>1, <1>5 DEF ServeHTTP, beat, consul, Alive, Starting, Running, Ended, Unregistered,
                    SettingUp
<1>6. CASE Signal
  <2>1. CASE End("killed")
    BY <1>2, <2>1 DEF Ended
  <2>2. CASE stopper # "none" /\ UNCHANGED <<main, beat, consul>>
    <3>1. main \notin Unregistered
      BY <2>2 DEF IInv, StopDrains, Unregistered, SettingUp
    <3> QED BY <1>1, <2>2, <3>1 DEF beat, consul, Alive
  <2> QED BY <1>6, <2>1, <2>2 DEF Signal
<1>7. CASE Stopper
  <2>1. stopper # "none" /\ UNCHANGED <<main, beat, consul>>
    BY <1>7 DEF Stopper, StopStarts, StopReturns, StopDone
  <2>2. main \notin Unregistered
    BY <2>1 DEF IInv, StopDrains, Unregistered, SettingUp
  <2> QED BY <1>1, <2>1, <2>2 DEF beat, consul, Alive
<1>8. ASSUME NEW r \in Req, Accept(r) \/ Finish(r) PROVE BeatsInTime'
  <2>1. UNCHANGED <<main, beat, consul>>
    BY <1>8 DEF Accept, Finish
  <2> QED BY <2>1 DEF beat, consul, IInv, BeatsInTime, Silent, Waited, Alive, Unregistered,
                      SettingUp
<1>9. CASE Report
  <2>1. main \notin Unregistered /\ main' = main /\ heart = "due" /\ heart' = "sleeping"
    BY <1>9 DEF Report, PassTTL, IInv, BeatsInTime, Unregistered, SettingUp
  <2>2. CASE check' = "passing" /\ left' = TTL /\ misses' = 0
    BY <1>0, <2>1, <2>2 DEF BeatsInTime, Silent, Waited, Unregistered, SettingUp
  <2>3. CASE check = "none" /\ UNCHANGED consul
    BY <2>1, <2>3 DEF BeatsInTime, consul, Unregistered, SettingUp
  <2> QED BY <1>9, <2>2, <2>3 DEF Report, PassTTL
<1>10. CASE ReportFails
  <2>1. /\ main \notin Unregistered /\ main' = main /\ heart = "due" /\ heart' = "sleeping"
        /\ misses' = misses + 1 /\ UNCHANGED <<check, left>>
    BY <1>10 DEF ReportFails, IInv, BeatsInTime, consul, Unregistered, SettingUp
  <2>2. misses' * (MaxLate + 1) = seconds + MaxLate + 1
    BY <2>1, MissedSeconds DEF IInv
  <2>3. Silent' = seconds + MaxLate + 1 /\ Silent = seconds + late + 1
    BY <1>0, <2>1, <2>2 DEF Silent, Waited
  <2> QED BY <1>0, <2>1, <2>3 DEF IInv, BeatsInTime, Alive, Unregistered, SettingUp
<1>11. CASE Tick
  <2>1. main' = main /\ misses' = misses
    BY <1>11 DEF Tick
  <2>2. CASE check = "passing" /\ Alive
    <3>1. left' = left - 1
      BY <1>0, <1>11, <2>2, TickInTime DEF Tick
    <3>2. heart \in {"due", "sleeping"} /\ Waited' = Waited + 1 /\ heart' = "due" /\ Waited \in Nat
      BY <1>0, <1>11, <2>2 DEF Tick, Waited, IInv, TypeOK, BeatsInTime, Unregistered,
                               SettingUp
    <3>3. Silent' = Silent + 1 /\ Silent \in Nat
      BY <1>0, <2>1, <3>2 DEF Silent
    <3>4. main \notin Unregistered
      BY <2>2 DEF IInv, BeatsInTime, Unregistered, SettingUp
    <3> QED BY <1>0, <2>1, <2>2, <3>1, <3>2, <3>3, <3>4 DEF IInv, BeatsInTime, Alive,
                                                            Unregistered, SettingUp
  <2>3. CASE ~(check = "passing" /\ Alive)
    BY <1>11, <2>1, <2>3 DEF Tick, IInv, BeatsInTime, Alive, Unregistered, SettingUp
  <2> QED BY <2>2, <2>3
<1>12. CASE UNCHANGED vars
  BY <1>12 DEF vars, IInv, BeatsInTime, Silent, Waited, Alive, Unregistered, SettingUp
<1> QED BY <1>3, <1>4, <1>5, <1>6, <1>7, <1>8, <1>9, <1>10, <1>11, <1>12 DEF Next

LEMMA Inductive == Spec => []IInv
<1>1. IInv /\ [Next]_vars => IInv'
  BY TypeStep, DrainStep, DeregisterStep, BeatStep DEF IInv
<1> QED BY InitOK, <1>1, PTL DEF Spec

\* The process never stores a value of another type.
THEOREM TypeCorrect == Spec => []TypeOK
<1>1. IInv => TypeOK
  BY DEF IInv
<1> QED BY Inductive, <1>1, PTL

\* The instance leaves the registry only when its RPCs have been answered.
THEOREM LeavesDrainedSafe == Spec => []LeavesDrained
<1>1. IInv => LeavesDrained
  BY DEF IInv, StopDrains, LeavesDrained, Unregistered, SettingUp
<1> QED BY Inductive, <1>1, PTL

\* The heartbeat does not undo a Deregister.
THEOREM DeregisteredSafe == Spec => []DeregisteredIsFinal
<1>1. IInv => DeregisteredIsFinal
  BY DEF IInv, DeregisteredLate, DeregisteredIsFinal
<1> QED BY Inductive, <1>1, PTL

\* Reports that are at most MaxLate late and fail at most MaxMisses times in a
\* row keep a live process listed, for every TTL longer than that takes.
THEOREM AliveListed == Spec => AliveStaysListed
<1>1. IInv /\ [Next]_vars => [check = "passing" /\ check' = "critical" => ~Alive]_vars
  <2> SUFFICES ASSUME IInv, [Next]_vars, check = "passing", check' = "critical", Alive
               PROVE  FALSE
    OBVIOUS
  <2>1. CASE Tick
    <3>1. left \in Nat /\ left > 1
      BY <2>1, TickInTime DEF IInv, TypeOK
    <3> QED BY <2>1, <3>1 DEF Tick
  <2>2. CASE Main \/ StartFails
    BY <2>2 DEF Main, Register, RegisterCheck, SetUp, Configure, NewRegistry,
                StartTracing, StartMetrics, Proceed, Load, Listen, Notify, Serve,
                ServeAfterStop, ServeReturns, WaitReturns, Deregister, DeregisterCheck,
                Exit, StartFails, SetUpFails, RegisterFails, LoadFails, ListenFails,
                consul, IInv, BeatsInTime, Unregistered, SettingUp
  <2>3. CASE ServeHTTP \/ MetricsFail \/ Kill \/ Signal \/ Stopper \/ Report \/ ReportFails
    BY <2>3 DEF ServeHTTP, MetricsFail, Kill, Signal, Stopper, StopStarts, StopReturns,
                StopDone, Report, PassTTL, ReportFails, consul
  <2>4. ASSUME NEW r \in Req, Accept(r) \/ Finish(r) PROVE FALSE
    BY <2>4 DEF Accept, Finish, consul
  <2>5. CASE UNCHANGED vars
    BY <2>5 DEF vars
  <2> QED BY <2>1, <2>2, <2>3, <2>4, <2>5 DEF Next
<1> QED BY Inductive, <1>1, PTL DEF Spec, AliveStaysListed

\* A step of the process or of Consul is a step of discovery.Registry, or
\* changes nothing that it speaks of.
LEMMA StepImplements ==
  ASSUME IInv, [Next]_vars
  PROVE  [Discovery!Next]_<<Listed({"critical", "passing"}), Listed({"passing"}), Departed>>
<1> USE DEF Listed, Departed
<1>1. /\ check \in {"none", "critical", "passing"}
      /\ main \in Unregistered => check = "none" /\ deregistered = "no"
      /\ main = "deferring" => deregistered = "no"
  BY DEF IInv, TypeOK, BeatsInTime, DeregisteredLate, Starting, Unregistered, SettingUp
<1> DEFINE Same == deregistered' = deregistered
<1>2. CASE check' = check /\ (Same \/ (main = "deferring" /\ deregistered' = "failed"))
  BY <1>1, <1>2
<1>3. CASE main \in Unregistered /\ check' = "critical" /\ Same
  <2>1. Discovery!Register("self")
    BY <1>1, <1>3 DEF Discovery!Register
  <2> QED BY <2>1 DEF Discovery!Next
<1>4. CASE check # "none" /\ check' = "passing" /\ Same
  <2>1. Discovery!Report("self")
    BY <1>1, <1>4 DEF Discovery!Report
  <2> QED BY <2>1 DEF Discovery!Next
<1>5. CASE check' = "none" /\ deregistered' = "ok"
  <2>1. Discovery!Deregister("self")
    BY <1>1, <1>5 DEF Discovery!Deregister
  <2> QED BY <2>1 DEF Discovery!Next
<1>6. CASE check = "passing" /\ check' = "critical" /\ Same
  <2>1. Discovery!Expire
    BY <1>6 DEF Discovery!Expire
  <2> QED BY <2>1 DEF Discovery!Next
<1>7. \/ check' = check /\ (Same \/ (main = "deferring" /\ deregistered' = "failed"))
      \/ main \in Unregistered /\ check' = "critical" /\ Same
      \/ check # "none" /\ check' = "passing" /\ Same
      \/ check' = "none" /\ deregistered' = "ok"
      \/ check = "passing" /\ check' = "critical" /\ Same
  <2>1. CASE Main \/ StartFails
    BY <1>1, <2>1 DEF Main, Register, RegisterCheck, SetUp, Configure, NewRegistry,
                      StartTracing, StartMetrics, Proceed, Load, Listen, Notify, Serve,
                      ServeAfterStop, ServeReturns, WaitReturns, Deregister,
                      DeregisterCheck, Exit, StartFails, SetUpFails, RegisterFails,
                      LoadFails, ListenFails, consul, Unregistered, SettingUp
  <2>2. CASE ServeHTTP \/ MetricsFail \/ Kill \/ Signal \/ Stopper \/ Report \/ ReportFails
    BY <2>2 DEF ServeHTTP, MetricsFail, Kill, Signal, Stopper, StopStarts, StopReturns,
                StopDone, Report, PassTTL, ReportFails, consul
  <2>3. ASSUME NEW r \in Req, Accept(r) \/ Finish(r) PROVE check' = check /\ Same
    BY <2>3 DEF Accept, Finish, consul
  <2>4. CASE Tick
    BY <2>4 DEF Tick
  <2>5. CASE UNCHANGED vars
    BY <2>5 DEF vars
  <2> QED BY <2>1, <2>2, <2>3, <2>4, <2>5 DEF Next
<1> QED BY <1>1, <1>2, <1>3, <1>4, <1>5, <1>6, <1>7

\* Consul, as a process of this system uses it, implements discovery.Registry.
THEOREM Implements == Spec => RegistrySpec
<1>1. Init => Discovery!Init
  BY DEF Init, Discovery!Init, Listed, Departed, Unregistered, SettingUp
<1>2. IInv /\ [Next]_vars =>
        [Discovery!Next]_<<Listed({"critical", "passing"}), Listed({"passing"}), Departed>>
  BY StepImplements
<1> QED BY Inductive, <1>1, <1>2, PTL DEF Spec, RegistrySpec, Discovery!Spec
(***************************************************************************)
(* What ending rests on.  TLC checks that a signal ends the process and    *)
(* that an ended one is unlisted (StoppedEnds, EndedUnlisted); here is why *)
(* a step can always be taken, and how many there are to take.             *)
(***************************************************************************)

PendingRPC == {r \in GrpcRequest : req[r] = "pending"}

\* The signal has been taken.
Stopping == stopper \in {"stopping", "stopped", "done"}

\* The steps main has left, and those the stopper has.
MainSteps ==
  CASE main = "boot"       -> 13
    [] main = "configured" -> 12
    [] main = "connected"  -> 11
    [] main = "traced"     -> 10
    [] main = "measured"   -> 9
    [] main = "registered" -> 8
    [] main = "loaded"     -> 7
    [] main = "listening"  -> 6
    [] main = "notified"   -> 5
    [] main = "serving"    -> 4
    [] main = "waiting"    -> 3
    [] main = "deferring"  -> 2
    [] main = "closing"    -> 1
    [] OTHER               -> 0
StopperSteps ==
  CASE stopper \in {"none", "wait"} -> 3
    [] stopper = "stopping"         -> 2
    [] stopper = "stopped"          -> 1
    [] OTHER                        -> 0
StepsToEnd == IF Alive THEN MainSteps + StopperSteps ELSE 0

\* Seven steps after the signal was taken are enough, and one of them can be
\* taken unless an RPC is still pending: GracefulStop, wg.Wait and Serve do not
\* wait for each other in a circle.
EndsSoon ==
  Alive /\ Stopping =>
    /\ StepsToEnd \in 1..7
    /\ \/ PendingRPC # {}
       \/ stopper \in {"stopping", "stopped"}
       \/ main \in {"notified", "serving", "waiting", "deferring", "closing"}

\* main and the stopper come nearer to the end with each step of theirs; after
\* the signal no step leads away from it, and no RPC joins those pending.
Shutdown ==
  /\ Main \/ Stopper => StepsToEnd' < StepsToEnd
  /\ Stopping => /\ Stopping' /\ StepsToEnd' <= StepsToEnd
                 /\ PendingRPC' \subseteq PendingRPC

\* A check passes as long as it has seconds left, and time passes for a process
\* that has ended.
Listing ==
  /\ check = "passing" <=> left > 0
  /\ ~Alive => heart = "none"

\* Nothing brings the check of an ended process back, or prolongs it, and every
\* second takes one of those it has left.
Expiry ==
  ~Alive => /\ ~Alive' /\ left' <= left
            /\ Tick /\ check = "passing" => left' = left - 1

LEMMA StepsCounted ==
  ASSUME TypeOK
  PROVE  /\ MainSteps \in 0..13 /\ StopperSteps \in 0..3
         /\ main \in Ended <=> MainSteps = 0
         /\ StepsToEnd = IF main \in Ended THEN 0 ELSE MainSteps + StopperSteps
<1>1. MainSteps \in 0..13 /\ (main \in Ended <=> MainSteps = 0)
  BY DEF TypeOK, MainSteps, Starting, Running, Ended, Unregistered, SettingUp
<1>2. StopperSteps \in 0..3
  BY DEF TypeOK, StopperSteps
<1> QED BY <1>1, <1>2 DEF StepsToEnd, Alive

\* A process that ends has no steps left.
LEMMA EndTakesAll ==
  ASSUME TypeOK, NEW how \in Ended, End(how)
  PROVE  /\ ~Alive' /\ StepsToEnd' = 0
         /\ PendingRPC' = {}
<1>1. ~Alive' /\ StepsToEnd' = 0
  BY DEF End, Alive, StepsToEnd
<1>2. ASSUME NEW r \in GrpcRequest PROVE req'[r] # "pending"
  BY DEF End, Req
<1> QED BY <1>1, <1>2 DEF PendingRPC

\* What main and the stopper do.
LEMMA StepTaken ==
  ASSUME IInv, Main \/ Stopper
  PROVE  /\ StepsToEnd \in Nat /\ StepsToEnd' \in Nat /\ StepsToEnd' < StepsToEnd
         /\ Stopping => Stopping'
         /\ PendingRPC' \subseteq PendingRPC
<1> USE DEF IInv
<1>1. CASE Register \/ SetUp \/ Load \/ Listen \/ Notify \/ Serve \/ ServeReturns \/ WaitReturns \/ Deregister
  <2>1. /\ main \in Starting \cup Running /\ main' \in Starting \cup Running
        /\ MainSteps' = MainSteps - 1 /\ StopperSteps' = StopperSteps
    BY <1>1 DEF Register, RegisterCheck, SetUp, Configure, NewRegistry, StartTracing,
                StartMetrics, Proceed, Load, Listen, Notify, Serve, ServeReturns,
                WaitReturns, Deregister, DeregisterCheck, MainSteps, StopperSteps,
                StopDrains, Starting, Running, Unregistered, SettingUp
  <2>2. StepsToEnd' = StepsToEnd - 1 /\ StepsToEnd \in Nat \ {0}
    BY <2>1, StepsCounted DEF StepsToEnd, Alive, Ended, Starting, Running, Unregistered,
                              SettingUp
  <2>3. (Stopping => Stopping') /\ UNCHANGED req
    BY <1>1 DEF Register, RegisterCheck, SetUp, Configure, NewRegistry, StartTracing,
                StartMetrics, Proceed, Load, Listen, Notify, Serve, ServeReturns,
                WaitReturns, Deregister, DeregisterCheck, IInv, StopDrains, Stopping,
                Unregistered, SettingUp
  <2> QED BY <2>2, <2>3 DEF PendingRPC
<1>2. CASE ServeAfterStop \/ Exit
  <2>1. PICK how \in Ended : End(how) /\ stopper' = stopper /\ Alive
    BY <1>2 DEF ServeAfterStop, Exit, Alive, Ended
  <2>2. StepsToEnd \in Nat /\ StepsToEnd > 0
    BY <2>1, StepsCounted DEF Alive
  <2> QED BY <2>1, <2>2, EndTakesAll DEF Stopping
<1>3. CASE Stopper
  <2>1. /\ Alive /\ main' = main /\ StopperSteps' = StopperSteps - 1
        /\ UNCHANGED req /\ Stopping'
    BY <1>3 DEF Stopper, StopStarts, StopReturns, StopDone, StopperSteps, Stopping
  <2>2. MainSteps' = MainSteps /\ Alive'
    BY <2>1 DEF MainSteps, Alive
  <2>3. StepsToEnd' = StepsToEnd - 1 /\ StepsToEnd \in Nat \ {0}
    BY <2>1, <2>2, StepsCounted DEF StepsToEnd, Alive
  <2> QED BY <2>1, <2>3 DEF PendingRPC
<1> QED BY <1>1, <1>2, <1>3 DEF Main

\* What the others do: end the process, or leave main and the stopper alone.
LEMMA OthersStep ==
  ASSUME IInv, [Next]_vars, ~(Main \/ Stopper)
  PROVE  /\ stopper' = stopper
         /\ \/ \E how \in Ended : Alive /\ End(how)
            \/ /\ main' = main
               /\ Stopping => PendingRPC' \subseteq PendingRPC
<1>1. CASE StartFails \/ MetricsFail \/ Kill
  BY <1>1 DEF StartFails, SetUpFails, RegisterFails, LoadFails, ListenFails, MetricsFail,
              Kill, Alive, Ended, Unregistered, SettingUp
<1>2. CASE Signal
  <2>1. CASE stopper = "none" /\ End("killed")
    BY <1>2, <2>1 DEF Signal, Ended
  <2>2. CASE UNCHANGED <<main, req>>
    BY <1>2, <2>2 DEF Signal, PendingRPC
  <2> QED BY <1>2, <2>1, <2>2 DEF Signal
<1>3. CASE ServeHTTP \/ Report \/ ReportFails \/ Tick
  BY <1>3 DEF ServeHTTP, Report, PassTTL, ReportFails, Tick, PendingRPC
<1>4. ASSUME NEW r \in Req, Accept(r) \/ Finish(r)
      PROVE  /\ stopper' = stopper /\ main' = main
             /\ Stopping => PendingRPC' \subseteq PendingRPC
  <2>1. CASE Accept(r)
    <3>1. Stopping => r \notin GrpcRequest
      BY <2>1 DEF Accept, Accepting, Stopping
    <3> QED BY <2>1, <3>1 DEF Accept, PendingRPC, IInv, TypeOK
  <2>2. CASE Finish(r)
    BY <2>2 DEF Finish, PendingRPC, IInv, TypeOK
  <2> QED BY <1>4, <2>1, <2>2
<1>5. CASE UNCHANGED vars
  BY <1>5 DEF vars, PendingRPC
<1> QED BY <1>1, <1>2, <1>3, <1>4, <1>5 DEF Next

LEMMA ShutdownStep ==
  ASSUME IInv, [Next]_vars
  PROVE  Shutdown
<1>1. CASE Main \/ Stopper
  BY <1>1, StepTaken DEF Shutdown
<1>2. CASE ~(Main \/ Stopper)
  <2>1. Stopping => Stopping'
    BY <1>2, OthersStep DEF Stopping
  <2>2. StepsToEnd \in Nat
    BY StepsCounted DEF IInv
  <2>3. ASSUME NEW how \in Ended, End(how) PROVE Shutdown
    BY <1>2, <2>1, <2>2, <2>3, EndTakesAll DEF Shutdown, IInv
  <2>4. CASE main' = main /\ stopper' = stopper
    <3>1. StepsToEnd' = StepsToEnd
      BY <2>4 DEF StepsToEnd, MainSteps, StopperSteps, Alive
    <3> QED BY <1>2, <2>1, <2>2, <2>4, <3>1, OthersStep, EndTakesAll DEF Shutdown, IInv
  <2> QED BY <1>2, <2>3, <2>4, OthersStep
<1> QED BY <1>1, <1>2

\* After a signal the process ends within seven steps of main and the stopper,
\* no step leads away from the end, and the two never wait for each other with
\* no RPC pending: the graceful stop cannot deadlock.
THEOREM ShutdownEnds == Spec => []EndsSoon /\ [][Shutdown]_vars
<1>1. IInv => EndsSoon
  <2> SUFFICES ASSUME IInv, Alive, Stopping
               PROVE  /\ StepsToEnd \in 1..7
                      /\ \/ PendingRPC # {}
                         \/ stopper \in {"stopping", "stopped"}
                         \/ main \in {"notified", "serving", "waiting", "deferring", "closing"}
    BY DEF EndsSoon
  <2>1. main \in {"notified", "serving", "waiting", "deferring", "closing"}
    BY DEF IInv, TypeOK, StopDrains, Stopping, Alive, Starting, Running, Unregistered,
           SettingUp
  <2>2. MainSteps \in 1..5 /\ StopperSteps \in 0..2
    BY <2>1 DEF MainSteps, StopperSteps, Stopping
  <2> QED BY <2>1, <2>2 DEF StepsToEnd
<1>2. IInv /\ [Next]_vars => [Shutdown]_vars
  BY ShutdownStep
<1> QED BY Inductive, <1>1, <1>2, PTL DEF Spec

LEMMA ListingStep ==
  ASSUME IInv, Listing, [Next]_vars
  PROVE  Listing'
<1> USE ConstantsTyped DEF Listing
<1>0. left \in Nat /\ check \in {"none", "critical", "passing"}
  BY DEF IInv, TypeOK
<1>1. ASSUME NEW how \in Ended, End(how), (check' = "passing" <=> left' > 0) PROVE Listing'
  BY <1>1 DEF End
<1>2. CASE Main
  <2>1. CASE Register
    BY <2>1 DEF Register, RegisterCheck, Alive, Ended
  <2>2. CASE SetUp \/ Load \/ Listen \/ Notify \/ Serve \/ ServeReturns \/ WaitReturns
    BY <2>2 DEF SetUp, Configure, NewRegistry, StartTracing, StartMetrics, Proceed, Load,
                Listen, Notify, Serve, ServeReturns, WaitReturns, beat, consul, Alive,
                Ended
  <2>3. CASE Deregister
    BY <2>3 DEF Deregister, DeregisterCheck, beat, consul, Alive, Ended
  <2>4. CASE ServeAfterStop \/ Exit
    BY <1>1, <2>4 DEF ServeAfterStop, Exit, consul, Ended
  <2> QED BY <1>2, <2>1, <2>2, <2>3, <2>4 DEF Main
<1>3. CASE StartFails \/ MetricsFail \/ Kill
  BY <1>1, <1>3 DEF StartFails, SetUpFails, RegisterFails, LoadFails, ListenFails,
                    MetricsFail, Kill, consul, Ended, Unregistered, SettingUp
<1>4. CASE Signal
  BY <1>1, <1>4 DEF Signal, beat, consul, Ended, Alive
<1>5. CASE ServeHTTP \/ Stopper
  BY <1>5 DEF ServeHTTP, Stopper, StopStarts, StopReturns, StopDone, beat, consul, Alive
<1>6. ASSUME NEW r \in Req, Accept(r) \/ Finish(r) PROVE Listing'
  BY <1>6 DEF Accept, Finish, beat, consul, Alive
<1>7. CASE Report \/ ReportFails
  BY <1>0, <1>7 DEF Report, PassTTL, ReportFails, consul, Alive
<1>8. CASE Tick
  BY <1>0, <1>8 DEF Tick, Alive
<1>9. CASE UNCHANGED vars
  BY <1>9 DEF vars, Alive
<1> QED BY <1>2, <1>3, <1>4, <1>5, <1>6, <1>7, <1>8, <1>9 DEF Next

LEMMA ExpiryStep ==
  ASSUME IInv, Listing, [Next]_vars
  PROVE  Expiry
<1> SUFFICES ASSUME ~Alive
             PROVE  /\ ~Alive' /\ left' <= left
                    /\ Tick /\ check = "passing" => left' = left - 1
  BY DEF Expiry
<1>1. left \in Nat
  BY DEF IInv, TypeOK
<1>2. main \in Ended /\ main \notin Starting \cup Running
  BY DEF Alive, Starting, Running, Ended, Unregistered, SettingUp
<1>3. ~Main /\ ~StartFails /\ ~ServeHTTP
  BY <1>2 DEF Main, Register, RegisterCheck, SetUp, Configure, NewRegistry, StartTracing,
              StartMetrics, Proceed, Load, Listen, Notify, Serve, ServeAfterStop,
              ServeReturns, WaitReturns, Deregister, DeregisterCheck, Exit, StartFails,
              SetUpFails, RegisterFails, LoadFails, ListenFails, ServeHTTP, Starting,
              Running, Unregistered, SettingUp
<1>4. ~Stopper /\ ~MetricsFail /\ ~Kill /\ ~Signal /\ ~Report /\ ~ReportFails
  BY DEF Stopper, StopStarts, StopReturns, StopDone, MetricsFail, Kill, Signal, Report,
         PassTTL, ReportFails
<1>5. \A r \in Req : ~Accept(r) /\ ~Finish(r)
  BY DEF Accept, Finish
<1>6. CASE Tick
  BY <1>1, <1>6 DEF Tick, Listing, Alive
<1>7. CASE UNCHANGED vars
  BY <1>1, <1>2, <1>7 DEF vars, Alive, Tick, Listing
<1> QED BY <1>3, <1>4, <1>5, <1>6, <1>7 DEF Next

\* An ended process has passed its last report: its check has TTL seconds left at
\* most, each second takes one, and none is ever added.
THEOREM EndedExpires == Spec => [](TypeOK /\ Listing) /\ [][Expiry]_vars
<1>1. Init => Listing
  BY DEF Init, Listing, Alive, Unregistered, SettingUp
<1>2. IInv /\ Listing /\ [Next]_vars => Listing'
  BY ListingStep
<1>3. IInv /\ Listing /\ [Next]_vars => [Expiry]_vars
  BY ExpiryStep
<1>4. IInv => TypeOK
  BY DEF IInv
<1> QED BY Inductive, <1>1, <1>2, <1>3, <1>4, PTL DEF Spec

\* A metadata or rating service that has registered runs its heartbeat while it
\* lives, and has a check until a Deregister goes through.
Runs ==
  Alive /\ main \notin Unregistered =>
    /\ Heartbeats => heart # "none"
    /\ check = "none" => deregistered = "ok"

\* Its silence is bounded by the TTL.
HeartbeatRuns == Runs /\ Silent < TTL

\* Every second adds to the silence; what ends it is a report that makes the
\* check pass.
SilenceEnds ==
  Alive /\ Alive' /\ heart # "none" /\ deregistered # "ok" =>
    /\ Tick => Silent' = Silent + 1
    /\ Silent' < Silent => check' = "passing"

LEMMA SilentCounted ==
  ASSUME TypeOK
  PROVE  /\ misses * (MaxLate + 1) \in Nat
         /\ Waited \in 0..(MaxLate + 1) /\ Silent \in Nat
         /\ Silent = misses * (MaxLate + 1) + Waited
         /\ Silent < TTL
<1>1. Waited \in 0..(MaxLate + 1)
  BY ConstantsTyped DEF TypeOK, Waited
<1>2. /\ misses * (MaxLate + 1) \in Nat
      /\ misses * (MaxLate + 1) + MaxLate + 1 < TTL
  BY MissedSeconds
<1> QED BY <1>1, <1>2, ConstantsTyped DEF Silent

LEMMA RunsStep ==
  ASSUME IInv, Runs, [Next]_vars
  PROVE  Runs'
<1> USE DEF Runs, Unregistered, SettingUp
<1>1. ASSUME NEW how \in Ended, End(how) PROVE Runs'
  BY <1>1 DEF End, Alive
<1>2. CASE Main
  <2>1. CASE Register
    BY <2>1 DEF Register, RegisterCheck
  <2>2. CASE SetUp \/ Load \/ Listen \/ Notify \/ Serve \/ ServeReturns \/ WaitReturns
    BY <2>2 DEF SetUp, Configure, NewRegistry, StartTracing, StartMetrics, Proceed, Load,
                Listen, Notify, Serve, ServeReturns, WaitReturns, beat, consul, Alive,
                Ended
  <2>3. CASE Deregister
    BY <2>3 DEF Deregister, DeregisterCheck, beat, consul, Alive, Ended, IInv,
                DeregisteredLate, Starting, Unregistered, SettingUp
  <2>4. CASE ServeAfterStop \/ Exit
    BY <1>1, <2>4 DEF ServeAfterStop, Exit, Ended
  <2> QED BY <1>2, <2>1, <2>2, <2>3, <2>4 DEF Main
<1>3. CASE StartFails \/ MetricsFail \/ Kill
  BY <1>1, <1>3 DEF StartFails, SetUpFails, RegisterFails, LoadFails, ListenFails,
                    MetricsFail, Kill, Ended, Unregistered, SettingUp
<1>4. CASE Signal
  BY <1>1, <1>4 DEF Signal, beat, consul, Ended, Alive
<1>5. CASE ServeHTTP \/ Stopper
  BY <1>5 DEF ServeHTTP, Stopper, StopStarts, StopReturns, StopDone, beat, consul, Alive
<1>6. ASSUME NEW r \in Req, Accept(r) \/ Finish(r) PROVE Runs'
  BY <1>6 DEF Accept, Finish, beat, consul, Alive
<1>7. CASE Report \/ ReportFails \/ Tick
  BY <1>7 DEF Report, PassTTL, ReportFails, Tick, consul, Alive
<1>8. CASE UNCHANGED vars
  BY <1>8 DEF vars, Alive
<1> QED BY <1>2, <1>3, <1>4, <1>5, <1>6, <1>7, <1>8 DEF Next

LEMMA SilenceStep ==
  ASSUME IInv, Runs, [Next]_vars
  PROVE  SilenceEnds
<1> SUFFICES ASSUME Alive, Alive', heart # "none", deregistered # "ok"
             PROVE  /\ Tick => Silent' = Silent + 1
                    /\ Silent' < Silent => check' = "passing"
  BY DEF SilenceEnds
<1>0. Silent \in Nat /\ misses * (MaxLate + 1) \in Nat /\ Waited \in Nat /\ late \in Nat
  BY SilentCounted, ConstantsTyped DEF IInv, TypeOK
<1>1. CASE Tick
  <2>1. Waited' = Waited + 1 /\ misses' = misses
    BY <1>0, <1>1 DEF Tick, Waited, IInv, TypeOK
  <2> QED BY <1>0, <2>1 DEF Silent
<1>2. CASE UNCHANGED beat /\ ~Tick
  BY <1>0, <1>2 DEF beat, Silent, Waited
<1>3. CASE Report
  <2>1. check # "none"
    BY <1>3 DEF Report, PassTTL, Runs, IInv, BeatsInTime, Unregistered, SettingUp
  <2> QED BY <1>3, <2>1 DEF Report, PassTTL, Tick
<1>4. CASE ReportFails
  <2>1. heart = "due" /\ heart' = "sleeping" /\ misses' = misses + 1
    BY <1>4 DEF ReportFails
  <2>2. misses' * (MaxLate + 1) = misses * (MaxLate + 1) + MaxLate + 1
    BY <2>1, MissedSeconds DEF IInv
  <2>3. Silent' = misses * (MaxLate + 1) + MaxLate + 1
        /\ Silent = misses * (MaxLate + 1) + late + 1 /\ late <= MaxLate
    BY <1>0, <2>1, <2>2, ConstantsTyped DEF Silent, Waited, IInv, TypeOK
  <2> QED BY <1>0, <2>1, <2>3, ConstantsTyped DEF Tick
<1>5. ~Tick /\ ~Report /\ ~ReportFails => UNCHANGED beat
  <2>1. ASSUME NEW how \in Ended, End(how) PROVE FALSE
    BY <2>1 DEF End, Alive
  <2>2. CASE Main
    BY <2>1, <2>2 DEF Main, Register, RegisterCheck, SetUp, Configure, NewRegistry,
                      StartTracing, StartMetrics, Proceed, Load, Listen, Notify, Serve,
                      ServeAfterStop, ServeReturns, WaitReturns, Deregister,
                      DeregisterCheck, Exit, Ended, IInv, BeatsInTime, Unregistered,
                      SettingUp
  <2>3. CASE StartFails \/ MetricsFail \/ Kill \/ Signal
    BY <2>1, <2>3 DEF StartFails, SetUpFails, RegisterFails, LoadFails, ListenFails,
                      MetricsFail, Kill, Signal, Ended, Unregistered, SettingUp
  <2>4. CASE ServeHTTP \/ Stopper
    BY <2>4 DEF ServeHTTP, Stopper, StopStarts, StopReturns, StopDone
  <2>5. ASSUME NEW r \in Req, Accept(r) \/ Finish(r) PROVE UNCHANGED beat
    BY <2>5 DEF Accept, Finish
  <2>6. CASE UNCHANGED vars
    BY <2>6 DEF vars, beat
  <2> QED BY <2>2, <2>3, <2>4, <2>5, <2>6 DEF Next
<1>6. Report \/ ReportFails \/ Tick \/ (UNCHANGED beat /\ ~Tick)
  BY <1>5
<1> QED BY <1>1, <1>2, <1>3, <1>4, <1>6

\* A metadata or rating service that lives is listed within a TTL of its
\* registration: its silence stays below the TTL, every second adds to it, and
\* it is broken only by a report that lists it.
THEOREM HeartbeatLists == Spec => []HeartbeatRuns /\ [][SilenceEnds]_vars
<1>1. Init => Runs
  BY DEF Init, Runs, Unregistered, SettingUp
<1>2. IInv /\ Runs /\ [Next]_vars => Runs'
  BY RunsStep
<1>3. IInv /\ Runs => HeartbeatRuns
  BY SilentCounted DEF IInv, Runs, HeartbeatRuns, Unregistered, SettingUp
<1>4. IInv /\ Runs /\ [Next]_vars => [SilenceEnds]_vars
  BY SilenceStep
<1> QED BY Inductive, <1>1, <1>2, <1>3, <1>4, PTL DEF Spec

\* A process without a heartbeat makes no report.
Mute == heart = "none" /\ check # "passing"

\* The movie service, which starts no heartbeat, is never listed, whatever the
\* TTL: what service_lifecycle_unlisted shows of one instance.
THEOREM MuteNeverListed ==
  ASSUME ~Heartbeats
  PROVE  Spec => [](check # "passing")
<1>1. Init => Mute
  BY DEF Init, Mute, Unregistered, SettingUp
<1>2. Mute /\ [Next]_vars => Mute'
  <2> SUFFICES ASSUME Mute, [Next]_vars PROVE Mute'
    OBVIOUS
  <2> USE DEF Mute
  <2>1. CASE Main \/ StartFails
    BY <2>1 DEF Main, Register, RegisterCheck, SetUp, Configure, NewRegistry,
                StartTracing, StartMetrics, Proceed, Load, Listen, Notify, Serve,
                ServeAfterStop, ServeReturns, WaitReturns, Deregister, DeregisterCheck,
                Exit, StartFails, SetUpFails, RegisterFails, LoadFails, ListenFails, End,
                beat, consul, Unregistered, SettingUp
  <2>2. CASE ServeHTTP \/ MetricsFail \/ Kill \/ Signal \/ Stopper
    BY <2>2 DEF ServeHTTP, MetricsFail, Kill, Signal, Stopper, StopStarts, StopReturns,
                StopDone, End, beat, consul
  <2>3. CASE Report \/ ReportFails \/ Tick
    BY <2>3 DEF Report, PassTTL, ReportFails, Tick
  <2>4. ASSUME NEW r \in Req, Accept(r) \/ Finish(r) PROVE Mute'
    BY <2>4 DEF Accept, Finish, beat, consul
  <2>5. CASE UNCHANGED vars
    BY <2>5 DEF vars
  <2> QED BY <2>1, <2>2, <2>3, <2>4, <2>5 DEF Next
<1>3. Mute => check # "passing"
  BY DEF Mute
<1> QED BY <1>1, <1>2, <1>3, PTL DEF Spec
=============================================================================
