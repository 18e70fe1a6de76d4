--------------------------- MODULE ServiceRegistry ---------------------------
(***************************************************************************)
(* What discovery.Registry promises, as an abstract specification: which   *)
(* instances are registered and which of them a lookup may return.  Only   *)
(* Register makes a record, and an id that was deregistered has had its    *)
(* life: GenerateInstanceID makes another for the next process.            *)
(*                                                                         *)
(* Both registries implement it.  They differ in what Register does to a   *)
(* new instance (active at once in memory, inactive until its first report *)
(* in Consul) and in when an instance expires.                             *)
(***************************************************************************)

CONSTANT Instance

VARIABLES registered,   \* the instances with a record
          active,       \* those whose health was reported recently enough
          left          \* those that deregistered

Init == registered = {} /\ active = {} /\ left = {}

Register(i) ==
  /\ i \notin left
  /\ registered' = registered \cup {i}
  /\ active' \in {active, active \cup {i}}
  /\ UNCHANGED left

Deregister(i) ==
  /\ registered' = registered \ {i}
  /\ active' = active \ {i}
  /\ left' = left \cup {i}

\* ReportHealthyState: an error, and no change, without a record.
Report(i) ==
  /\ i \in registered
  /\ active' = active \cup {i}
  /\ UNCHANGED <<registered, left>>

\* Time passes: some active instances may have been silent for too long.
Expire ==
  /\ active' \in SUBSET active
  /\ UNCHANGED <<registered, left>>

Next == Expire \/ \E i \in Instance : Register(i) \/ Deregister(i) \/ Report(i)

Spec == Init /\ [][Next]_<<registered, active, left>>
=============================================================================
