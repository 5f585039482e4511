-------------------------- MODULE FeatureManagerProofs --------------------------
(***************************************************************************)
(* Plugins and the handles of a run, for any number of plugins of any      *)
(* lifecycle ABI and any number of callbacks that raise.                   *)
(***************************************************************************)
EXTENDS FeatureManager, TLAPS

LEMMA AbiLength == Len(Abi) \in Nat
  BY AbiAssumption

LEMMA EmptyRange == Range(<<>>) = {}
  BY DEF Range

LEMMA AppendedRange ==
  ASSUME NEW q \in Seq(Features), NEW f \in Features
  PROVE  /\ Append(q, f) \in Seq(Features)
         /\ Range(Append(q, f)) = Range(q) \cup {f}
  <1>1. /\ Append(q, f) \in Seq(Features) /\ Len(Append(q, f)) = Len(q) + 1 /\ Len(q) \in Nat
        /\ DOMAIN q = 1..Len(q) /\ DOMAIN Append(q, f) = 1..(Len(q) + 1)
        /\ \A i \in 1..Len(q) : Append(q, f)[i] = q[i]
        /\ Append(q, f)[Len(q) + 1] = f
    OBVIOUS
  <1>2. \A i \in 1..(Len(q) + 1) : i \in 1..Len(q) \/ i = Len(q) + 1
    BY <1>1
  <1>3. Len(q) + 1 \in 1..(Len(q) + 1) /\ 1..Len(q) \subseteq 1..(Len(q) + 1)
    BY <1>1
  <1>4. Range(Append(q, f)) \subseteq Range(q) \cup {f}
    BY <1>1, <1>2 DEF Range
  <1>5. Range(q) \cup {f} \subseteq Range(Append(q, f))
    BY <1>1, <1>3 DEF Range
  <1> QED
    BY <1>1, <1>4, <1>5

LEMMA InitIInv == Init => IInv
  <1> SUFFICES ASSUME Init PROVE IInv
    OBVIOUS
  <1> USE AbiLength, FaultsAssumption DEF Init
  <1>1. TypeOK
    BY DEF TypeOK, Start, Watch, Over
  <1>2. ListIsInOrder
    BY DEF ListIsInOrder
  <1>3. RunHasPlugins
    BY DEF RunHasPlugins, Start
  <1>4. HandlesAreEntered
    BY EmptyRange DEF HandlesAreEntered, Watch
  <1>5. PluginsAreTold /\ NoHandleLeft /\ SuccessIsWhole
    BY DEF PluginsAreTold, NoHandleLeft, SuccessIsWhole, Watch, Over
  <1> QED
    BY <1>1, <1>2, <1>3, <1>4, <1>5 DEF IInv

\* The plugins are made one after the other, each in its place.
LEMMA Activate == IInv /\ activate => IInv'
  <1> SUFFICES ASSUME IInv, activate PROVE IInv'
    OBVIOUS
  <1> USE AbiLength, FaultsAssumption DEF IInv
  <1> DEFINE n == Len(features)
  <1>1. /\ manager = "activating" /\ run = "new" /\ n \in Nat /\ n <= Len(Abi) /\ made = 1..n
        /\ closed = <<>> /\ closed' = closed
        /\ UNCHANGED <<run, next, entries, state, handle, told, observed>>
    BY DEF activate, ListIsInOrder, RunHasPlugins, TypeOK, runVars
  <1>2. \/ /\ features' = features /\ made' = made /\ manager' = "closing"
        \/ /\ features' = features /\ made' = made /\ manager' = "ready" /\ n = Len(Abi)
        \/ /\ n + 1 \in Features /\ features' = Append(features, n + 1) /\ made' = made \cup {n + 1}
           /\ manager' \in {"activating", "closing"}
    BY <1>1 DEF activate, Features
  <1>3. faults' \in 0..MaxFaults
    BY DEF activate, Raise, TypeOK
  <1>4. /\ features' \in Seq(Features) /\ made' \subseteq Features
        /\ made' = 1..Len(features') /\ Len(features') <= Len(Abi) /\ Len(features') \in Nat
        /\ \A i \in 1..Len(features') : features'[i] = i
        /\ manager' = "ready" => Len(features') = Len(Abi)
    <2>1. CASE features' = features /\ made' = made
      BY <1>1, <1>2, <2>1 DEF ListIsInOrder, TypeOK, Features
    <2>2. CASE /\ n + 1 \in Features /\ features' = Append(features, n + 1)
               /\ made' = made \cup {n + 1} /\ manager' \in {"activating", "closing"}
      <3>1. features \in Seq(Features) /\ \A i \in 1..n : features[i] = i
        BY DEF TypeOK, ListIsInOrder
      <3>2. features' \in Seq(Features) /\ Len(features') = n + 1
        BY <2>2, <3>1
      <3>3. \A i \in 1..(n + 1) : features'[i] = i
        BY <1>1, <2>2, <3>1
      <3>4. made' = 1..(n + 1)
        BY <1>1, <2>2
      <3> QED
        BY <1>1, <2>2, <3>2, <3>3, <3>4 DEF Features
    <2> QED
      BY <1>2, <2>1, <2>2
  <1>5. manager' \in {"activating", "ready", "closing"}
    BY <1>1, <1>2
  <1>6. TypeOK'
    BY <1>1, <1>3, <1>4, <1>5 DEF TypeOK
  <1>7. ListIsInOrder'
    <2>1. Len(closed') = 0 /\ manager' # "closed"
      BY <1>1, <1>5
    <2> QED
      BY <1>1, <1>4, <2>1 DEF ListIsInOrder
  <1>8. RunHasPlugins'
    BY <1>1, <1>4, <1>5 DEF RunHasPlugins, Start
  <1>9. HandlesAreEntered'
    BY <1>1 DEF HandlesAreEntered
  <1>10. PluginsAreTold' /\ NoHandleLeft' /\ SuccessIsWhole'
    BY <1>1 DEF PluginsAreTold, NoHandleLeft, SuccessIsWhole, Watch, Over
  <1> QED
    BY <1>6, <1>7, <1>8, <1>9, <1>10

\* close() goes backwards through the list and then clears it.
LEMMA Close == IInv /\ (shutdown \/ close_feature \/ close_done) => IInv'
  <1> SUFFICES ASSUME IInv, shutdown \/ close_feature \/ close_done PROVE IInv'
    OBVIOUS
  <1> USE AbiLength DEF IInv
  <1>1. /\ manager \in {"ready", "closing"} /\ manager' \in {"closing", "closed"}
        /\ run \in Start \cup {"fail"} => manager = "closing"
        /\ UNCHANGED <<run, next, entries, state, handle, told, observed, faults, made>>
    BY DEF shutdown, close_feature, close_done, runVars
  <1>2. /\ features \in Seq(Features) /\ closed \in Seq(Features)
        /\ Len(features) \in Nat /\ Len(closed) \in Nat
        /\ Len(features) <= Len(Abi) /\ made = 1..Len(features)
        /\ \A i \in 1..Len(features) : features[i] = i
        /\ \A i \in 1..Len(closed) : closed[i] = Len(features) + 1 - i
        /\ manager = "ready" => closed = <<>>
        /\ manager = "closing" => Len(closed) <= Len(features)
    BY <1>1 DEF TypeOK, ListIsInOrder
  <1>3. run \notin Start \cup {"fail"}
    BY <1>1 DEF RunHasPlugins
  <1>4. ListIsInOrder' /\ features' \in Seq(Features) /\ closed' \in Seq(Features)
        /\ (manager' = "closed" \/ features' = features)
    <2>1. CASE shutdown
      <3>1. manager' = "closing" /\ features' = features /\ closed' = closed /\ closed = <<>>
        BY <1>2, <2>1 DEF shutdown
      <3> QED
        BY <1>1, <1>2, <3>1 DEF ListIsInOrder
    <2>2. CASE close_feature
      <3> DEFINE k == Len(features) - Len(closed)
      <3>1. /\ manager' = "closing" /\ features' = features /\ k \in 1..Len(features)
            /\ closed' = Append(closed, features[k])
        BY <1>2, <2>2 DEF close_feature
      <3>2. features[k] = k /\ k \in Features
        BY <1>2, <3>1 DEF Features
      <3>3. closed' \in Seq(Features) /\ Len(closed') = Len(closed) + 1
        BY <1>2, <3>1, <3>2
      <3>4. \A i \in 1..(Len(closed) + 1) : closed'[i] = Len(features) + 1 - i
        <4>1. closed'[Len(closed) + 1] = k
          BY <1>2, <3>1, <3>2
        <4>2. \A i \in 1..Len(closed) : closed'[i] = closed[i]
          BY <1>2, <3>1
        <4>3. \A i \in 1..(Len(closed) + 1) : i \in 1..Len(closed) \/ i = Len(closed) + 1
          BY <1>2
        <4>4. Len(features) + 1 - (Len(closed) + 1) = k
          BY <1>2
        <4> QED
          BY <1>2, <4>1, <4>2, <4>3, <4>4
      <3> QED
        BY <1>1, <1>2, <3>1, <3>3, <3>4 DEF ListIsInOrder
    <2>3. CASE close_done
      <3>1. /\ manager' = "closed" /\ features' = <<>> /\ closed' = closed
            /\ Len(closed) = Len(features)
        BY <2>3 DEF close_done
      <3>2. features' \in Seq(Features) /\ Len(features') = 0
        BY <3>1
      <3> QED
        BY <1>1, <1>2, <3>1, <3>2 DEF ListIsInOrder
    <2> QED
      BY <2>1, <2>2, <2>3
  <1>5. TypeOK'
    BY <1>1, <1>4 DEF TypeOK
  <1>6. RunHasPlugins'
    BY <1>1, <1>3, <1>4 DEF RunHasPlugins
  <1>7. HandlesAreEntered'
    BY <1>1 DEF HandlesAreEntered
  <1>8. PluginsAreTold' /\ NoHandleLeft' /\ SuccessIsWhole'
    BY <1>1 DEF PluginsAreTold, NoHandleLeft, SuccessIsWhole
  <1> QED
    BY <1>4, <1>5, <1>6, <1>7, <1>8

\* The steps of a run leave the list of plugins alone.
LEMMA ListStays ==
  ASSUME IInv, UNCHANGED daemonVars, faults' \in 0..MaxFaults,
         run' \in {"new", "fail"} \cup Start \cup Watch \cup Over,
         next' \in 0..Len(Abi) + 1, entries' \in Seq(Features),
         state' \in {"none", "active", "finalizing", "closed"},
         handle' \in [Features -> {"none", "active", "finished", "closed"}],
         told' \subseteq Features, observed' \subseteq Features,
         run # "new" \/ manager = "ready",
         run' \in Start \cup {"fail"} => run \in Start \cup {"fail"} \/ manager = "ready"
  PROVE  TypeOK' /\ ListIsInOrder' /\ RunHasPlugins'
  <1> USE DEF IInv, daemonVars
  <1>1. TypeOK'
    BY DEF TypeOK
  <1>2. ListIsInOrder'
    BY DEF ListIsInOrder
  <1>3. RunHasPlugins'
    BY DEF RunHasPlugins
  <1> QED
    BY <1>1, <1>2, <1>3

\* Every handle of the run is closed, and it has no other.
LEMMA ClosedHandles ==
  ASSUME IInv, NEW h \in [Features -> {"none", "active", "finished", "closed"}],
         \A f \in Features \ Range(entries) : h[f] # "active"
  PROVE  /\ CloseAll(h) \in [Features -> {"none", "active", "finished", "closed"}]
         /\ \A f \in Features : CloseAll(h)[f] # "active"
  BY DEF CloseAll

\* finish() and close_unverified() leave none of the run's handles active.
LEMMA EndedHandles ==
  ASSUME IInv, run \notin Over, run # "new", run # "start",
         finish(TRUE) \/ finish(FALSE) \/ close_unverified
  PROVE  /\ state' = "closed"
         /\ handle' \in [Features -> {"none", "active", "finished", "closed"}]
         /\ \A f \in Features : handle'[f] # "active"
         /\ finish(TRUE) => \A f \in Features :
                              handle'[f] = IF Abi[f] = 0 THEN "none" ELSE "finished"
  <1> USE DEF IInv
  <1>1. handle \in [Features -> {"none", "active", "finished", "closed"}]
    BY DEF TypeOK
  <1>2. \A f \in Features : /\ handle[f] = IF f \in Range(entries) THEN "active" ELSE "none"
                            /\ f \in Range(entries) <=> Abi[f] # 0
    BY DEF HandlesAreEntered
  <1>3. state = "active"
    <2>1. run \in {"started", "agent", "fail"} \cup Watch
      BY DEF TypeOK, Start, Watch, Over, RunHasPlugins
    <2> QED
      BY <2>1 DEF HandlesAreEntered
  <1>4. CASE finish(TRUE)
    BY <1>1, <1>2, <1>4 DEF finish
  <1>5. CASE handle' = CloseAll(handle) /\ state' = "closed" /\ ~finish(TRUE)
    BY <1>1, <1>2, <1>5, ClosedHandles
  <1> QED
    BY <1>3, <1>4, <1>5 DEF finish, close_unverified

LEMMA PrepareExecution == IInv /\ prepare_execution => IInv'
  <1> SUFFICES ASSUME IInv, prepare_execution PROVE IInv'
    OBVIOUS
  <1> USE AbiLength, FaultsAssumption DEF IInv
  <1>1. /\ manager = "ready" /\ run = "new" /\ UNCHANGED daemonVars
        /\ UNCHANGED <<entries, state, handle, told, observed>>
        /\ \/ run' = "start" /\ next' = 1
           \/ run' = "refused" /\ next' = next
    BY DEF prepare_execution
  <1>2. faults' \in 0..MaxFaults
    BY DEF prepare_execution, Raise, TypeOK
  <1>3. TypeOK' /\ ListIsInOrder' /\ RunHasPlugins'
    <2>1. /\ run' \in {"new", "fail"} \cup Start \cup Watch \cup Over
          /\ next' \in 0..Len(Abi) + 1 /\ entries' \in Seq(Features)
          /\ state' \in {"none", "active", "finalizing", "closed"}
          /\ handle' \in [Features -> {"none", "active", "finished", "closed"}]
          /\ told' \subseteq Features /\ observed' \subseteq Features
      BY <1>1 DEF TypeOK, Start, Over
    <2> QED
      BY <1>1, <1>2, <2>1, ListStays
  <1>4. /\ entries = <<>> /\ Range(entries) = {} /\ state = "none" /\ told = {} /\ observed = {}
        /\ \A f \in Features : handle[f] = "none"
    BY <1>1, EmptyRange DEF HandlesAreEntered, PluginsAreTold, Over
  <1>5. HandlesAreEntered'
    BY <1>1, <1>4 DEF HandlesAreEntered, Over, Watch, Features
  <1>6. PluginsAreTold' /\ NoHandleLeft' /\ SuccessIsWhole'
    BY <1>1, <1>4 DEF PluginsAreTold, NoHandleLeft, SuccessIsWhole, Watch, Over
  <1> QED
    BY <1>3, <1>5, <1>6

\* One plugin's handle joins the run, or all that were started are closed.
LEMMA StartExecution == IInv /\ start_execution => IInv'
  <1> SUFFICES ASSUME IInv, start_execution PROVE IInv'
    OBVIOUS
  <1> USE AbiLength, FaultsAssumption DEF IInv
  <1>1. /\ run = "start" /\ next \in 1..Len(Abi) /\ next \in Features
        /\ manager = "ready" /\ UNCHANGED daemonVars /\ UNCHANGED <<told, observed>>
        /\ state' = state /\ state = "none" /\ told = {} /\ observed = {}
        /\ entries \in Seq(Features)
        /\ handle \in [Features -> {"none", "active", "finished", "closed"}]
        /\ \A f \in Features : /\ handle[f] = IF f \in Range(entries) THEN "active" ELSE "none"
                               /\ f \in Range(entries) <=> Abi[f] # 0 /\ f < next
    <2>1. /\ run = "start" /\ next <= Len(features) /\ state' = state
          /\ UNCHANGED daemonVars /\ UNCHANGED <<told, observed>>
      BY DEF start_execution
    <2>2. manager = "ready" /\ next >= 1 /\ state = "none" /\ told = {} /\ observed = {}
      BY <2>1 DEF HandlesAreEntered, RunHasPlugins, PluginsAreTold, Start, Over
    <2>3. Len(features) = Len(Abi) /\ next \in Nat
      BY <2>2 DEF RunHasPlugins, TypeOK
    <2>4. next \in 1..Len(Abi) /\ next \in Features
      BY <2>1, <2>2, <2>3 DEF Features
    <2>5. \A f \in Features : /\ handle[f] = IF f \in Range(entries) THEN "active" ELSE "none"
                              /\ f \in Range(entries) <=> Abi[f] # 0 /\ f < next
      BY <2>1 DEF HandlesAreEntered, Over
    <2> QED
      BY <2>1, <2>2, <2>4, <2>5 DEF TypeOK
  <1>2. faults' \in 0..MaxFaults
    BY DEF start_execution, Raise, TypeOK
  <1>3. ASSUME run' \in {"start", "refused"}, next' \in 0..Len(Abi) + 1, entries' \in Seq(Features),
               handle' \in [Features -> {"none", "active", "finished", "closed"}]
        PROVE  TypeOK' /\ ListIsInOrder' /\ RunHasPlugins'
    <2>1. /\ run' \in {"new", "fail"} \cup Start \cup Watch \cup Over
          /\ state' \in {"none", "active", "finalizing", "closed"}
          /\ told' \subseteq Features /\ observed' \subseteq Features
      BY <1>1, <1>3 DEF Start, Over
    <2> QED
      BY <1>1, <1>2, <1>3, <2>1, ListStays
  <1>4. CASE Abi[next] # 0 /\ handle' = [handle EXCEPT ![next] = "active"]
             /\ entries' = Append(entries, next) /\ next' = next + 1 /\ run' = run
    <2>1. entries' \in Seq(Features) /\ Range(entries') = Range(entries) \cup {next}
      BY <1>1, <1>4, AppendedRange
    <2>2. TypeOK' /\ ListIsInOrder' /\ RunHasPlugins'
      BY <1>1, <1>3, <1>4, <2>1
    <2>3. HandlesAreEntered'
      <3> SUFFICES ASSUME NEW f \in Features
                   PROVE  /\ handle'[f] = IF f \in Range(entries') THEN "active" ELSE "none"
                          /\ f \in Range(entries') <=> Abi[f] # 0 /\ f < next'
        BY <1>1, <1>4 DEF HandlesAreEntered, Watch, Over
      <3> QED
        BY <1>1, <1>4, <2>1 DEF Features
    <2>4. PluginsAreTold' /\ NoHandleLeft' /\ SuccessIsWhole'
      BY <1>1, <1>4 DEF PluginsAreTold, NoHandleLeft, SuccessIsWhole, Watch, Over
    <2> QED
      BY <2>2, <2>3, <2>4
  <1>5. CASE Abi[next] = 0 /\ next' = next + 1 /\ UNCHANGED <<run, entries, handle>>
    <2>1. TypeOK' /\ ListIsInOrder' /\ RunHasPlugins'
      BY <1>1, <1>3, <1>5
    <2>2. HandlesAreEntered'
      <3> SUFFICES ASSUME NEW f \in Features
                   PROVE  /\ handle'[f] = IF f \in Range(entries') THEN "active" ELSE "none"
                          /\ f \in Range(entries') <=> Abi[f] # 0 /\ f < next'
        BY <1>1, <1>5 DEF HandlesAreEntered, Watch, Over
      <3> QED
        BY <1>1, <1>5 DEF Features
    <2>3. PluginsAreTold' /\ NoHandleLeft' /\ SuccessIsWhole'
      BY <1>1, <1>5 DEF PluginsAreTold, NoHandleLeft, SuccessIsWhole, Watch, Over
    <2> QED
      BY <2>1, <2>2, <2>3
  <1>6. CASE /\ run' = "refused" /\ UNCHANGED <<next, entries>>
             /\ \E h \in {"none", "closed"} : handle' = CloseAll([handle EXCEPT ![next] = h])
    <2>1. PICK h \in {"none", "closed"} : handle' = CloseAll([handle EXCEPT ![next] = h])
      BY <1>6
    <2> DEFINE g == [handle EXCEPT ![next] = h]
    <2>2. /\ g \in [Features -> {"none", "active", "finished", "closed"}]
          /\ \A f \in Features \ Range(entries) : g[f] # "active"
      BY <1>1
    <2>3. handle' = CloseAll(g)
      BY <2>1
    <2> HIDE DEF g
    <2>4. /\ handle' \in [Features -> {"none", "active", "finished", "closed"}]
          /\ \A f \in Features : handle'[f] # "active"
      BY <2>2, <2>3, ClosedHandles
    <2>5. TypeOK' /\ ListIsInOrder' /\ RunHasPlugins'
      <3>1. run' \in {"start", "refused"} /\ next' \in 0..Len(Abi) + 1 /\ entries' \in Seq(Features)
        BY <1>1, <1>6
      <3> QED
        BY <1>3, <2>4, <3>1
    <2>6. HandlesAreEntered' /\ PluginsAreTold' /\ NoHandleLeft' /\ SuccessIsWhole'
      BY <1>6, <2>4 DEF HandlesAreEntered, PluginsAreTold, NoHandleLeft, SuccessIsWhole, Watch, Over
    <2> QED
      BY <2>5, <2>6
  <1> QED
    BY <1>4, <1>5, <1>6 DEF start_execution

LEMMA StartHealthy == IInv /\ start_healthy => IInv'
  <1> SUFFICES ASSUME IInv, start_healthy PROVE IInv'
    OBVIOUS
  <1> USE AbiLength, FaultsAssumption DEF IInv
  <1>1. /\ run = "start" /\ next = Len(Abi) + 1
        /\ manager = "ready" /\ UNCHANGED daemonVars /\ UNCHANGED <<entries, told, observed>>
        /\ state = "none" /\ told = {} /\ observed = {} /\ entries \in Seq(Features)
        /\ handle \in [Features -> {"none", "active", "finished", "closed"}]
        /\ \A f \in Features : /\ handle[f] = IF f \in Range(entries) THEN "active" ELSE "none"
                               /\ f \in Range(entries) <=> Abi[f] # 0
    BY DEF start_healthy, HandlesAreEntered, RunHasPlugins, PluginsAreTold, TypeOK,
           Start, Watch, Over, Features
  <1>2. faults' \in 0..MaxFaults
    BY DEF start_healthy, Raise, TypeOK
  <1>3. ASSUME run' \in {"started", "refused"}, next' \in 0..Len(Abi) + 1,
               state' \in {"none", "active"},
               handle' \in [Features -> {"none", "active", "finished", "closed"}]
        PROVE  TypeOK' /\ ListIsInOrder' /\ RunHasPlugins'
    <2>1. /\ run' \in {"new", "fail"} \cup Start \cup Watch \cup Over
          /\ state' \in {"none", "active", "finalizing", "closed"}
          /\ told' \subseteq Features /\ observed' \subseteq Features
      BY <1>1, <1>3 DEF Start, Over
    <2> QED
      BY <1>1, <1>2, <1>3, <2>1, ListStays
  <1>4. CASE run' = "started" /\ state' = "active" /\ next' = 1 /\ handle' = handle
    <2>1. TypeOK' /\ ListIsInOrder' /\ RunHasPlugins'
      BY <1>1, <1>3, <1>4
    <2>2. HandlesAreEntered'
      BY <1>1, <1>4 DEF HandlesAreEntered, Watch, Over
    <2>3. PluginsAreTold' /\ NoHandleLeft' /\ SuccessIsWhole'
      BY <1>1, <1>4 DEF PluginsAreTold, NoHandleLeft, SuccessIsWhole, Watch, Over
    <2> QED
      BY <2>1, <2>2, <2>3
  <1>5. CASE run' = "refused" /\ handle' = CloseAll(handle) /\ UNCHANGED <<state, next>>
    <2>1. \A f \in Features \ Range(entries) : handle[f] # "active"
      BY <1>1
    <2>2. /\ handle' \in [Features -> {"none", "active", "finished", "closed"}]
          /\ \A f \in Features : handle'[f] # "active"
      BY <1>1, <1>5, <2>1, ClosedHandles
    <2>3. TypeOK' /\ ListIsInOrder' /\ RunHasPlugins'
      BY <1>1, <1>3, <1>5, <2>2
    <2>4. HandlesAreEntered' /\ PluginsAreTold' /\ NoHandleLeft' /\ SuccessIsWhole'
      BY <1>5, <2>2 DEF HandlesAreEntered, PluginsAreTold, NoHandleLeft, SuccessIsWhole, Watch, Over
    <2> QED
      BY <2>3, <2>4
  <1> QED
    BY <1>4, <1>5 DEF start_healthy

\* A step of a started run that leaves the handles alone.
LEMMA HandlesStay ==
  ASSUME IInv, run \in {"started", "agent", "fail"} \cup Watch,
         run' \in {"started", "agent", "fail"} \cup Watch,
         run' \in Start \cup {"fail"} => run \in Start \cup {"fail"},
         UNCHANGED daemonVars, UNCHANGED <<entries, state, handle>>,
         faults' \in 0..MaxFaults, next' \in 0..Len(Abi) + 1, run' = "started" => next' >= 1,
         told' \subseteq Features, observed' \subseteq Features
  PROVE  /\ TypeOK' /\ ListIsInOrder' /\ RunHasPlugins' /\ HandlesAreEntered'
         /\ NoHandleLeft' /\ SuccessIsWhole'
  <1> USE DEF IInv
  <1>1. TypeOK' /\ ListIsInOrder' /\ RunHasPlugins'
    <2>1. /\ run' \in {"new", "fail"} \cup Start \cup Watch \cup Over /\ run # "new"
          /\ entries' \in Seq(Features)
          /\ state' \in {"none", "active", "finalizing", "closed"}
          /\ handle' \in [Features -> {"none", "active", "finished", "closed"}]
      BY DEF TypeOK, Start, Watch
    <2> QED
      BY <2>1, ListStays
  <1>2. HandlesAreEntered'
    BY DEF HandlesAreEntered, Watch, Over
  <1>3. NoHandleLeft' /\ SuccessIsWhole'
    BY DEF NoHandleLeft, SuccessIsWhole, Watch, Over
  <1> QED
    BY <1>1, <1>2, <1>3

\* The plugins are told of the start, and of the end in reverse.
LEMMA ToldSteps ==
  ASSUME IInv, execution_started \/ agent_started \/ quiescent \/ execution_finished \/ observers_done
  PROVE  IInv'
  <1> USE AbiLength, FaultsAssumption DEF IInv
  <1>1. UNCHANGED daemonVars /\ UNCHANGED <<entries, state, handle>> /\ manager' = manager
    BY DEF execution_started, agent_started, quiescent, execution_finished, observers_done, daemonVars
  <1>2. faults' \in 0..MaxFaults
    BY DEF execution_started, agent_started, quiescent, execution_finished, observers_done,
           Raise, TypeOK
  <1>3. /\ Len(features) \in 0..Len(Abi) /\ (manager = "closed" => Len(features) = 0)
        /\ (run # "new" /\ manager # "closed" => Len(features) = Len(Abi))
        /\ \A i \in 1..Len(features) : features[i] = i
    BY DEF ListIsInOrder, RunHasPlugins, TypeOK
  <1>4. next \in 0..Len(Abi) + 1 /\ told \subseteq Features /\ observed \subseteq Features
    BY DEF TypeOK
  <1>5. CASE execution_started
    <2>1. /\ run = "started" /\ observed' = observed /\ observed = {} /\ manager = "ready"
          /\ next >= 1 /\ told = 1..(next - 1) /\ Len(features) = Len(Abi)
      BY <1>3, <1>5 DEF execution_started, PluginsAreTold, HandlesAreEntered, RunHasPlugins, Over, Start
    <2>2. \/ next <= Len(Abi) /\ told' = told \cup {next} /\ next' = next + 1 /\ run' = run
          \/ next > Len(Abi) /\ run' = "agent" /\ next' = 1 /\ told' = told
          \/ run' = "fail" /\ next' = next /\ told' = told
      BY <1>3, <1>4, <1>5, <2>1 DEF execution_started
    <2>3. next' \in 0..Len(Abi) + 1 /\ told' \subseteq Features /\ (run' = "started" => next' >= 1)
      BY <1>4, <2>1, <2>2 DEF Features
    <2>4. /\ run' = "started" => told' = 1..(next' - 1)
          /\ run' = "agent" => told' = Features
      <3>1. CASE next <= Len(Abi) /\ told' = told \cup {next} /\ next' = next + 1 /\ run' = run
        <4>1. told' = 1..next /\ next' - 1 = next
          BY <1>4, <2>1, <3>1
        <4> QED
          BY <2>1, <3>1, <4>1
      <3>2. CASE next > Len(Abi) /\ run' = "agent" /\ next' = 1 /\ told' = told
        BY <1>4, <2>1, <3>2 DEF Features
      <3>3. CASE run' = "fail"
        BY <3>3
      <3> QED
        BY <2>2, <3>1, <3>2, <3>3
    <2>5. PluginsAreTold'
      BY <2>1, <2>2, <2>4 DEF PluginsAreTold, Watch, Over
    <2>6. /\ TypeOK' /\ ListIsInOrder' /\ RunHasPlugins' /\ HandlesAreEntered'
          /\ NoHandleLeft' /\ SuccessIsWhole'
      BY <1>1, <1>2, <1>4, <2>1, <2>2, <2>3, HandlesStay DEF Start
    <2> QED
      BY <2>5, <2>6
  <1>6. CASE agent_started
    <2>1. /\ run = "agent" /\ UNCHANGED <<next, told, observed>> /\ run' \in {"live", "fail"}
          /\ told = Features /\ observed = {}
      BY <1>6 DEF agent_started, PluginsAreTold, Over
    <2>2. PluginsAreTold'
      BY <2>1 DEF PluginsAreTold, Watch, Over
    <2>3. /\ TypeOK' /\ ListIsInOrder' /\ RunHasPlugins' /\ HandlesAreEntered'
          /\ NoHandleLeft' /\ SuccessIsWhole'
      BY <1>1, <1>2, <1>4, <2>1, HandlesStay DEF Start, Watch
    <2> QED
      BY <2>2, <2>3
  <1>7. CASE quiescent
    <2>1. /\ run = "live" /\ UNCHANGED <<told, observed>> /\ run' = "observe"
          /\ next' = Len(features) /\ told = Features /\ observed = {}
      BY <1>7 DEF quiescent, PluginsAreTold, Watch, Over
    <2>2. (Len(Abi) + 1)..Len(Abi) = {}
      OBVIOUS
    <2>3. PluginsAreTold'
      BY <1>1, <1>3, <2>1, <2>2 DEF PluginsAreTold, Watch, Over
    <2>4. /\ TypeOK' /\ ListIsInOrder' /\ RunHasPlugins' /\ HandlesAreEntered'
          /\ NoHandleLeft' /\ SuccessIsWhole'
      BY <1>1, <1>2, <1>3, <1>4, <2>1, HandlesStay DEF Start, Watch
    <2> QED
      BY <2>3, <2>4
  <1>8. CASE execution_finished
    <2>1. /\ run = "observe" /\ UNCHANGED <<run, told>> /\ told = Features
          /\ next \in 1..Len(features) /\ next' = next - 1 /\ observed' = observed \cup {next}
          /\ next <= Len(Abi) /\ (observed = (next + 1)..Len(Abi) \/ manager = "closed")
      BY <1>3, <1>8 DEF execution_finished, PluginsAreTold, Watch, Over
    <2>2. next' \in 0..Len(Abi) /\ observed' \subseteq Features
      BY <1>3, <1>4, <2>1 DEF Features
    <2>3. observed = (next + 1)..Len(Abi) => observed' = (next' + 1)..Len(Abi)
      BY <1>3, <2>1
    <2>4. PluginsAreTold'
      BY <1>1, <2>1, <2>2, <2>3 DEF PluginsAreTold, Watch, Over
    <2>5. /\ TypeOK' /\ ListIsInOrder' /\ RunHasPlugins' /\ HandlesAreEntered'
          /\ NoHandleLeft' /\ SuccessIsWhole'
      BY <1>1, <1>2, <1>4, <2>1, <2>2, HandlesStay DEF Start, Watch
    <2> QED
      BY <2>4, <2>5
  <1>9. CASE observers_done
    <2>1. /\ run = "observe" /\ UNCHANGED <<next, told, observed>> /\ run' = "finish"
          /\ told = Features /\ next \notin 1..Len(features)
          /\ next <= Len(Abi) /\ (observed = (next + 1)..Len(Abi) \/ manager = "closed")
      BY <1>9 DEF observers_done, PluginsAreTold, Watch, Over
    <2>2. observed = Features \/ manager = "closed"
      BY <1>3, <1>4, <2>1 DEF Features
    <2>3. PluginsAreTold'
      BY <1>1, <2>1, <2>2 DEF PluginsAreTold, Watch, Over
    <2>4. /\ TypeOK' /\ ListIsInOrder' /\ RunHasPlugins' /\ HandlesAreEntered'
          /\ NoHandleLeft' /\ SuccessIsWhole'
      BY <1>1, <1>2, <1>4, <2>1, HandlesStay DEF Start, Watch
    <2> QED
      BY <2>3, <2>4
  <1> QED
    BY <1>5, <1>6, <1>7, <1>8, <1>9

\* The run is over: its handles are finished, or closed.
LEMMA EndSteps ==
  ASSUME IInv, start_failed \/ watch_finish \/ watch_fails
  PROVE  IInv'
  <1> USE AbiLength, FaultsAssumption DEF IInv
  <1>1. /\ run \in {"fail"} \cup Watch /\ run' \in {"failed", "succeeded"}
        /\ UNCHANGED daemonVars /\ UNCHANGED <<next, entries, told, observed>>
        /\ run' = "succeeded" => run = "finish" /\ finish(TRUE)
        /\ finish(TRUE) \/ finish(FALSE) \/ close_unverified
    BY DEF start_failed, watch_finish, watch_fails, Watch
  <1>2. faults' \in 0..MaxFaults
    <2>1. faults' = faults \/ Raise
      BY DEF start_failed, watch_finish, watch_fails
    <2> QED
      BY <2>1 DEF Raise, TypeOK
  <1>3. /\ state' = "closed"
        /\ handle' \in [Features -> {"none", "active", "finished", "closed"}]
        /\ \A f \in Features : handle'[f] # "active"
        /\ finish(TRUE) => \A f \in Features :
                             handle'[f] = IF Abi[f] = 0 THEN "none" ELSE "finished"
    <2>1. run \notin Over /\ run # "new" /\ run # "start"
      BY <1>1 DEF Over, Watch
    <2> QED
      BY <1>1, <2>1, EndedHandles
  <1>4. TypeOK' /\ ListIsInOrder' /\ RunHasPlugins'
    <2>1. /\ run' \in {"new", "fail"} \cup Start \cup Watch \cup Over /\ run # "new"
          /\ run' \notin Start \cup {"fail"}
          /\ next' \in 0..Len(Abi) + 1 /\ entries' \in Seq(Features)
          /\ told' \subseteq Features /\ observed' \subseteq Features
      BY <1>1 DEF TypeOK, Start, Watch, Over
    <2> QED
      BY <1>1, <1>2, <1>3, <2>1, ListStays
  <1>5. HandlesAreEntered' /\ PluginsAreTold' /\ NoHandleLeft'
    BY <1>1, <1>3 DEF HandlesAreEntered, PluginsAreTold, NoHandleLeft, Watch, Over
  <1>6. SuccessIsWhole'
    <2>1. run = "finish" => told = Features /\ (observed = Features \/ manager = "closed")
      BY DEF PluginsAreTold, Watch
    <2> QED
      BY <1>1, <1>3, <2>1 DEF SuccessIsWhole, daemonVars
  <1> QED
    BY <1>4, <1>5, <1>6

\* Everything the properties below rest on, type correctness included.
THEOREM FeatureInvariant == Spec => []IInv
  <1>1. ASSUME IInv, UNCHANGED vars PROVE IInv'
    <2> USE <1>1 DEF IInv, vars
    <2>1. TypeOK' /\ ListIsInOrder' /\ RunHasPlugins'
      BY DEF TypeOK, ListIsInOrder, RunHasPlugins
    <2>2. HandlesAreEntered' /\ PluginsAreTold' /\ NoHandleLeft' /\ SuccessIsWhole'
      BY DEF HandlesAreEntered, PluginsAreTold, NoHandleLeft, SuccessIsWhole
    <2> QED
      BY <2>1, <2>2
  <1>2. IInv /\ [Next]_vars => IInv'
    BY <1>1, Activate, Close, PrepareExecution, StartExecution, StartHealthy, ToldSteps, EndSteps
       DEF Next
  <1> QED
    BY <1>2, InitIInv, PTL DEF Spec

\* start_execution, finish, close_unverified and FeatureManager.close: no
\* handle of a run that is over is active, and a daemon that is down has
\* closed each plugin that was made once, the last first, for any number of
\* plugins and wherever callbacks raised.
THEOREM NothingStaysOpen == Spec => []NothingLeftOpen
  <1>1. IInv => NothingLeftOpen
    <2> SUFFICES ASSUME IInv PROVE NothingLeftOpen
      OBVIOUS
    <2>1. NoHandleLeft
      BY DEF IInv
    <2>2. ASSUME manager = "closed"
          PROVE  Range(closed) = made /\ \A i, j \in 1..Len(closed) : i < j => closed[i] > closed[j]
      <3> DEFINE n == Len(closed)
      <3>1. /\ n \in Nat /\ made = 1..n /\ DOMAIN closed = 1..n
            /\ \A i \in 1..n : closed[i] = n + 1 - i
        BY <2>2 DEF IInv, TypeOK, ListIsInOrder
      <3> HIDE DEF n
      <3>2. Range(closed) \subseteq made
        BY <3>1 DEF Range
      <3>3. ASSUME NEW f \in made PROVE f \in Range(closed)
        <4>1. n + 1 - f \in 1..n /\ closed[n + 1 - f] = f
          BY <3>1, <3>3
        <4> QED
          BY <3>1, <4>1 DEF Range
      <3>4. \A i, j \in 1..n : i < j => closed[i] > closed[j]
        BY <3>1
      <3> QED
        BY <3>2, <3>3, <3>4 DEF n
    <2> QED
      BY <2>1, <2>2 DEF NothingLeftOpen, PluginsAreClosed
  <1> QED
    BY <1>1, FeatureInvariant, PTL

\* process.start and the watcher: success is reported only when every handle
\* was finished and every plugin told of the start and of the end, unless
\* the shutdown had closed all plugins first.
THEOREM SuccessStaysWhole == Spec => []SuccessIsWhole
  <1>1. IInv => SuccessIsWhole
    BY DEF IInv
  <1> QED
    BY <1>1, FeatureInvariant, PTL
=================================================================================
