-------------------------- MODULE ProvidersProofs --------------------------
(***************************************************************************)
(* Theorems about Providers, for every set of sandboxes, of calls and of   *)
(* snapshot names, and for every choice of configured providers.           *)
(***************************************************************************)
EXTENDS Providers, SequenceTheorems, TLAPS

\* What a provider of kind k can leave on the host.
Things(k) ==
  CASE k \in Containers -> {"container"}
    [] k = "gvisor" -> {"bundle", "process", "container"}
    [] k = "firecracker" -> {"dir", "tap", "process"}
    [] k = "local" -> {"workspace"}
    [] k = "wasm" -> {"vfs"}
AllThings == {"container", "bundle", "process", "dir", "tap", "workspace", "vfs"}

\* What is there of a sandbox of kind k when n - 1 steps of its create are done:
\* h on the host, e and f its entries in the map and in the state machine, a
\* whether it runs.
Made(k, h, e, f, a, n) ==
  /\ k \in Containers => (n > 1 => "container" \in h)
  /\ k = "gvisor" =>
       /\ n > 2 => "bundle" \in h
       /\ "process" \in h => n > 3
       /\ (e <=> n > 3) /\ f = IF n > 3 THEN "Running" ELSE None
  /\ k = "firecracker" =>
       /\ n > 1 => "dir" \in h
       /\ "process" \in h => n > 6
       /\ (e <=> n > 6) /\ f = IF n > 11 THEN "Running" ELSE None
  /\ k = "local" =>
       /\ n > 1 => "workspace" \in h
       /\ (a <=> n > 1) /\ (e <=> n > 2) /\ f = IF n > 2 THEN "Running" ELSE None
  /\ k = "wasm" =>
       /\ n > 1 => "vfs" \in h
       /\ (a <=> n > 1) /\ (e <=> n > 2)

\* What one that was not created keeps apart: whatever names it, something of it
\* is on the host, and a process that runs is in the map.
Traced(k, h, e, f, a) ==
  /\ e \/ f # None \/ (a /\ k \in {"local", "wasm"}) => h # {}
  /\ "process" \in h => e

\* What is gone of it when m steps of a terminate are done.  x: some removal was
\* refused, or undone by a snapshot.
Gone(k, h, e, f, a, x, m) ==
  /\ k \in Containers => (m > 0 => ~a /\ (~x => "container" \notin h))
  /\ k = "gvisor" =>
       /\ m > 0 => ~a /\ ~e /\ "process" \notin h
       /\ m > 1 => f = None /\ (~x => "container" \notin h)
  /\ k = "firecracker" =>
       /\ m > 0 => ~a /\ ~e /\ "process" \notin h
       /\ m > 1 => f = None /\ (~x => "tap" \notin h)
       /\ m > 2 => (~x => "dir" \notin h)
  /\ k = "local" =>
       /\ m > 0 => ~a /\ (~x => "workspace" \notin h)
       /\ m > 1 => ~e /\ f = None
  /\ k = "wasm" =>
       /\ m > 0 => ~a /\ "vfs" \notin h
       /\ m > 1 => ~e

\* The names of the steps.
Labels == {"container", "start", "worker", "image", "bundle", "run", "started",
           "connected", "dir", "binary", "rootfs", "tap", "spawn", "socket",
           "configure", "boot", "register", "workspace", "sandbox", "vfs", "remove",
           "kill", "delete", "unbundle", "teardown", "undir", "unworkspace", "forget",
           "unvfs"}

------------------------------------------------------------------------------
(* The inductive invariant.                                                 *)

Creates == [op : {"create"}, id : Ids, at : Nat]
Terminates == [op : {"terminate"}, id : Ids, at : Nat, bundle : BOOLEAN]
Snapshots == [op : {"snapshot"}, id : Ids, at : Nat, name : Names]
Cancels == [op : {"cancel"}, id : Ids, at : Nat]
CallRecords == {Idle} \cup Creates \cup Terminates \cup Snapshots \cup Cancels

StateTyped ==
  /\ kind \in [Ids -> Kinds] /\ host \in [Ids -> SUBSET AllThings]
  /\ entry \in [Ids -> BOOLEAN] /\ fsm \in [Ids -> {None, "Running"}]
  /\ alive \in [Ids -> BOOLEAN] /\ paused \in [Ids -> BOOLEAN]
  /\ created \subseteq Ids /\ tried \subseteq created /\ ended \subseteq tried
  /\ spoiled \subseteq Ids /\ stuck \subseteq Ids
CallsTyped == call \in [Calls -> CallRecords]

\* What holds of a sandbox before its create returns, between that and its first
\* terminate, and after a terminate.
Kept(i) ==
  /\ host[i] \subseteq Things(kind[i])
  /\ kind[i] \in Containers => ~entry[i]
  /\ kind[i] \notin HasFsm => fsm[i] = None
  /\ i \notin created => Traced(kind[i], host[i], entry[i], fsm[i], alive[i])
  /\ i \in created \ tried =>
       Made(kind[i], host[i], entry[i], fsm[i], alive[i], Len(CreateSteps(kind[i])) + 1)
  /\ i \in ended =>
       Gone(kind[i], host[i], entry[i], fsm[i], alive[i], i \in spoiled,
            Len(TerminateSteps(kind[i])))

\* What holds of a call: a create is alone with its sandbox, a terminate has
\* removed what its steps so far remove.
Creating(c) ==
  LET i == call[c].id
  IN  /\ call[c].at \in 1..Len(CreateSteps(kind[i])) /\ i \notin created
      /\ \A d \in Calls \ {c} : call[d] # Idle => call[d].id # i
      /\ Made(kind[i], host[i], entry[i], fsm[i], alive[i], call[c].at)
Terminating(c) ==
  LET i == call[c].id
  IN  /\ call[c].at \in 1..Len(TerminateSteps(kind[i])) /\ i \in tried
      /\ Gone(kind[i], host[i], entry[i], fsm[i], alive[i], i \in spoiled, call[c].at - 1)
Working(c) ==
  /\ call[c].op = "create" => Creating(c)
  /\ call[c].op = "terminate" => Terminating(c)
  /\ call[c].op \in {"snapshot", "cancel"} => call[c].id \in created
  /\ call[c].op = "cancel" => kind[call[c].id] = "podman"

\* A bundle that the map no longer names is some terminate's to remove.
BundleHeld ==
  \A i \in created \ spoiled :
    kind[i] = "gvisor" /\ "bundle" \in host[i] /\ ~entry[i] =>
      \E c \in Calls : call[c].op = "terminate" /\ call[c].id = i /\ call[c].bundle

\* A paused VM has a snapshot between pause and resume, or had one that failed.
PauseHeld ==
  \A i \in Ids \ stuck : paused[i] =>
    /\ kind[i] = "firecracker"
    /\ \E c \in Calls : call[c].op = "snapshot" /\ call[c].id = i /\ call[c].at \in {3, 4}

Sound ==
  /\ StateTyped /\ CallsTyped
  /\ \A i \in Ids : Kept(i)
  /\ \A c \in Calls : Working(c)
  /\ BundleHeld /\ PauseHeld

------------------------------------------------------------------------------
\* The tables of steps, kind by kind.
LEMMA KindIs ==
  ASSUME NEW k \in Kinds
  PROVE  k \in Containers \/ k = "gvisor" \/ k = "firecracker" \/ k = "local" \/ k = "wasm"
BY KindsAssumption DEF Containers

LEMMA ContainerTable ==
  ASSUME NEW k \in Containers
  PROVE  /\ Len(CreateSteps(k)) = 3 /\ CreateSteps(k)[1] = "container"
         /\ CreateSteps(k)[2] = "start" /\ CreateSteps(k)[3] = "worker"
         /\ Len(TerminateSteps(k)) = 1 /\ TerminateSteps(k)[1] = "remove"
         /\ CreateSteps(k) \in Seq(Labels) /\ TerminateSteps(k) \in Seq(Labels)
<1>1. CreateSteps(k) = <<"container", "start", "worker">>
  BY DEF CreateSteps, ContainerCreate, Containers
<1>2. TerminateSteps(k) = <<"remove">>
  BY DEF TerminateSteps, ContainerTerminate, Containers
<1>3. QED BY <1>1, <1>2 DEF Labels

LEMMA GVisorTable ==
  LET s == CreateSteps("gvisor") t == TerminateSteps("gvisor")
  IN  /\ Len(s) = 5 /\ s[1] = "image" /\ s[2] = "bundle" /\ s[3] = "run"
      /\ s[4] = "started" /\ s[5] = "connected"
      /\ Len(t) = 3 /\ t[1] = "kill" /\ t[2] = "delete" /\ t[3] = "unbundle"
      /\ s \in Seq(Labels) /\ t \in Seq(Labels)
BY DEF CreateSteps, GVisorCreate, TerminateSteps, GVisorTerminate, Containers, Labels

LEMMA Joined ==
  ASSUME NEW p \in Seq(Labels), NEW b \in Seq(Labels)
  PROVE  /\ p \o b \in Seq(Labels) /\ Len(p \o b) = Len(p) + Len(b)
         /\ \A n \in 1..(Len(p) + Len(b)) :
              (p \o b)[n] = IF n <= Len(p) THEN p[n] ELSE b[n - Len(p)]
BY ConcatProperties

\* Two sequences of known lengths, one after the other.
LEMMA JoinedAt ==
  ASSUME NEW p \in Seq(Labels), NEW b \in Seq(Labels), NEW l \in Nat, NEW m \in Nat,
         Len(p) = l, Len(b) = m
  PROVE  /\ p \o b \in Seq(Labels) /\ Len(p \o b) = l + m
         /\ \A n \in 1..(l + m) : (p \o b)[n] = IF n <= l THEN p[n] ELSE b[n - l]
BY Joined

LEMMA FirecrackerTable ==
  LET s == CreateSteps("firecracker") t == TerminateSteps("firecracker")
  IN  /\ Len(s) = 11 /\ s[1] = "dir" /\ s[2] = "binary" /\ s[3] = "image"
      /\ s[4] = "rootfs" /\ s[5] = "tap" /\ s[6] = "spawn" /\ s[7] = "socket"
      /\ s[8] = "configure" /\ s[9] = "boot" /\ s[10] = "connected" /\ s[11] = "register"
      /\ Len(t) = 3 /\ t[1] = "kill" /\ t[2] = "teardown" /\ t[3] = "undir"
      /\ s \in Seq(Labels) /\ t \in Seq(Labels)
<1> DEFINE p == FirecrackerPrepare
           b == FirecrackerBoot
           q == FirecrackerFinish
           s == CreateSteps("firecracker")
           t == TerminateSteps("firecracker")
<1>1. p \in Seq(Labels) /\ Len(p) = 5 BY DEF FirecrackerPrepare, Labels
<1>2. b \in Seq(Labels) /\ Len(b) = 4 BY DEF FirecrackerBoot, Labels
<1>3. q \in Seq(Labels) /\ Len(q) = 2 BY DEF FirecrackerFinish, Labels
<1>4. /\ p[1] = "dir" /\ p[2] = "binary" /\ p[3] = "image" /\ p[4] = "rootfs"
      /\ p[5] = "tap" /\ b[1] = "spawn" /\ b[2] = "socket" /\ b[3] = "configure"
      /\ b[4] = "boot" /\ q[1] = "connected" /\ q[2] = "register"
  BY DEF FirecrackerPrepare, FirecrackerBoot, FirecrackerFinish
<1>5. s = (p \o b) \o q BY DEF CreateSteps, Containers
<1>6. t = <<"kill", "teardown", "undir">>
  BY DEF TerminateSteps, FirecrackerTerminate, Containers
<1> HIDE DEF p, b, q, s, t
<1>7. /\ p \o b \in Seq(Labels) /\ Len(p \o b) = 9
      /\ \A n \in 1..9 : (p \o b)[n] = IF n <= 5 THEN p[n] ELSE b[n - 5]
  <2>1. 5 \in Nat /\ 4 \in Nat /\ 9 = 5 + 4 OBVIOUS
  <2>2. /\ p \o b \in Seq(Labels) /\ Len(p \o b) = 5 + 4
        /\ \A n \in 1..(5 + 4) : (p \o b)[n] = IF n <= 5 THEN p[n] ELSE b[n - 5]
    BY <1>1, <1>2, <2>1, JoinedAt, ZenonT(40)
  <2>3. QED BY <2>1, <2>2, Zenon
<1> DEFINE r == p \o b
<1>8. r \in Seq(Labels) /\ Len(r) = 9 BY <1>7
<1>9. /\ r[1] = "dir" /\ r[2] = "binary" /\ r[3] = "image" /\ r[4] = "rootfs"
      /\ r[5] = "tap" /\ r[6] = "spawn" /\ r[7] = "socket" /\ r[8] = "configure"
      /\ r[9] = "boot"
  <2>1. \A n \in 1..9 : r[n] = IF n <= 5 THEN p[n] ELSE b[n - 5] BY <1>7
  <2> HIDE DEF r
  <2>2. QED BY <1>4, <2>1
<1>10. s = r \o q BY <1>5
<1> HIDE DEF r
<1>11. /\ r \o q \in Seq(Labels) /\ Len(r \o q) = 11
       /\ \A n \in 1..11 : (r \o q)[n] = IF n <= 9 THEN r[n] ELSE q[n - 9]
  <2>1. 9 \in Nat /\ 2 \in Nat /\ 11 = 9 + 2 OBVIOUS
  <2>2. /\ r \o q \in Seq(Labels) /\ Len(r \o q) = 9 + 2
        /\ \A n \in 1..(9 + 2) : (r \o q)[n] = IF n <= 9 THEN r[n] ELSE q[n - 9]
    BY <1>8, <1>3, <2>1, JoinedAt, ZenonT(40)
  <2>3. QED BY <2>1, <2>2, Zenon
<1>12. /\ s \in Seq(Labels) /\ Len(s) = 11
       /\ \A n \in 1..11 : s[n] = IF n <= 9 THEN r[n] ELSE q[n - 9]
  BY <1>10, <1>11, Zenon
<1>13. /\ s[1] = "dir" /\ s[2] = "binary" /\ s[3] = "image" /\ s[4] = "rootfs"
       /\ s[5] = "tap" /\ s[6] = "spawn" /\ s[7] = "socket" /\ s[8] = "configure"
       /\ s[9] = "boot" /\ s[10] = "connected" /\ s[11] = "register"
  BY <1>4, <1>9, <1>12
<1>14. /\ t \in Seq(Labels) /\ Len(t) = 3
       /\ t[1] = "kill" /\ t[2] = "teardown" /\ t[3] = "undir"
  BY <1>6 DEF Labels
<1>15. QED BY <1>12, <1>13, <1>14, Zenon DEF s, t

LEMMA LocalTable ==
  LET s == CreateSteps("local") t == TerminateSteps("local")
  IN  /\ Len(s) = 2 /\ s[1] = "workspace" /\ s[2] = "sandbox"
      /\ Len(t) = 2 /\ t[1] = "unworkspace" /\ t[2] = "forget"
      /\ s \in Seq(Labels) /\ t \in Seq(Labels)
BY DEF CreateSteps, LocalCreate, TerminateSteps, LocalTerminate, Containers, Labels

LEMMA WasmTable ==
  LET s == CreateSteps("wasm") t == TerminateSteps("wasm")
  IN  /\ Len(s) = 2 /\ s[1] = "vfs" /\ s[2] = "sandbox"
      /\ Len(t) = 2 /\ t[1] = "unvfs" /\ t[2] = "forget"
      /\ s \in Seq(Labels) /\ t \in Seq(Labels)
BY DEF CreateSteps, WasmCreate, TerminateSteps, WasmTerminate, Containers, Labels

\* The number of steps, and the indices they have.
LEMMA StepsBounded ==
  ASSUME NEW k \in Kinds
  PROVE  /\ Len(CreateSteps(k)) \in 2..11 /\ DOMAIN CreateSteps(k) = 1..Len(CreateSteps(k))
         /\ Len(TerminateSteps(k)) \in 1..3
         /\ DOMAIN TerminateSteps(k) = 1..Len(TerminateSteps(k))
<1>1. /\ CreateSteps(k) \in Seq(Labels) /\ TerminateSteps(k) \in Seq(Labels)
      /\ Len(CreateSteps(k)) \in 2..11 /\ Len(TerminateSteps(k)) \in 1..3
  <2>1. CASE k \in Containers BY <2>1, ContainerTable
  <2>2. CASE k = "gvisor" BY <2>2, GVisorTable
  <2>3. CASE k = "firecracker" BY <2>3, FirecrackerTable
  <2>4. CASE k = "local" BY <2>4, LocalTable
  <2>5. CASE k = "wasm" BY <2>5, WasmTable
  <2>6. QED BY <2>1, <2>2, <2>3, <2>4, <2>5, KindIs
<1>2. QED BY <1>1

------------------------------------------------------------------------------
\* A step of create takes a sandbox from n - 1 steps done to n.
MadeNext(k, h, e, f, a, n) ==
  LET s == CreateSteps(k)[n]
  IN  Made(k, h \cup Gives(s), e \/ (k \notin Containers /\ s = Maps(k)),
           IF k \in HasFsm /\ s = Registers(k) THEN "Running" ELSE f,
           a \/ s \in Starts, n + 1)

LEMMA MadeStep ==
  ASSUME NEW k \in Kinds, NEW h, NEW e \in BOOLEAN, NEW f, NEW a \in BOOLEAN,
         NEW n \in 1..Len(CreateSteps(k)), Made(k, h, e, f, a, n)
  PROVE  MadeNext(k, h, e, f, a, n)
<1> DEFINE s == CreateSteps(k)[n]
<1>1. CASE k \in Containers
  <2>1. n \in 1..3 /\ (n = 1 => s = "container")
    BY <1>1, ContainerTable
  <2> HIDE DEF s
  <2>2. n = 1 => "container" \in Gives(s)
    BY <2>1 DEF Gives
  <2>3. Made(k, h \cup Gives(s), e \/ (k \notin Containers /\ s = Maps(k)),
           IF k \in HasFsm /\ s = Registers(k) THEN "Running" ELSE f,
           a \/ s \in Starts, n + 1)
    BY <1>1, <2>1, <2>2 DEF Made, Containers
  <2>4. QED BY <2>3 DEF MadeNext, s
<1>2. CASE k = "gvisor"
  <2>1. n \in 1..5 /\ (s = "run" <=> n = 3) /\ (n = 2 => s = "bundle") /\ s # "spawn"
    <3>1. n \in 1..5 BY <1>2, GVisorTable
    <3>2. n = 1 \/ n = 2 \/ n = 3 \/ n = 4 \/ n = 5 BY <3>1
    <3>3. QED BY <1>2, <3>1, <3>2, GVisorTable
  <2> HIDE DEF s
  <2>2. /\ Maps(k) = "run" /\ Registers(k) = "run" /\ k \in HasFsm /\ k \notin Containers
        /\ n = 2 => "bundle" \in Gives(s)
        /\ "process" \in Gives(s) => n = 3
    BY <1>2, <2>1 DEF Maps, Registers, HasFsm, Containers, Gives
  <2>3. Made(k, h \cup Gives(s), e \/ (k \notin Containers /\ s = Maps(k)),
           IF k \in HasFsm /\ s = Registers(k) THEN "Running" ELSE f,
           a \/ s \in Starts, n + 1)
    BY <1>2, <2>1, <2>2 DEF Made, Containers
  <2>4. QED BY <2>3 DEF MadeNext, s
<1>3. CASE k = "firecracker"
  <2>1. n \in 1..11 /\ (n = 1 => s = "dir") /\ (s = "spawn" <=> n = 6) /\ (s = "register" <=> n = 11)
        /\ s # "run"
    <3>1. n \in 1..11 BY <1>3, FirecrackerTable
    <3>2. \/ n = 1 \/ n = 2 \/ n = 3 \/ n = 4 \/ n = 5 \/ n = 6 \/ n = 7 \/ n = 8
          \/ n = 9 \/ n = 10 \/ n = 11
      BY <3>1
    <3>3. QED BY <1>3, <3>1, <3>2, FirecrackerTable
  <2> HIDE DEF s
  <2>2. /\ Maps(k) = "spawn" /\ Registers(k) = "register" /\ k \in HasFsm /\ k \notin Containers
        /\ n = 1 => "dir" \in Gives(s)
        /\ "process" \in Gives(s) => n = 6
    BY <1>3, <2>1 DEF Maps, Registers, HasFsm, Containers, Gives
  <2>3. Made(k, h \cup Gives(s), e \/ (k \notin Containers /\ s = Maps(k)),
           IF k \in HasFsm /\ s = Registers(k) THEN "Running" ELSE f,
           a \/ s \in Starts, n + 1)
    BY <1>3, <2>1, <2>2 DEF Made, Containers
  <2>4. QED BY <2>3 DEF MadeNext, s
<1>4. CASE k = "local"
  <2>1. /\ n \in 1..2 /\ (n = 1 => s = "workspace") /\ (n = 2 => s = "sandbox")
    BY <1>4, LocalTable
  <2> HIDE DEF s
  <2>2. /\ Maps(k) = "sandbox" /\ Registers(k) = "sandbox" /\ k \in HasFsm /\ k \notin Containers
        /\ n = 1 => "workspace" \in Gives(s)
        /\ s \in Starts <=> n = 1
    BY <1>4, <2>1 DEF Maps, Registers, HasFsm, Containers, Gives, Starts
  <2>3. Made(k, h \cup Gives(s), e \/ (k \notin Containers /\ s = Maps(k)),
           IF k \in HasFsm /\ s = Registers(k) THEN "Running" ELSE f,
           a \/ s \in Starts, n + 1)
    BY <1>4, <2>1, <2>2 DEF Made, Containers
  <2>4. QED BY <2>3 DEF MadeNext, s
<1>5. CASE k = "wasm"
  <2>1. /\ n \in 1..2 /\ (n = 1 => s = "vfs") /\ (n = 2 => s = "sandbox")
    BY <1>5, WasmTable
  <2> HIDE DEF s
  <2>2. /\ Maps(k) = "sandbox" /\ k \notin HasFsm /\ k \notin Containers
        /\ n = 1 => "vfs" \in Gives(s)
        /\ s \in Starts <=> n = 1
    BY <1>5, <2>1 DEF Maps, HasFsm, Containers, Gives, Starts
  <2>3. Made(k, h \cup Gives(s), e \/ (k \notin Containers /\ s = Maps(k)),
           IF k \in HasFsm /\ s = Registers(k) THEN "Running" ELSE f,
           a \/ s \in Starts, n + 1)
    BY <1>5, <2>1, <2>2 DEF Made, Containers
  <2>4. QED BY <2>3 DEF MadeNext, s
<1>6. QED BY <1>1, <1>2, <1>3, <1>4, <1>5, KindIs

\* What a step of create leaves belongs to its provider.
LEMMA GivesThings ==
  ASSUME NEW k \in Kinds, NEW n \in 1..Len(CreateSteps(k))
  PROVE  Gives(CreateSteps(k)[n]) \subseteq Things(k)
<1> DEFINE s == CreateSteps(k)[n]
<1>1. CASE k \in Containers
  <2>1. n \in 1..3 BY <1>1, ContainerTable
  <2>2. n = 1 \/ n = 2 \/ n = 3 BY <2>1
  <2>3. s \in {"container", "start", "worker"} BY <1>1, <2>2, ContainerTable
  <2> HIDE DEF s
  <2>4. Gives(s) \subseteq Things(k) BY <1>1, <2>3 DEF Gives, Things, Containers
  <2>5. QED BY <2>4 DEF s
<1>2. CASE k = "gvisor"
  <2>1. n \in 1..5 BY <1>2, GVisorTable
  <2>2. n = 1 \/ n = 2 \/ n = 3 \/ n = 4 \/ n = 5 BY <2>1
  <2>3. s \in {"image", "bundle", "run", "started", "connected"}
    BY <1>2, <2>2, GVisorTable
  <2> HIDE DEF s
  <2>4. Gives(s) \subseteq Things(k) BY <1>2, <2>3 DEF Gives, Things, Containers
  <2>5. QED BY <2>4 DEF s
<1>3. CASE k = "firecracker"
  <2>1. n \in 1..11 BY <1>3, FirecrackerTable
  <2>2. \/ n = 1 \/ n = 2 \/ n = 3 \/ n = 4 \/ n = 5 \/ n = 6 \/ n = 7 \/ n = 8
        \/ n = 9 \/ n = 10 \/ n = 11
    BY <2>1
  <2>3. s \in {"dir", "binary", "image", "rootfs", "tap", "spawn", "socket",
               "configure", "boot", "connected", "register"}
    BY <1>3, <2>2, FirecrackerTable
  <2> HIDE DEF s
  <2>4. Gives(s) \subseteq Things(k) BY <1>3, <2>3 DEF Gives, Things, Containers
  <2>5. QED BY <2>4 DEF s
<1>4. CASE k = "local"
  <2>1. n \in 1..2 BY <1>4, LocalTable
  <2>2. s \in {"workspace", "sandbox"} BY <1>4, <2>1, LocalTable
  <2> HIDE DEF s
  <2>4. Gives(s) \subseteq Things(k) BY <1>4, <2>2 DEF Gives, Things, Containers
  <2>5. QED BY <2>4 DEF s
<1>5. CASE k = "wasm"
  <2>1. n \in 1..2 BY <1>5, WasmTable
  <2>2. s \in {"vfs", "sandbox"} BY <1>5, <2>1, WasmTable
  <2> HIDE DEF s
  <2>4. Gives(s) \subseteq Things(k) BY <1>5, <2>2 DEF Gives, Things, Containers
  <2>5. QED BY <2>4 DEF s
<1>6. QED BY <1>1, <1>2, <1>3, <1>4, <1>5, KindIs

\* A create that stops anywhere leaves a trace.
LEMMA MadeTraced ==
  ASSUME NEW k \in Kinds, NEW h, NEW e \in BOOLEAN, NEW f, NEW a \in BOOLEAN,
         NEW n \in Nat, Made(k, h, e, f, a, n), h \subseteq Things(k),
         k \in Containers => ~e, k \notin HasFsm => f = None
  PROVE  Traced(k, h, e, f, a)
<1>1. CASE k \in Containers
  BY <1>1 DEF Things, Containers, HasFsm, Traced
<1>2. CASE k = "gvisor"
  BY <1>2 DEF Made, Traced
<1>3. CASE k = "firecracker"
  BY <1>3 DEF Made, Traced
<1>4. CASE k = "local"
  BY <1>4 DEF Made, Traced, Things, Containers
<1>5. CASE k = "wasm"
  BY <1>5 DEF Made, Traced, Things, Containers, HasFsm
<1>6. QED BY <1>1, <1>2, <1>3, <1>4, <1>5, KindIs

\* Before the first step nothing is made.
LEMMA NothingMade ==
  ASSUME NEW k \in Kinds, NEW e \in BOOLEAN, NEW f, NEW a \in BOOLEAN,
         Traced(k, {}, e, f, a)
  PROVE  Made(k, {}, e, f, a, 1)
BY DEF Traced, Made

------------------------------------------------------------------------------
------------------------------------------------------------------------------
(* What a step leaves alone.                                                *)

\* The record of a call, by its operation.
LEMMA CallIs ==
  ASSUME CallsTyped, NEW c \in Calls
  PROVE  /\ call[c] = Idle <=> call[c].op = "idle"
         /\ call[c] # Idle => call[c].id \in Ids /\ call[c].at \in Nat /\ call[c].op \in Ops
         /\ call[c].op = "create" => call[c] \in Creates
         /\ call[c].op = "terminate" => call[c] \in Terminates
         /\ call[c].op = "snapshot" => call[c] \in Snapshots
         /\ call[c].op = "cancel" => call[c] \in Cancels
<1>1. call[c] \in CallRecords BY DEF CallsTyped
<1>2. CASE call[c] = Idle BY <1>2 DEF Idle
<1>3. CASE call[c] \in Creates BY <1>3 DEF Creates, Idle, Ops
<1>4. CASE call[c] \in Terminates BY <1>4 DEF Terminates, Idle, Ops
<1>5. CASE call[c] \in Snapshots BY <1>5 DEF Snapshots, Idle, Ops
<1>6. CASE call[c] \in Cancels BY <1>6 DEF Cancels, Idle, Ops
<1>7. QED BY <1>1, <1>2, <1>3, <1>4, <1>5, <1>6 DEF CallRecords

\* Only sandbox i is touched, and only calls on i move.
Only(i) ==
  /\ kind' = kind
  /\ \A j \in Ids \ {i} :
       /\ host'[j] = host[j] /\ entry'[j] = entry[j] /\ fsm'[j] = fsm[j]
       /\ alive'[j] = alive[j]
       /\ (j \in created') = (j \in created) /\ (j \in tried') = (j \in tried)
       /\ (j \in ended') = (j \in ended) /\ (j \in spoiled') = (j \in spoiled)
Moves(i) ==
  \A c \in Calls : call'[c] = call[c] \/ call'[c] = Idle \/ call'[c].id = i

LEMMA KeptElsewhere ==
  ASSUME NEW i \in Ids, Only(i), NEW j \in Ids \ {i}, Kept(j)
  PROVE  Kept(j)'
BY DEF Kept, Only

LEMMA WorkingElsewhere ==
  ASSUME Sound, NEW i \in Ids, Only(i), Moves(i),
         NEW d \in Calls, call'[d] = call[d], call[d] # Idle => call[d].id # i
  PROVE  Working(d)'
<1>1. Working(d) /\ call'[d] = call[d] /\ CallsTyped
  BY DEF Sound, Moves
<1>2. CASE call[d] = Idle
  BY <1>1, <1>2 DEF Working, Idle
<1>3. CASE call[d] # Idle
  <2> DEFINE j == call[d].id
  <2>1. j \in Ids \ {i} BY <1>1, <1>3, CallIs
  <2>2. /\ kind'[j] = kind[j] /\ host'[j] = host[j] /\ entry'[j] = entry[j]
        /\ fsm'[j] = fsm[j] /\ alive'[j] = alive[j]
        /\ (j \in created') = (j \in created) /\ (j \in tried') = (j \in tried)
        /\ (j \in spoiled') = (j \in spoiled)
    BY <2>1 DEF Only
  <2>3. call[d].op = "create" => Creating(d)'
    <3> SUFFICES ASSUME call[d].op = "create" PROVE Creating(d)' OBVIOUS
    <3>1. Creating(d) BY <1>1 DEF Working
    <3>2. \A b \in Calls \ {d} : call'[b] # Idle => call'[b].id # j
      <4> SUFFICES ASSUME NEW b \in Calls \ {d}, call'[b] # Idle PROVE call'[b].id # j OBVIOUS
      <4>1. CASE call'[b] = call[b] BY <4>1, <3>1 DEF Creating
      <4>2. CASE call'[b].id = i BY <4>2, <2>1
      <4>3. QED BY <4>1, <4>2 DEF Moves
    <3>3. QED BY <1>1, <2>2, <3>1, <3>2 DEF Creating
  <2>4. call[d].op = "terminate" => Terminating(d)'
    BY <1>1, <2>2 DEF Terminating, Working
  <2>5. call[d].op \in {"snapshot", "cancel"} => call[d].id \in created'
    BY <1>1, <2>2 DEF Working
  <2>6. call[d].op = "cancel" => kind'[j] = "podman"
    BY <1>1, <2>2 DEF Working
  <2>7. QED BY <1>1, <2>3, <2>4, <2>5, <2>6 DEF Working
<1>4. QED BY <1>2, <1>3

\* What is gone of sandbox i is still gone after the step.
StaysGone(i) ==
  \A m \in Nat :
    Gone(kind[i], host[i], entry[i], fsm[i], alive[i], i \in spoiled, m) =>
      Gone(kind'[i], host'[i], entry'[i], fsm'[i], alive'[i], i \in spoiled', m)

\* The calls beside the one that works on a sandbox that was created.
LEMMA WorkingBeside ==
  ASSUME Sound, NEW i \in created, Only(i), Moves(i),
         i \in created', i \in tried => i \in tried', On(i, {"terminate"}) => StaysGone(i),
         NEW d \in Calls, call'[d] = call[d]
  PROVE  Working(d)'
<1>1. /\ Working(d) /\ call'[d] = call[d] /\ CallsTyped /\ StateTyped
      /\ i \in Ids /\ kind[i] \in Kinds /\ kind' = kind
  BY DEF Sound, Moves, StateTyped, Only
<1>2. CASE call[d] # Idle => call[d].id # i
  BY <1>1, <1>2, WorkingElsewhere
<1>3. CASE call[d] # Idle /\ call[d].id = i
  <2>1. call[d].op # "create"
    BY <1>1, <1>3 DEF Working, Creating
  <2>2. call[d].op = "terminate" => Terminating(d)'
    <3> SUFFICES ASSUME call[d].op = "terminate" PROVE Terminating(d)' OBVIOUS
    <3>1. Terminating(d) BY <1>1 DEF Working
    <3>2. On(i, {"terminate"}) BY <1>3 DEF On
    <3>3. call[d].at - 1 \in Nat
      BY <1>1, <1>3, <3>1, StepsBounded DEF Terminating
    <3>4. Gone(kind'[i], host'[i], entry'[i], fsm'[i], alive'[i], i \in spoiled',
               call[d].at - 1)
      BY <1>3, <3>1, <3>2, <3>3 DEF Terminating, StaysGone
    <3>5. QED BY <1>1, <1>3, <3>1, <3>4 DEF Terminating
  <2>3. QED BY <1>1, <1>3, <2>1, <2>2 DEF Working
<1>4. QED BY <1>2, <1>3

\* A sandbox that only loses things.
LEMMA LosesStaysGone ==
  ASSUME StateTyped, NEW i \in Ids, kind' = kind, host'[i] \subseteq host[i],
         entry'[i] => entry[i], alive'[i] => alive[i],
         fsm'[i] = fsm[i] \/ fsm'[i] = None, spoiled \subseteq spoiled'
  PROVE  StaysGone(i)
BY DEF Gone, StaysGone

\* Bundles that some terminate holds are still held when that terminate goes on
\* and no sandbox newly loses its entry.
LEMMA BundleStays ==
  ASSUME BundleHeld, kind' = kind,
         \A i \in created' \ spoiled' :
           kind[i] = "gvisor" /\ "bundle" \in host'[i] /\ ~entry'[i] =>
             i \in created \ spoiled /\ "bundle" \in host[i] /\ ~entry[i],
         \A c \in Calls : call[c].op = "terminate" =>
           call'[c].op = "terminate" /\ call'[c].id = call[c].id
             /\ (call[c].bundle => call'[c].bundle)
  PROVE  BundleHeld'
BY DEF BundleHeld

\* The same for paused VMs.
LEMMA PauseStays ==
  ASSUME PauseHeld, kind' = kind, stuck' = stuck,
         \A i \in Ids : paused'[i] => paused[i],
         \A c \in Calls : call[c].op = "snapshot" =>
           call'[c].op = "snapshot" /\ call'[c].id = call[c].id /\ call'[c].at = call[c].at
  PROVE  PauseHeld'
BY DEF PauseHeld

\* A step of terminate, taken when n - 1 are done.
LEMMA GoneStep ==
  ASSUME StateTyped, NEW i \in Ids, kind' = kind,
         NEW n \in 1..Len(TerminateSteps(kind[i])), NEW s, s = TerminateSteps(kind[i])[n],
         Gone(kind[i], host[i], entry[i], fsm[i], alive[i], i \in spoiled, n - 1),
         \/ /\ i \in spoiled' <=> i \in spoiled
            /\ host'[i] \subseteq host[i]
            /\ s # "unbundle" => host'[i] = host[i] \ Frees(s)
         \/ i \in spoiled' /\ host'[i] = host[i] /\ s \in Lenient,
         entry'[i] => entry[i] /\ s \notin Unmaps,
         alive'[i] => alive[i] /\ s \notin Stops,
         fsm'[i] = IF s \in Unregisters THEN Removed ELSE fsm[i]
  PROVE  Gone(kind'[i], host'[i], entry'[i], fsm'[i], alive'[i], i \in spoiled', n)
<1>00. kind[i] \in Kinds BY DEF StateTyped
<1>0. \/ /\ i \in spoiled' <=> i \in spoiled
         /\ host'[i] \subseteq host[i]
         /\ s # "unbundle" => host'[i] = host[i] \ Frees(s)
      \/ i \in spoiled' /\ host'[i] = host[i] /\ s \in Lenient
  OBVIOUS
<1>1. CASE kind[i] \in Containers
  <2>1. n = 1 /\ s = "remove" BY <1>1, ContainerTable
  <2>2. "remove" \notin Lenient /\ "remove" \in Stops /\ Frees("remove") = {"container"}
    BY DEF Lenient, Stops, Frees
  <2>3. QED BY <1>0, <1>1, <2>1, <2>2 DEF Gone, Containers
<1>2. CASE kind[i] = "gvisor"
  <2>1. n \in 1..3 BY <1>2, GVisorTable
  <2>2. (n = 1 /\ s = "kill") \/ (n = 2 /\ s = "delete") \/ (n = 3 /\ s = "unbundle")
    <3>1. n = 1 \/ n = 2 \/ n = 3 BY <2>1
    <3>2. QED BY <1>2, <3>1, GVisorTable
  <2>3. CASE n = 1 /\ s = "kill"
    <3>1. s \notin Lenient /\ s \in Stops /\ s \in Unmaps /\ Frees(s) = {"process"}
      BY <2>3 DEF Lenient, Stops, Frees, Unmaps
    <3>2. QED BY <1>0, <1>2, <2>3, <3>1 DEF Gone, Containers
  <2>4. CASE n = 2 /\ s = "delete"
    <3>1. s \in Unregisters /\ Frees(s) = {"container"} /\ Removed = None
      BY <2>4 DEF Unregisters, Frees, Removed
    <3>2. QED BY <1>0, <1>2, <2>4, <3>1 DEF Gone, Containers
  <2>5. CASE n = 3 /\ s = "unbundle"
    <3>1. s \notin Unregisters
      BY <2>5 DEF Unregisters
    <3>2. QED BY <1>0, <1>2, <2>5, <3>1 DEF Gone, Containers
  <2>6. QED BY <2>2, <2>3, <2>4, <2>5
<1>3. CASE kind[i] = "firecracker"
  <2>1. n \in 1..3 BY <1>3, FirecrackerTable
  <2>2. (n = 1 /\ s = "kill") \/ (n = 2 /\ s = "teardown") \/ (n = 3 /\ s = "undir")
    <3>1. n = 1 \/ n = 2 \/ n = 3 BY <2>1
    <3>2. QED BY <1>3, <3>1, FirecrackerTable
  <2>3. CASE n = 1 /\ s = "kill"
    <3>1. s \notin Lenient /\ s \in Stops /\ s \in Unmaps /\ Frees(s) = {"process"}
      BY <2>3 DEF Lenient, Stops, Frees, Unmaps
    <3>2. QED BY <1>0, <1>3, <2>3, <3>1 DEF Gone, Containers
  <2>4. CASE n = 2 /\ s = "teardown"
    <3>1. s \in Unregisters /\ Frees(s) = {"tap"} /\ Removed = None
      BY <2>4 DEF Unregisters, Frees, Removed
    <3>2. QED BY <1>0, <1>3, <2>4, <3>1 DEF Gone, Containers
  <2>5. CASE n = 3 /\ s = "undir"
    <3>1. s \notin Unregisters /\ Frees(s) = {"dir"}
      BY <2>5 DEF Unregisters, Frees
    <3>2. QED BY <1>0, <1>3, <2>5, <3>1 DEF Gone, Containers
  <2>6. QED BY <2>2, <2>3, <2>4, <2>5
<1>4. CASE kind[i] = "local"
  <2>1. n \in 1..2 BY <1>4, LocalTable
  <2>2. (n = 1 /\ s = "unworkspace") \/ (n = 2 /\ s = "forget")
    <3>1. n = 1 \/ n = 2 BY <2>1
    <3>2. QED BY <1>4, <3>1, LocalTable
  <2>3. CASE n = 1 /\ s = "unworkspace"
    <3>1. s \in Stops /\ Frees(s) = {"workspace"}
      BY <2>3 DEF Stops, Frees
    <3>2. QED BY <1>0, <1>4, <2>3, <3>1 DEF Gone, Containers
  <2>4. CASE n = 2 /\ s = "forget"
    <3>1. s \in Unregisters /\ s \in Unmaps /\ Removed = None /\ s \notin Lenient
      BY <2>4 DEF Unregisters, Unmaps, Removed, Lenient
    <3>2. QED BY <1>0, <1>4, <2>4, <3>1 DEF Gone, Containers
  <2>5. QED BY <2>2, <2>3, <2>4
<1>5. CASE kind[i] = "wasm"
  <2>1. n \in 1..2 BY <1>5, WasmTable
  <2>2. (n = 1 /\ s = "unvfs") \/ (n = 2 /\ s = "forget")
    <3>1. n = 1 \/ n = 2 BY <2>1
    <3>2. QED BY <1>5, <3>1, WasmTable
  <2>3. CASE n = 1 /\ s = "unvfs"
    <3>1. s \in Stops /\ Frees(s) = {"vfs"} /\ s \notin Lenient
      BY <2>3 DEF Stops, Frees, Lenient
    <3>2. QED BY <1>0, <1>5, <2>3, <3>1 DEF Gone, Containers
  <2>4. CASE n = 2 /\ s = "forget"
    <3>1. s \in Unmaps /\ s \notin Lenient
      BY <2>4 DEF Unmaps, Lenient
    <3>2. QED BY <1>0, <1>5, <2>4, <3>1 DEF Gone, Containers
  <2>5. QED BY <2>2, <2>3, <2>4
<1>6. QED BY <1>1, <1>2, <1>3, <1>4, <1>5, <1>00, KindIs

------------------------------------------------------------------------------
(* How a call's record moves.                                               *)

LEMMA BeginCall ==
  ASSUME CallsTyped, NEW c \in Calls, NEW r \in CallRecords, Begin(c, r)
  PROVE  /\ CallsTyped' /\ Moves(r.id) /\ call'[c] = r
         /\ call[c].op = "idle" /\ \A d \in Calls \ {c} : call'[d] = call[d]
BY DEF CallsTyped, Begin, Moves, Idle

LEMMA ReturnCall ==
  ASSUME CallsTyped, NEW c \in Calls, NEW i, Return(c)
  PROVE  /\ CallsTyped' /\ Moves(i) /\ call'[c] = Idle /\ Working(c)'
         /\ \A d \in Calls \ {c} : call'[d] = call[d]
BY DEF CallsTyped, Return, Moves, CallRecords, Working, Idle

LEMMA AdvanceCall ==
  ASSUME CallsTyped, NEW c \in Calls, NEW steps, Advance(c, steps),
         call[c] \in Creates \/ call[c] \in Snapshots
  PROVE  /\ CallsTyped' /\ Moves(call[c].id)
         /\ \A d \in Calls \ {c} : call'[d] = call[d]
         /\ call[c].at = Len(steps) => call'[c] = Idle /\ Working(c)'
         /\ call[c].at # Len(steps) =>
              /\ call'[c].op = call[c].op /\ call'[c].id = call[c].id
              /\ call'[c].at = call[c].at + 1
<1> DEFINE r == [call[c] EXCEPT !.at = @ + 1]
<1>1. /\ call[c] \in Creates => r \in Creates
      /\ call[c] \in Snapshots => r \in Snapshots
      /\ r.op = call[c].op /\ r.id = call[c].id /\ r.at = call[c].at + 1
  BY DEF Creates, Snapshots
<1>2. call' = [call EXCEPT ![c] = IF call[c].at = Len(steps) THEN Idle ELSE r]
  BY DEF Advance
<1> HIDE DEF r
<1>3. r \in CallRecords BY <1>1 DEF CallRecords
<1>4. /\ call'[c] = IF call[c].at = Len(steps) THEN Idle ELSE r
      /\ \A d \in Calls \ {c} : call'[d] = call[d]
      /\ Idle \in CallRecords
  BY <1>2 DEF CallsTyped, CallRecords
<1>5. CallsTyped' BY <1>2, <1>3, <1>4 DEF CallsTyped
<1>6. Moves(call[c].id) BY <1>1, <1>4 DEF Moves
<1>7. call[c].at = Len(steps) => Working(c)'
  BY <1>4 DEF Working, Idle
<1>8. QED BY <1>1, <1>4, <1>5, <1>6, <1>7

------------------------------------------------------------------------------
(* Every action keeps the invariant.                                        *)

LEMMA CreateBeginSound ==
  ASSUME Sound, NEW c \in Calls, NEW i \in Ids, CreateBegin(c, i)
  PROVE  Sound'
<1> DEFINE r == [op |-> "create", id |-> i, at |-> 1]
<1>0. StateTyped /\ CallsTyped /\ BundleHeld /\ PauseHeld /\ kind[i] \in Kinds /\ Kept(i)
  BY DEF Sound, StateTyped
<1>1. r \in CallRecords /\ r.op = "create" /\ r.id = i /\ r.at = 1
  BY DEF CallRecords, Creates
<1>2. Begin(c, r) BY DEF CreateBegin
<1> HIDE DEF r
<1>3. /\ CallsTyped' /\ Moves(i) /\ call'[c] = r /\ call[c].op = "idle"
      /\ \A d \in Calls \ {c} : call'[d] = call[d]
  BY <1>0, <1>1, <1>2, BeginCall
<1>4. StateTyped' BY <1>0 DEF StateTyped, CreateBegin
<1>5. Only(i) BY DEF Only, CreateBegin
<1>6. \A d \in Calls : call[d] # Idle => call[d].id # i
  BY <1>0, CallIs DEF CreateBegin, Unused, On
<1>7. \A j \in Ids : Kept(j)'
  BY DEF Sound, Kept, CreateBegin
<1>8. \A d \in Calls \ {c} : Working(d)'
  BY <1>3, <1>5, <1>6, WorkingElsewhere
<1>9. Working(c)'
  <2>1. /\ i \notin created /\ host[i] = {} /\ entry[i] \in BOOLEAN /\ alive[i] \in BOOLEAN
        /\ Traced(kind[i], host[i], entry[i], fsm[i], alive[i])
    BY <1>0 DEF CreateBegin, Unused, Kept, StateTyped
  <2>2. Made(kind[i], host[i], entry[i], fsm[i], alive[i], 1)
    BY <1>0, <2>1, NothingMade
  <2>3. 1 \in 1..Len(CreateSteps(kind[i]))
    <3>1. Len(CreateSteps(kind[i])) \in 2..11 BY <1>0, StepsBounded
    <3> DEFINE l == Len(CreateSteps(kind[i]))
    <3> HIDE DEF l
    <3>2. l \in 2..11 => 1 \in 1..l OBVIOUS
    <3>3. QED BY <3>1, <3>2 DEF l
  <2>4. \A d \in Calls \ {c} : call'[d] # Idle => call'[d].id # i
    BY <1>3, <1>6
  <2>5. Creating(c)'
    BY <1>1, <1>3, <2>1, <2>2, <2>3, <2>4 DEF Creating, CreateBegin
  <2>6. QED BY <1>1, <1>3, <2>5 DEF Working
<1>10. BundleHeld'
  BY <1>0, <1>3, BundleStays DEF CreateBegin
<1>11. PauseHeld'
  BY <1>0, <1>3, PauseStays DEF CreateBegin
<1>12. QED BY <1>3, <1>4, <1>7, <1>8, <1>9, <1>10, <1>11 DEF Sound

LEMMA CreateStepSound ==
  ASSUME Sound, NEW c \in Calls, CreateStep(c)
  PROVE  Sound'
<1>a. PICK i : i = call[c].id OBVIOUS
<1> DEFINE k == kind[i]
           n == call[c].at
           s == CreateSteps(k)[n]
<1>0. /\ StateTyped /\ CallsTyped /\ BundleHeld /\ PauseHeld
      /\ call[c].op = "create" /\ call[c] # Idle /\ Creating(c)
  BY <1>a DEF Sound, Working, CreateStep, Step
<1>1. /\ i \in Ids /\ k \in Kinds /\ n \in 1..Len(CreateSteps(k)) /\ i \notin created
      /\ \A d \in Calls \ {c} : call[d] # Idle => call[d].id # i
      /\ Made(k, host[i], entry[i], fsm[i], alive[i], n)
      /\ call[c] \in Creates
  BY <1>0, <1>a, CallIs DEF StateTyped, Creating
<1>2. /\ kind' = kind /\ paused' = paused /\ ended' = ended /\ spoiled' = spoiled
      /\ tried' = tried /\ stuck' = stuck
      /\ host' = [host EXCEPT ![i] = @ \cup Gives(s)]
      /\ entry' = [entry EXCEPT ![i] = @ \/ (k \notin Containers /\ s = Maps(k))]
      /\ fsm' = [fsm EXCEPT ![i] = IF k \in HasFsm /\ s = Registers(k) THEN "Running" ELSE @]
      /\ alive' = [alive EXCEPT ![i] = @ \/ s \in Starts]
      /\ created' = IF n = Len(CreateSteps(k)) THEN created \cup {i} ELSE created
      /\ Advance(c, CreateSteps(k))
  BY <1>a DEF CreateStep
<1>3. /\ CallsTyped' /\ Moves(i) /\ \A d \in Calls \ {c} : call'[d] = call[d]
      /\ n = Len(CreateSteps(k)) => Working(c)'
      /\ n # Len(CreateSteps(k)) =>
           call'[c].op = "create" /\ call'[c].id = i /\ call'[c].at = n + 1
  BY <1>0, <1>1, <1>2, <1>a, AdvanceCall
<1>4. Made(kind'[i], host'[i], entry'[i], fsm'[i], alive'[i], n + 1)
  <2>1. entry[i] \in BOOLEAN /\ alive[i] \in BOOLEAN BY <1>0, <1>1 DEF StateTyped
  <2>2. MadeNext(k, host[i], entry[i], fsm[i], alive[i], n)
    BY <1>1, <2>1, MadeStep
  <2>3. /\ kind'[i] = k /\ host'[i] = host[i] \cup Gives(s)
        /\ entry'[i] = (entry[i] \/ (k \notin Containers /\ s = Maps(k)))
        /\ fsm'[i] = (IF k \in HasFsm /\ s = Registers(k) THEN "Running" ELSE fsm[i])
        /\ alive'[i] = (alive[i] \/ s \in Starts)
    BY <1>0, <1>1, <1>2 DEF StateTyped
  <2>4. QED BY <2>2, <2>3 DEF MadeNext
<1>5. Gives(s) \subseteq Things(k) /\ Gives(s) \subseteq AllThings
  <2>1. Gives(s) \subseteq Things(k) BY <1>1, GivesThings
  <2>2. Things(k) \subseteq AllThings BY <1>1, KindIs DEF Things, AllThings, Containers
  <2>3. QED BY <2>1, <2>2
<1> HIDE DEF s
<1>6. StateTyped'
  BY <1>0, <1>1, <1>2, <1>5 DEF StateTyped
<1>7. Only(i)
  BY <1>0, <1>1, <1>2 DEF Only, StateTyped
<1>8. \A d \in Calls \ {c} : Working(d)'
  BY <1>1, <1>3, <1>7, WorkingElsewhere
<1>9. Working(c)'
  <2>1. CASE n = Len(CreateSteps(k)) BY <1>3, <2>1
  <2>2. CASE n # Len(CreateSteps(k))
    <3>1. n + 1 \in 1..Len(CreateSteps(k)) BY <1>1, <2>2, StepsBounded
    <3>2. \A d \in Calls \ {c} : call'[d] # Idle => call'[d].id # i BY <1>1, <1>3
    <3>3. Creating(c)'
      BY <1>1, <1>2, <1>3, <1>4, <2>2, <3>1, <3>2 DEF Creating
    <3>4. QED BY <1>3, <2>2, <3>3 DEF Working
  <2>3. QED BY <2>1, <2>2
<1>10. Kept(i)'
  <2>1. Kept(i) /\ n + 1 \in Nat BY <1>1, StepsBounded DEF Sound
  <2>2. /\ host'[i] \subseteq Things(kind'[i]) /\ kind'[i] \in Kinds
        /\ kind'[i] \in Containers => ~entry'[i]
        /\ kind'[i] \notin HasFsm => fsm'[i] = None
        /\ entry'[i] \in BOOLEAN /\ alive'[i] \in BOOLEAN
    BY <1>0, <1>1, <1>2, <1>5, <2>1 DEF Kept, StateTyped
  <2>3. Traced(kind'[i], host'[i], entry'[i], fsm'[i], alive'[i])
    BY <1>4, <2>1, <2>2, MadeTraced
  <2>4. i \notin ended'
    BY <1>0, <1>1, <1>2 DEF StateTyped
  <2>5. i \in created' => n = Len(CreateSteps(kind'[i]))
    BY <1>1, <1>2
  <2>6. i \in created' =>
          Made(kind'[i], host'[i], entry'[i], fsm'[i], alive'[i],
               Len(CreateSteps(kind'[i])) + 1)
    BY <1>4, <2>5, Zenon
  <2>7. QED BY <2>2, <2>3, <2>4, <2>6 DEF Kept
<1>11. \A j \in Ids : Kept(j)'
  <2>1. \A j \in Ids \ {i} : Kept(j)' BY <1>1, <1>7, KeptElsewhere DEF Sound
  <2>2. QED BY <1>10, <2>1
<1>12. BundleHeld'
  <2>1. \A j \in created' \ spoiled' :
          kind[j] = "gvisor" /\ "bundle" \in host'[j] /\ ~entry'[j] =>
            j \in created \ spoiled /\ "bundle" \in host[j] /\ ~entry[j]
    <3> SUFFICES ASSUME NEW j \in created' \ spoiled', kind[j] = "gvisor",
                        "bundle" \in host'[j], ~entry'[j]
                 PROVE  j \in created \ spoiled /\ "bundle" \in host[j] /\ ~entry[j]
      OBVIOUS
    <3>1. CASE j = i
      <4>1. n = 5 BY <1>1, <1>2, <3>1, GVisorTable
      <4>2. QED BY <1>2, <1>4, <3>1, <4>1 DEF Made
    <3>2. CASE j # i
      <4>1. j \in Ids \ {i} BY <1>6, <3>2 DEF StateTyped
      <4>2. QED BY <1>7, <4>1 DEF Only
    <3>3. QED BY <3>1, <3>2
  <2>2. \A d \in Calls : call[d].op = "terminate" => d # c
    BY <1>0
  <2>3. QED BY <1>0, <1>2, <1>3, <2>1, <2>2, BundleStays
<1>13. PauseHeld'
  BY <1>0, <1>2, <1>3, PauseStays
<1>14. QED BY <1>3, <1>6, <1>8, <1>9, <1>11, <1>12, <1>13 DEF Sound

\* An error ends a create; what exists by then stays.
LEMMA CreateFailsSound ==
  ASSUME Sound, NEW c \in Calls, CreateFails(c)
  PROVE  Sound'
<1>a. PICK i : i = call[c].id OBVIOUS
<1> DEFINE k == kind[i]
           n == call[c].at
           s == CreateSteps(k)[n]
<1>0. /\ StateTyped /\ CallsTyped /\ BundleHeld /\ PauseHeld
      /\ call[c].op = "create" /\ call[c] # Idle /\ Creating(c)
  BY <1>a DEF Sound, Working, CreateFails, Step
<1>1. /\ i \in Ids /\ k \in Kinds /\ n \in 1..Len(CreateSteps(k)) /\ i \notin created
      /\ \A d \in Calls \ {c} : call[d] # Idle => call[d].id # i
      /\ Made(k, host[i], entry[i], fsm[i], alive[i], n)
  BY <1>0, <1>a, CallIs DEF StateTyped, Creating
<1>2. /\ kind' = kind /\ entry' = entry /\ fsm' = fsm /\ alive' = alive /\ paused' = paused
      /\ ended' = ended /\ spoiled' = spoiled /\ tried' = tried /\ stuck' = stuck
      /\ created' = created /\ Return(c)
      /\ \/ host' = host
         \/ s = "bundle" /\ host' = [host EXCEPT ![i] = @ \cup Gives(s)]
  BY <1>a DEF CreateFails, Partial
<1>3. /\ CallsTyped' /\ Moves(i) /\ \A d \in Calls \ {c} : call'[d] = call[d]
      /\ Working(c)'
  BY <1>0, <1>2, ReturnCall
<1>5. Gives(s) \subseteq Things(k) /\ Gives(s) \subseteq AllThings
  <2>1. Gives(s) \subseteq Things(k) BY <1>1, GivesThings
  <2>2. Things(k) \subseteq AllThings BY <1>1, KindIs DEF Things, AllThings, Containers
  <2>3. QED BY <2>1, <2>2
<1> HIDE DEF s
<1>6. StateTyped'
  BY <1>0, <1>1, <1>2, <1>5 DEF StateTyped
<1>7. Only(i)
  BY <1>0, <1>1, <1>2 DEF Only, StateTyped
<1>8. \A d \in Calls \ {c} : Working(d)'
  BY <1>1, <1>3, <1>7, WorkingElsewhere
<1>10. Kept(i)'
  <2>1. Kept(i) /\ entry[i] \in BOOLEAN /\ alive[i] \in BOOLEAN
    BY <1>0, <1>1 DEF Sound, StateTyped
  <2>2. Traced(k, host[i], entry[i], fsm[i], alive[i])
    BY <1>1, <2>1 DEF Kept
  <2>3. /\ host[i] \subseteq host'[i] /\ host'[i] \subseteq Things(k)
        /\ "process" \in host'[i] => "process" \in host[i]
    BY <1>0, <1>1, <1>2, <1>5, <2>1 DEF Kept, StateTyped, Gives
  <2>4. Traced(kind'[i], host'[i], entry'[i], fsm'[i], alive'[i])
    BY <1>2, <2>2, <2>3 DEF Traced
  <2>5. i \notin ended' /\ i \notin created'
    BY <1>0, <1>1, <1>2 DEF StateTyped
  <2>6. QED BY <1>2, <2>1, <2>3, <2>4, <2>5 DEF Kept
<1>11. \A j \in Ids : Kept(j)'
  <2>1. \A j \in Ids \ {i} : Kept(j)' BY <1>1, <1>7, KeptElsewhere DEF Sound
  <2>2. QED BY <1>10, <2>1
<1>12. BundleHeld'
  <2>1. \A j \in created : host'[j] = host[j]
    BY <1>0, <1>1, <1>2 DEF StateTyped
  <2>2. \A d \in Calls : call[d].op = "terminate" => d # c
    BY <1>0
  <2>3. QED BY <1>0, <1>2, <1>3, <2>1, <2>2, BundleStays
<1>13. PauseHeld'
  BY <1>0, <1>2, <1>3, PauseStays
<1>14. QED BY <1>3, <1>6, <1>8, <1>11, <1>12, <1>13 DEF Sound

LEMMA TerminateBeginSound ==
  ASSUME Sound, NEW c \in Calls, NEW i \in Ids, TerminateBegin(c, i)
  PROVE  Sound'
<1> DEFINE r == [op |-> "terminate", id |-> i, at |-> 1, bundle |-> FALSE]
<1>0. /\ StateTyped /\ CallsTyped /\ BundleHeld /\ PauseHeld
      /\ kind[i] \in Kinds /\ i \in created
  BY DEF Sound, StateTyped, TerminateBegin
<1>1. r \in CallRecords /\ r.op = "terminate" /\ r.id = i /\ r.at = 1
  BY DEF CallRecords, Terminates
<1>2. Begin(c, r) BY DEF TerminateBegin
<1> HIDE DEF r
<1>3. /\ CallsTyped' /\ Moves(i) /\ call'[c] = r /\ call[c].op = "idle"
      /\ \A d \in Calls \ {c} : call'[d] = call[d]
  BY <1>0, <1>1, <1>2, BeginCall
<1>4. StateTyped' BY <1>0 DEF StateTyped, TerminateBegin
<1>5. Only(i) BY DEF Only, TerminateBegin
<1>6. StaysGone(i) BY <1>0, LosesStaysGone DEF TerminateBegin
<1>7. \A j \in Ids : Kept(j)'
  BY DEF Sound, Kept, TerminateBegin
<1>8. \A d \in Calls \ {c} : Working(d)'
  <2>1. i \in created' /\ i \in tried' BY <1>0 DEF TerminateBegin
  <2>2. QED BY <1>0, <1>3, <1>5, <1>6, <2>1, WorkingBeside
<1>9. Working(c)'
  <2>1. 1 \in 1..Len(TerminateSteps(kind[i]))
    <3>1. Len(TerminateSteps(kind[i])) \in 1..3 BY <1>0, StepsBounded
    <3> DEFINE l == Len(TerminateSteps(kind[i]))
    <3> HIDE DEF l
    <3>2. l \in 1..3 => 1 \in 1..l OBVIOUS
    <3>3. QED BY <3>1, <3>2 DEF l
  <2>2. Gone(kind[i], host[i], entry[i], fsm[i], alive[i], i \in spoiled, 1 - 1)
    BY DEF Gone
  <2>3. Terminating(c)'
    BY <1>1, <1>3, <2>1, <2>2 DEF Terminating, TerminateBegin
  <2>4. QED BY <1>1, <1>3, <2>3 DEF Working
<1>10. BundleHeld'
  BY <1>0, <1>3, BundleStays DEF TerminateBegin
<1>11. PauseHeld'
  BY <1>0, <1>3, PauseStays DEF TerminateBegin
<1>12. QED BY <1>3, <1>4, <1>7, <1>8, <1>9, <1>10, <1>11 DEF Sound

\* The record of a terminate after one of its steps.
Resumes(c, l, b) ==
  call' = [call EXCEPT ![c] = IF call[c].at = l THEN Idle
                              ELSE [call[c] EXCEPT !.at = call[c].at + 1,
                                                   !.bundle = call[c].bundle \/ b]]
LEMMA TerminateCall ==
  ASSUME CallsTyped, NEW c \in Calls, call[c].op = "terminate", NEW l, NEW b \in BOOLEAN,
         Resumes(c, l, b)
  PROVE  /\ CallsTyped' /\ Moves(call[c].id)
         /\ \A d \in Calls \ {c} : call'[d] = call[d]
         /\ call[c].at = l => call'[c] = Idle /\ Working(c)'
         /\ call[c].at # l =>
              /\ call'[c].op = "terminate" /\ call'[c].id = call[c].id
              /\ call'[c].at = call[c].at + 1
              /\ call'[c].bundle = (call[c].bundle \/ b)
<1> DEFINE q == [call[c] EXCEPT !.at = call[c].at + 1]
           r == [q EXCEPT !.bundle = call[c].bundle \/ b]
<1>0. call[c] \in Terminates BY CallIs
<1>1. /\ q \in Terminates /\ q.op = "terminate" /\ q.id = call[c].id
      /\ q.at = call[c].at + 1
  BY <1>0 DEF Terminates
<1>2. call' = [call EXCEPT ![c] = IF call[c].at = l THEN Idle ELSE r]
  BY DEF Resumes
<1> HIDE DEF q
<1>3. /\ r \in Terminates /\ r.op = "terminate" /\ r.id = call[c].id
      /\ r.at = call[c].at + 1 /\ r.bundle = (call[c].bundle \/ b)
  BY <1>0, <1>1 DEF Terminates
<1> HIDE DEF r
<1>4. /\ call'[c] = IF call[c].at = l THEN Idle ELSE r
      /\ \A d \in Calls \ {c} : call'[d] = call[d]
      /\ Idle \in CallRecords /\ r \in CallRecords
  BY <1>2, <1>3 DEF CallsTyped, CallRecords
<1>5. CallsTyped' BY <1>2, <1>4 DEF CallsTyped
<1>6. Moves(call[c].id) BY <1>3, <1>4 DEF Moves
<1>7. call[c].at = l => Working(c)' BY <1>4 DEF Working, Idle
<1>8. QED BY <1>3, <1>4, <1>5, <1>6, <1>7

LEMMA TerminateStepSound ==
  ASSUME Sound, NEW c \in Calls, TerminateStep(c)
  PROVE  Sound'
<1>a. PICK i : i = call[c].id OBVIOUS
<1>b. PICK s : s = TerminateSteps(kind[i])[call[c].at] OBVIOUS
<1> DEFINE k == kind[i]
           n == call[c].at
           g == IF s = "unbundle" /\ ~call[c].bundle THEN {} ELSE Frees(s)
           l == Len(TerminateSteps(k))
<1>0. /\ StateTyped /\ CallsTyped /\ BundleHeld /\ PauseHeld
      /\ call[c].op = "terminate" /\ call[c] # Idle /\ Terminating(c)
  BY DEF Sound, Working, TerminateStep, Step
<1>1. /\ i \in Ids /\ k \in Kinds /\ n \in 1..l /\ i \in tried /\ i \in created
      /\ Gone(k, host[i], entry[i], fsm[i], alive[i], i \in spoiled, n - 1)
      /\ call[c] \in Terminates /\ Kept(i)
  BY <1>0, <1>a, CallIs DEF StateTyped, Terminating, Sound
<1>2. /\ kind' = kind /\ created' = created /\ tried' = tried /\ stuck' = stuck
      /\ \/ host' = [host EXCEPT ![i] = @ \ g] /\ spoiled' = spoiled
         \/ s \in Lenient /\ spoiled' = spoiled \cup {i} /\ host' = host
      /\ entry' = [entry EXCEPT ![i] = @ /\ s \notin Unmaps]
      /\ fsm' = [fsm EXCEPT ![i] = IF s \in Unregisters THEN Removed ELSE @]
      /\ alive' = [alive EXCEPT ![i] = @ /\ s \notin Stops]
      /\ paused' = [paused EXCEPT ![i] = @ /\ s # "kill"]
      /\ ended' = IF n = l THEN ended \cup {i} ELSE ended
      /\ call' = [call EXCEPT ![c] =
                    IF call[c].at = l THEN Idle
                    ELSE [call[c] EXCEPT !.at = call[c].at + 1,
                            !.bundle = call[c].bundle \/ (s = "kill" /\ entry[i])]]
  BY <1>a, <1>b DEF TerminateStep
<1>3. /\ CallsTyped' /\ Moves(i) /\ \A d \in Calls \ {c} : call'[d] = call[d]
      /\ n = l => call'[c] = Idle /\ Working(c)'
      /\ n # l =>
           /\ call'[c].op = "terminate" /\ call'[c].id = i /\ call'[c].at = n + 1
           /\ call'[c].bundle = (call[c].bundle \/ (s = "kill" /\ entry[i]))
  <2>1. PICK b \in BOOLEAN : b = (s = "kill" /\ entry[i]) OBVIOUS
  <2>2. Resumes(c, l, b) BY <1>2, <2>1 DEF Resumes
  <2> HIDE DEF l
  <2>3. /\ CallsTyped' /\ Moves(call[c].id) /\ \A d \in Calls \ {c} : call'[d] = call[d]
        /\ call[c].at = l => call'[c] = Idle /\ Working(c)'
        /\ call[c].at # l =>
             /\ call'[c].op = "terminate" /\ call'[c].id = call[c].id
             /\ call'[c].at = call[c].at + 1 /\ call'[c].bundle = (call[c].bundle \/ b)
    BY <1>0, <2>2, TerminateCall
  <2>4. QED BY <1>a, <2>1, <2>3
<1>4. /\ kind'[i] = k /\ entry'[i] = (entry[i] /\ s \notin Unmaps)
      /\ fsm'[i] = (IF s \in Unregisters THEN Removed ELSE fsm[i])
      /\ alive'[i] = (alive[i] /\ s \notin Stops)
      /\ \/ host'[i] = host[i] \ g /\ (i \in spoiled') = (i \in spoiled)
         \/ s \in Lenient /\ (i \in spoiled') = TRUE /\ host'[i] = host[i]
  BY <1>0, <1>1, <1>2 DEF StateTyped
<1>5. Gone(kind'[i], host'[i], entry'[i], fsm'[i], alive'[i], i \in spoiled', n)
  BY <1>0, <1>1, <1>2, <1>4, <1>b, GoneStep
<1>6. StateTyped'
  <2>1. host' \in [Ids -> SUBSET AllThings] BY <1>0, <1>1, <1>2 DEF StateTyped
  <2>2. fsm' \in [Ids -> {None, "Running"}] BY <1>0, <1>1, <1>2 DEF StateTyped, Removed
  <2> HIDE DEF g
  <2>3. QED BY <1>0, <1>1, <1>2, <2>1, <2>2 DEF StateTyped
<1>7. Only(i)
  BY <1>0, <1>1, <1>2 DEF Only, StateTyped
<1>8. StaysGone(i)
  BY <1>0, <1>1, <1>2, <1>4, LosesStaysGone DEF Removed
<1>9. \A d \in Calls \ {c} : Working(d)'
  BY <1>1, <1>2, <1>3, <1>7, <1>8, WorkingBeside
<1>10. Working(c)'
  <2>1. CASE n = l BY <1>3, <2>1
  <2>2. CASE n # l
    <3>1. n + 1 \in 1..l /\ n + 1 - 1 = n BY <1>1, <2>2, StepsBounded
    <3>2. Terminating(c)'
      BY <1>1, <1>2, <1>3, <1>5, <2>2, <3>1 DEF Terminating
    <3>3. QED BY <1>3, <2>2, <3>2 DEF Working
  <2>3. QED BY <2>1, <2>2
<1>11. \A j \in Ids : Kept(j)'
  <2>1. \A j \in Ids \ {i} : Kept(j)' BY <1>1, <1>7, KeptElsewhere DEF Sound
  <2>2. Kept(i)'
    <3>1. /\ host'[i] \subseteq Things(kind'[i]) /\ (kind'[i] \in Containers => ~entry'[i])
          /\ kind'[i] \notin HasFsm => fsm'[i] = None
      BY <1>1, <1>4 DEF Kept, Removed
    <3>2. l \in Nat BY <1>1, StepsBounded
    <3>3. i \in ended' =>
            Gone(kind'[i], host'[i], entry'[i], fsm'[i], alive'[i], i \in spoiled', l)
      BY <1>1, <1>2, <1>5, <1>8, <3>2 DEF Kept, StaysGone
    <3>4. QED BY <1>1, <1>2, <1>4, <3>1, <3>3 DEF Kept
  <2>3. QED BY <2>1, <2>2
<1>12. BundleHeld'
  <2> SUFFICES ASSUME NEW j \in created', j \notin spoiled', kind'[j] = "gvisor",
                      "bundle" \in host'[j], ~entry'[j]
               PROVE  \E d \in Calls : /\ call'[d].op = "terminate" /\ call'[d].id = j
                                        /\ call'[d].bundle
    BY DEF BundleHeld
  <2>1. CASE j # i
    <3>1. j \in Ids \ {i} BY <1>6, <2>1 DEF StateTyped
    <3>2. j \in created \ spoiled /\ kind[j] = "gvisor" /\ "bundle" \in host[j] /\ ~entry[j]
      BY <1>7, <3>1 DEF Only
    <3>3. PICK d \in Calls : call[d].op = "terminate" /\ call[d].id = j /\ call[d].bundle
      BY <1>0, <3>2 DEF BundleHeld
    <3>4. d # c BY <1>a, <2>1, <3>3
    <3>5. QED BY <1>3, <3>3, <3>4
  <2>2. CASE j = i
    <3>1. k = "gvisor" /\ l = 3 /\ i \notin spoiled /\ "bundle" \in host[i]
      BY <1>2, <1>4, <2>2, GVisorTable
    <3>2. (n = 1 /\ s = "kill") \/ (n = 2 /\ s = "delete") \/ (n = 3 /\ s = "unbundle")
      <4>1. n \in 1..3 BY <1>1, <3>1
      <4>2. n = 1 \/ n = 2 \/ n = 3 BY <4>1
      <4>3. QED BY <1>b, <3>1, <4>2, GVisorTable
    <3>3. CASE n = 1 /\ s = "kill" /\ entry[i]
      <4>1. n # l BY <3>1, <3>3
      <4>2. call'[c].op = "terminate" /\ call'[c].id = i /\ call'[c].bundle
        BY <1>3, <3>3, <4>1
      <4>3. QED BY <2>2, <4>2
    <3>4. CASE ~entry[i]
      <4>1. PICK d \in Calls : call[d].op = "terminate" /\ call[d].id = i /\ call[d].bundle
        BY <1>0, <1>1, <3>1, <3>4 DEF BundleHeld
      <4>2. CASE d # c BY <1>3, <2>2, <4>1, <4>2
      <4>3. CASE d = c
        <5>1. n # 3
          <6> SUFFICES ASSUME n = 3 PROVE FALSE OBVIOUS
          <6>1. s = "unbundle" /\ call[c].bundle BY <3>2, <4>1, <4>3
          <6>2. g = {"bundle"} BY <6>1 DEF Frees
          <6>3. QED BY <1>4, <2>2, <6>2
        <5>2. QED BY <1>3, <2>2, <3>1, <4>1, <4>3, <5>1
      <4>4. QED BY <4>2, <4>3
    <3>5. CASE s # "kill" /\ entry[i]
      <4>1. s \notin Unmaps BY <3>2, <3>5 DEF Unmaps
      <4>2. QED BY <1>4, <2>2, <3>5, <4>1
    <3>6. QED BY <3>2, <3>3, <3>4, <3>5
  <2>3. QED BY <2>1, <2>2
<1>13. PauseHeld'
  <2>1. \A j \in Ids : paused'[j] => paused[j]
    BY <1>0, <1>1, <1>2 DEF StateTyped
  <2>2. \A d \in Calls : call[d].op = "snapshot" => d # c BY <1>0
  <2>3. QED BY <1>0, <1>2, <1>3, <2>1, <2>2, PauseStays
<1>14. QED BY <1>3, <1>6, <1>9, <1>10, <1>11, <1>12, <1>13 DEF Sound

\* A terminate that ends with an error has removed no more than its steps did.
LEMMA TerminateFailsSound ==
  ASSUME Sound, NEW c \in Calls, TerminateFails(c)
  PROVE  Sound'
<1>a. PICK i : i = call[c].id OBVIOUS
<1>b. PICK s : s = TerminateSteps(kind[i])[call[c].at] OBVIOUS
<1> DEFINE k == kind[i]
<1>0. /\ StateTyped /\ CallsTyped /\ BundleHeld /\ PauseHeld
      /\ call[c].op = "terminate" /\ call[c] # Idle /\ Terminating(c)
  BY DEF Sound, Working, TerminateFails, Step
<1>1. /\ i \in Ids /\ k \in Kinds /\ i \in tried /\ i \in created /\ Kept(i)
      /\ call[c].at \in 1..Len(TerminateSteps(k))
  BY <1>0, <1>a, CallIs DEF StateTyped, Terminating, Sound
<1>2. /\ kind' = kind /\ created' = created /\ tried' = tried /\ stuck' = stuck
      /\ host' = host /\ entry' = entry /\ alive' = alive /\ paused' = paused
      /\ ended' = ended /\ spoiled' = spoiled /\ s \in Strict
      /\ fsm' = [fsm EXCEPT ![i] = IF s \in Unregisters THEN Removed ELSE @]
      /\ Return(c)
  BY <1>a, <1>b DEF TerminateFails
<1>3. /\ CallsTyped' /\ Moves(i) /\ \A d \in Calls \ {c} : call'[d] = call[d]
      /\ Working(c)' /\ call'[c] = Idle
  BY <1>0, <1>2, ReturnCall
<1>4. fsm'[i] = None \/ fsm'[i] = fsm[i]
  BY <1>0, <1>1, <1>2 DEF StateTyped, Removed
<1>5. StateTyped' BY <1>0, <1>1, <1>2 DEF StateTyped, Removed
<1>6. Only(i) BY <1>0, <1>1, <1>2 DEF Only, StateTyped
<1>7. StaysGone(i) BY <1>0, <1>1, <1>2, <1>4, LosesStaysGone
<1>8. \A d \in Calls \ {c} : Working(d)'
  BY <1>1, <1>2, <1>3, <1>6, <1>7, WorkingBeside
<1>9. \A j \in Ids : Kept(j)'
  <2>1. \A j \in Ids \ {i} : Kept(j)' BY <1>1, <1>6, KeptElsewhere DEF Sound
  <2>2. Kept(i)'
    <3>1. Len(TerminateSteps(k)) \in Nat BY <1>1, StepsBounded
    <3>2. QED BY <1>1, <1>2, <1>4, <1>7, <3>1 DEF Kept, StaysGone
  <2>3. QED BY <2>1, <2>2
<1>10. BundleHeld'
  <2>1. k # "gvisor"
    <3> SUFFICES ASSUME k = "gvisor" PROVE FALSE OBVIOUS
    <3>1. call[c].at \in 1..3 BY <1>1, GVisorTable
    <3>2. call[c].at = 1 \/ call[c].at = 2 \/ call[c].at = 3 BY <3>1
    <3>3. s \in {"kill", "delete", "unbundle"} BY <1>b, <3>2, GVisorTable
    <3>4. QED BY <1>2, <3>3 DEF Strict
  <2>2. QED BY <1>0, <1>2, <1>3, <1>a, <2>1 DEF BundleHeld
<1>11. PauseHeld'
  <2>1. \A d \in Calls : call[d].op = "snapshot" => d # c BY <1>0
  <2>2. QED BY <1>0, <1>2, <1>3, <2>1, PauseStays
<1>12. QED BY <1>3, <1>5, <1>8, <1>9, <1>10, <1>11 DEF Sound

LEMMA SnapshotTable ==
  ASSUME NEW k, NEW n \in DOMAIN SnapshotSteps(k)
  PROVE  LET s == SnapshotSteps(k)[n]
         IN  /\ k = "firecracker" =>
                  /\ n \in 1..4 /\ Len(SnapshotSteps(k)) = 4
                  /\ s = "pause" <=> n = 2
                  /\ s = "write" <=> n = 3
                  /\ s = "resume" <=> n = 4
             /\ k # "firecracker" => s = "commit"
<1>1. CASE k = "firecracker"
  <2>1. SnapshotSteps(k) = <<"mkdir", "pause", "write", "resume">>
    BY <1>1 DEF SnapshotSteps, FirecrackerSnapshot
  <2>2. n \in 1..4 BY <2>1
  <2>3. n = 1 \/ n = 2 \/ n = 3 \/ n = 4 BY <2>2
  <2>4. QED BY <1>1, <2>1, <2>2, <2>3
<1>2. CASE k # "firecracker"
  BY <1>2 DEF SnapshotSteps, ContainerSnapshot
<1>3. QED BY <1>1, <1>2

LEMMA SnapshotBeginSound ==
  ASSUME Sound, NEW c \in Calls, NEW i \in Ids, NEW n \in Names, SnapshotBegin(c, i, n)
  PROVE  Sound'
<1> DEFINE r == [op |-> "snapshot", id |-> i, at |-> 1, name |-> n]
<1>0. /\ StateTyped /\ CallsTyped /\ BundleHeld /\ PauseHeld /\ i \in created
  BY DEF Sound, SnapshotBegin
<1>1. r \in CallRecords /\ r.op = "snapshot" /\ r.id = i
  BY DEF CallRecords, Snapshots
<1>2. Begin(c, r) BY DEF SnapshotBegin
<1> HIDE DEF r
<1>3. /\ CallsTyped' /\ Moves(i) /\ call'[c] = r /\ call[c].op = "idle"
      /\ \A d \in Calls \ {c} : call'[d] = call[d]
  BY <1>0, <1>1, <1>2, BeginCall
<1>4. StateTyped' BY <1>0 DEF StateTyped, SnapshotBegin
<1>5. Only(i) BY DEF Only, SnapshotBegin
<1>6. StaysGone(i) BY <1>0, LosesStaysGone DEF SnapshotBegin
<1>7. \A j \in Ids : Kept(j)'
  BY DEF Sound, Kept, SnapshotBegin
<1>8. \A d \in Calls \ {c} : Working(d)'
  <2>1. i \in created' /\ tried' = tried BY <1>0 DEF SnapshotBegin
  <2>2. QED BY <1>0, <1>3, <1>5, <1>6, <2>1, WorkingBeside
<1>9. Working(c)'
  BY <1>0, <1>1, <1>3 DEF Working, SnapshotBegin
<1>10. BundleHeld'
  BY <1>0, <1>3, BundleStays DEF SnapshotBegin
<1>11. PauseHeld'
  BY <1>0, <1>3, PauseStays DEF SnapshotBegin
<1>12. QED BY <1>3, <1>4, <1>7, <1>8, <1>9, <1>10, <1>11 DEF Sound

\* A snapshot makes the directory of a VM again, whoever has removed it.
LEMMA SnapshotStepSound ==
  ASSUME Sound, NEW c \in Calls, SnapshotStep(c)
  PROVE  Sound'
<1>a. PICK i : i = call[c].id OBVIOUS
<1>b. PICK s : s = SnapshotSteps(kind[i])[call[c].at] OBVIOUS
<1> DEFINE k == kind[i]
           n == call[c].at
<1>0. /\ StateTyped /\ CallsTyped /\ BundleHeld /\ PauseHeld
      /\ call[c].op = "snapshot" /\ call[c] # Idle /\ Working(c)
      /\ call[c].at \in DOMAIN SnapshotSteps(kind[call[c].id])
  BY DEF Sound, SnapshotStep, Step
<1>1. /\ i \in Ids /\ k \in Kinds /\ i \in created /\ n \in DOMAIN SnapshotSteps(k)
      /\ call[c] \in Snapshots /\ Kept(i)
  BY <1>0, <1>a, CallIs DEF StateTyped, Working, Sound
<1>2. /\ kind' = kind /\ entry' = entry /\ fsm' = fsm /\ alive' = alive
      /\ created' = created /\ ended' = ended /\ tried' = tried /\ stuck' = stuck
      /\ host' = [host EXCEPT ![i] = IF s = "mkdir" THEN @ \cup {"dir"} ELSE @]
      /\ spoiled' = IF s = "mkdir" /\ (i \in ended \/ On(i, {"terminate"}))
                      THEN spoiled \cup {i} ELSE spoiled
      /\ paused' = [paused EXCEPT ![i] = (@ \/ s = "pause") /\ s # "resume"]
      /\ Advance(c, SnapshotSteps(k))
  BY <1>a, <1>b DEF SnapshotStep
<1>3. /\ CallsTyped' /\ Moves(i) /\ \A d \in Calls \ {c} : call'[d] = call[d]
      /\ n = Len(SnapshotSteps(k)) => Working(c)'
      /\ n # Len(SnapshotSteps(k)) =>
           call'[c].op = "snapshot" /\ call'[c].id = i /\ call'[c].at = n + 1
  BY <1>0, <1>1, <1>2, <1>a, AdvanceCall
<1>4. /\ s = "mkdir" => k = "firecracker"
      /\ s = "pause" => k = "firecracker" /\ n = 2 /\ Len(SnapshotSteps(k)) = 4
  <2>1. CASE k = "firecracker" BY <1>1, <1>b, <2>1, SnapshotTable
  <2>2. CASE k # "firecracker"
    <3>1. s = "commit" BY <1>1, <1>b, <2>2, SnapshotTable
    <3>2. QED BY <3>1
  <2>3. QED BY <2>1, <2>2
<1>5. StateTyped'
  <2>1. host' \in [Ids -> SUBSET AllThings] BY <1>0, <1>1, <1>2 DEF StateTyped, AllThings
  <2>2. QED BY <1>0, <1>1, <1>2, <2>1 DEF StateTyped
<1>6. Only(i)
  BY <1>0, <1>1, <1>2 DEF Only, StateTyped
<1>7. /\ host'[i] = host[i] \/ (k = "firecracker" /\ host'[i] = host[i] \cup {"dir"})
      /\ host'[i] = host[i] \/ i \in spoiled' \/ (i \notin ended /\ ~On(i, {"terminate"}))
      /\ i \in spoiled => i \in spoiled'
  BY <1>0, <1>1, <1>2, <1>4 DEF StateTyped
<1>8. i \in ended \/ On(i, {"terminate"}) => StaysGone(i)
  <2> SUFFICES ASSUME i \in ended \/ On(i, {"terminate"}), NEW m \in Nat,
                      Gone(kind[i], host[i], entry[i], fsm[i], alive[i], i \in spoiled, m)
               PROVE  Gone(kind'[i], host'[i], entry'[i], fsm'[i], alive'[i], i \in spoiled', m)
    BY DEF StaysGone
  <2>1. CASE host'[i] = host[i] BY <1>2, <1>7, <2>1 DEF Gone
  <2>2. CASE k = "firecracker" /\ host'[i] = host[i] \cup {"dir"} /\ i \in spoiled'
    BY <1>2, <2>2 DEF Gone, Containers
  <2>3. QED BY <1>7, <2>1, <2>2
<1>9. \A d \in Calls \ {c} : Working(d)'
  BY <1>1, <1>2, <1>3, <1>6, <1>8, WorkingBeside
<1>10. Working(c)'
  <2>1. CASE n = Len(SnapshotSteps(k)) BY <1>3, <2>1
  <2>2. CASE n # Len(SnapshotSteps(k))
    BY <1>1, <1>2, <1>3, <2>2 DEF Working
  <2>3. QED BY <2>1, <2>2
<1>11. \A j \in Ids : Kept(j)'
  <2>1. \A j \in Ids \ {i} : Kept(j)' BY <1>1, <1>6, KeptElsewhere DEF Sound
  <2>2. Kept(i)'
    <3>1. host'[i] \subseteq Things(kind'[i])
      BY <1>1, <1>2, <1>7 DEF Kept, Things, Containers
    <3>2. i \notin tried =>
            Made(kind'[i], host'[i], entry'[i], fsm'[i], alive'[i],
                 Len(CreateSteps(kind'[i])) + 1)
      <4>1. i \notin tried => Made(k, host[i], entry[i], fsm[i], alive[i],
                                   Len(CreateSteps(k)) + 1)
        BY <1>1 DEF Kept
      <4>2. CASE host'[i] = host[i] BY <1>2, <4>1, <4>2
      <4>3. CASE k = "firecracker" /\ host'[i] = host[i] \cup {"dir"}
        BY <1>2, <4>1, <4>3 DEF Made, Containers
      <4>4. QED BY <1>7, <4>2, <4>3
    <3>3. Len(TerminateSteps(k)) \in Nat BY <1>1, StepsBounded
    <3>4. i \in ended =>
            Gone(kind'[i], host'[i], entry'[i], fsm'[i], alive'[i], i \in spoiled',
                 Len(TerminateSteps(kind'[i])))
      BY <1>1, <1>2, <1>8, <3>3 DEF Kept, StaysGone
    <3>5. QED BY <1>1, <1>2, <3>1, <3>2, <3>4 DEF Kept
  <2>3. QED BY <2>1, <2>2
<1>12. BundleHeld'
  <2>1. \A j \in created' \ spoiled' :
          kind[j] = "gvisor" => j \in created \ spoiled /\ host'[j] = host[j]
    BY <1>0, <1>1, <1>2, <1>4 DEF StateTyped
  <2>2. \A d \in Calls : call[d].op = "terminate" => d # c
    BY <1>0
  <2>3. QED BY <1>0, <1>2, <1>3, <2>1, <2>2, BundleStays
<1>13. PauseHeld'
  <2> SUFFICES ASSUME NEW j \in Ids, j \notin stuck, paused'[j]
               PROVE  /\ kind[j] = "firecracker"
                      /\ \E d \in Calls : /\ call'[d].op = "snapshot" /\ call'[d].id = j
                                           /\ call'[d].at \in {3, 4}
    BY <1>2 DEF PauseHeld
  <2>1. CASE j # i
    <3>1. paused[j] BY <1>0, <1>1, <1>2, <2>1 DEF StateTyped
    <3>2. PICK d \in Calls : call[d].op = "snapshot" /\ call[d].id = j /\ call[d].at \in {3, 4}
      BY <1>0, <3>1 DEF PauseHeld
    <3>3. d # c BY <1>a, <2>1, <3>2
    <3>4. QED BY <1>0, <1>3, <3>1, <3>2, <3>3 DEF PauseHeld
  <2>2. CASE j = i /\ s = "pause"
    <3>1. k = "firecracker" /\ n = 2 /\ Len(SnapshotSteps(k)) = 4
      BY <1>4, <2>2
    <3>2. call'[c].op = "snapshot" /\ call'[c].id = i /\ call'[c].at = 3
      BY <1>3, <3>1
    <3>3. QED BY <2>2, <3>1, <3>2
  <2>3. CASE j = i /\ s # "pause"
    <3>1. paused[i] /\ s # "resume" BY <1>0, <1>1, <1>2, <2>3 DEF StateTyped
    <3>2. k = "firecracker" BY <1>0, <1>1, <2>3, <3>1 DEF PauseHeld
    <3>3. PICK d \in Calls : call[d].op = "snapshot" /\ call[d].id = i /\ call[d].at \in {3, 4}
      BY <1>0, <1>1, <2>3, <3>1 DEF PauseHeld
    <3>4. CASE d # c BY <1>3, <2>3, <3>2, <3>3, <3>4
    <3>5. CASE d = c
      <4>1. n \in {3, 4} BY <3>3, <3>5
      <4>2. n = 3 /\ Len(SnapshotSteps(k)) = 4
        BY <1>1, <1>b, <3>1, <3>2, <4>1, SnapshotTable
      <4>3. call'[c].op = "snapshot" /\ call'[c].id = i /\ call'[c].at = 4
        BY <1>3, <4>2
      <4>4. QED BY <2>3, <3>2, <4>3
    <3>6. QED BY <3>4, <3>5
  <2>4. QED BY <2>1, <2>2, <2>3
<1>14. QED BY <1>3, <1>5, <1>9, <1>10, <1>11, <1>12, <1>13 DEF Sound

LEMMA SnapshotFailsSound ==
  ASSUME Sound, NEW c \in Calls, SnapshotFails(c)
  PROVE  Sound'
<1>a. PICK i : i = call[c].id OBVIOUS
<1> DEFINE k == kind[i]
           n == call[c].at
<1>0. /\ StateTyped /\ CallsTyped /\ BundleHeld /\ PauseHeld
      /\ call[c].op = "snapshot" /\ call[c] # Idle /\ Working(c)
      /\ call[c].at \in DOMAIN SnapshotSteps(kind[call[c].id])
  BY DEF Sound, SnapshotFails, Step
<1>1. i \in Ids /\ i \in created /\ n \in DOMAIN SnapshotSteps(k)
  BY <1>0, <1>a, CallIs DEF Working
<1>2. /\ kind' = kind /\ host' = host /\ entry' = entry /\ fsm' = fsm /\ alive' = alive
      /\ created' = created /\ ended' = ended /\ spoiled' = spoiled
      /\ tried' = tried /\ Return(c)
      /\ stuck' = IF SnapshotSteps(k)[n] \in {"pause", "write", "resume"}
                    THEN stuck \cup {i} ELSE stuck
      /\ \/ paused' = paused
         \/ SnapshotSteps(k)[n] = "pause" /\ paused' = [paused EXCEPT ![i] = TRUE]
         \/ SnapshotSteps(k)[n] = "resume" /\ paused' = [paused EXCEPT ![i] = FALSE]
  BY <1>a DEF SnapshotFails
<1>3. /\ CallsTyped' /\ Moves(i) /\ Working(c)'
      /\ \A d \in Calls \ {c} : call'[d] = call[d]
  BY <1>0, <1>2, ReturnCall
<1>4. StateTyped' BY <1>0, <1>1, <1>2 DEF StateTyped
<1>5. Only(i) BY <1>2 DEF Only
<1>6. StaysGone(i) BY <1>0, <1>1, <1>2, LosesStaysGone
<1>7. \A j \in Ids : Kept(j)'
  BY <1>2 DEF Sound, Kept
<1>8. \A d \in Calls \ {c} : Working(d)'
  BY <1>1, <1>2, <1>3, <1>5, <1>6, WorkingBeside
<1>9. BundleHeld'
  <2>1. \A d \in Calls : call[d].op = "terminate" => d # c BY <1>0
  <2>2. QED BY <1>0, <1>2, <1>3, <2>1, BundleStays
<1>10. PauseHeld'
  <2> SUFFICES ASSUME NEW j \in Ids, j \notin stuck', paused'[j]
               PROVE  /\ kind[j] = "firecracker"
                      /\ \E d \in Calls : /\ call'[d].op = "snapshot" /\ call'[d].id = j
                                           /\ call'[d].at \in {3, 4}
    BY <1>2 DEF PauseHeld
  <2>1. j \notin stuck /\ paused[j]
    <3>1. j \notin stuck BY <1>2
    <3>2. CASE j # i BY <1>0, <1>2, <3>1, <3>2 DEF StateTyped
    <3>3. CASE j = i
      <4>1. SnapshotSteps(k)[n] \notin {"pause", "write", "resume"} BY <1>2, <3>3
      <4>2. QED BY <1>2, <3>1, <4>1
    <3>4. QED BY <3>2, <3>3
  <2>2. kind[j] = "firecracker" BY <1>0, <2>1 DEF PauseHeld
  <2>3. PICK d \in Calls : call[d].op = "snapshot" /\ call[d].id = j /\ call[d].at \in {3, 4}
    BY <1>0, <2>1 DEF PauseHeld
  <2>4. d # c
    <3> SUFFICES ASSUME d = c PROVE FALSE OBVIOUS
    <3>1. j = i /\ k = "firecracker" /\ (n = 3 \/ n = 4) BY <1>a, <2>2, <2>3
    <3>2. SnapshotSteps(k)[n] \in {"write", "resume"} BY <1>1, <3>1, SnapshotTable
    <3>3. QED BY <1>2, <3>1, <3>2
  <2>5. QED BY <1>3, <2>2, <2>3, <2>4
<1>11. QED BY <1>3, <1>4, <1>7, <1>8, <1>9, <1>10 DEF Sound

\* restore_snapshot fills a sandbox nobody uses; deleting a snapshot touches none.
LEMMA RestoreSound ==
  ASSUME Sound, NEW n \in Names, NEW i \in Ids, Restore(n, i)
  PROVE  Sound'
<1>0. /\ StateTyped /\ CallsTyped /\ BundleHeld /\ PauseHeld /\ Kept(i)
      /\ kind[i] \in Kinds
  BY DEF Sound, StateTyped
<1>1. /\ kind[i] \in Containers /\ i \notin created
      /\ \A d \in Calls : call[d] # Idle => call[d].id # i
  BY <1>0, CallIs DEF Restore, Unused, On
<1>2. /\ kind' = kind /\ entry' = entry /\ fsm' = fsm /\ paused' = paused /\ call' = call
      /\ ended' = ended /\ spoiled' = spoiled /\ tried' = tried /\ stuck' = stuck
      /\ host' = [host EXCEPT ![i] = {"container"}]
      /\ alive' = alive \/ alive' = [alive EXCEPT ![i] = TRUE]
      /\ created' = created \/ created' = created \cup {i}
  BY DEF Restore
<1>3. StateTyped' BY <1>0, <1>2 DEF StateTyped, AllThings
<1>4. CallsTyped' BY <1>0, <1>2 DEF CallsTyped
<1>5. Only(i) /\ Moves(i) BY <1>0, <1>2 DEF Only, StateTyped, Moves
<1>6. \A d \in Calls : Working(d)' BY <1>1, <1>2, <1>5, WorkingElsewhere
<1>7. \A j \in Ids : Kept(j)'
  <2>1. \A j \in Ids \ {i} : Kept(j)' BY <1>5, KeptElsewhere DEF Sound
  <2>2. Kept(i)'
    <3>1. /\ host'[i] = {"container"} /\ ~entry[i] /\ fsm[i] = None
          /\ i \notin ended /\ i \notin tried
      BY <1>0, <1>1, <1>2 DEF StateTyped, Kept, Containers, HasFsm
    <3>2. host'[i] \subseteq Things(kind[i]) BY <1>1, <3>1 DEF Things, Containers
    <3>3. Traced(kind'[i], host'[i], entry'[i], fsm'[i], alive'[i])
      BY <1>2, <3>1 DEF Traced
    <3>4. Made(kind'[i], host'[i], entry'[i], fsm'[i], alive'[i],
               Len(CreateSteps(kind'[i])) + 1)
      BY <1>1, <1>2, <3>1 DEF Made, Containers
    <3>5. QED BY <1>2, <3>1, <3>2, <3>3, <3>4 DEF Kept
  <2>3. QED BY <2>1, <2>2
<1>8. BundleHeld'
  <2>1. kind[i] # "gvisor" BY <1>1 DEF Containers
  <2>2. \A j \in created' \ spoiled' :
          kind[j] = "gvisor" => j \in created \ spoiled /\ host'[j] = host[j]
    BY <1>0, <1>2, <2>1 DEF StateTyped
  <2>3. QED BY <1>0, <1>2, <2>2, BundleStays
<1>9. PauseHeld' BY <1>0, <1>2, PauseStays
<1>10. QED BY <1>3, <1>4, <1>6, <1>7, <1>8, <1>9 DEF Sound

LEMMA DeleteSnapshotSound ==
  ASSUME Sound, NEW n \in Names, DeleteSnapshot(n)
  PROVE  Sound'
<1>1. /\ kind' = kind /\ host' = host /\ entry' = entry /\ fsm' = fsm /\ alive' = alive
      /\ paused' = paused /\ call' = call /\ created' = created /\ ended' = ended
      /\ spoiled' = spoiled /\ tried' = tried /\ stuck' = stuck
  BY DEF DeleteSnapshot
<1>2. QED
  BY <1>1 DEF Sound, StateTyped, CallsTyped, Kept, Working, Creating, Terminating,
              BundleHeld, PauseHeld

\* Whether a container or a VM runs: all that a cancelled command or an exit of
\* its process changes.
LEMMA RunsKept ==
  ASSUME NEW i \in Ids, Kept(i), kind[i] \notin {"local", "wasm"}, StateTyped,
         alive'[i] => alive[i],
         kind' = kind, host' = host, entry' = entry, fsm' = fsm, created' = created,
         tried' = tried, ended' = ended, spoiled' = spoiled
  PROVE  Kept(i)' /\ StaysGone(i)
<1>1. StaysGone(i) BY LosesStaysGone
<1>2. Len(TerminateSteps(kind[i])) \in Nat BY StepsBounded DEF StateTyped
<1>3. i \in ended =>
        Gone(kind'[i], host'[i], entry'[i], fsm'[i], alive'[i], i \in spoiled',
             Len(TerminateSteps(kind'[i])))
  BY <1>1, <1>2 DEF Kept, StaysGone
<1>4. \A n : Made(kind[i], host[i], entry[i], fsm[i], alive[i], n) =>
               Made(kind'[i], host'[i], entry'[i], fsm'[i], alive'[i], n)
  BY DEF Made
<1>5. Traced(kind[i], host[i], entry[i], fsm[i], alive[i]) =>
        Traced(kind'[i], host'[i], entry'[i], fsm'[i], alive'[i])
  BY DEF Traced
<1>6. QED BY <1>1, <1>3, <1>4, <1>5 DEF Kept

LEMMA CancelBeginSound ==
  ASSUME Sound, NEW c \in Calls, NEW i \in Ids, CancelBegin(c, i)
  PROVE  Sound'
<1> DEFINE r == [op |-> "cancel", id |-> i, at |-> 1]
<1>0. /\ StateTyped /\ CallsTyped /\ BundleHeld /\ PauseHeld /\ i \in created /\ Kept(i)
  BY DEF Sound, CancelBegin
<1>1. r \in CallRecords /\ r.op = "cancel" /\ r.id = i
  BY DEF CallRecords, Cancels
<1>2. /\ kind' = kind /\ host' = host /\ entry' = entry /\ fsm' = fsm /\ paused' = paused
      /\ created' = created /\ ended' = ended /\ spoiled' = spoiled /\ tried' = tried
      /\ stuck' = stuck /\ Begin(c, r) /\ kind[i] = "podman" /\ alive[i]
      /\ \E a \in BOOLEAN : alive' = [alive EXCEPT ![i] = a]
  BY DEF CancelBegin
<1> HIDE DEF r
<1>3. /\ CallsTyped' /\ Moves(i) /\ call'[c] = r /\ call[c].op = "idle"
      /\ \A d \in Calls \ {c} : call'[d] = call[d]
  BY <1>0, <1>1, <1>2, BeginCall
<1>4. StateTyped' BY <1>0, <1>2 DEF StateTyped
<1>5. Only(i) BY <1>0, <1>2 DEF Only, StateTyped
<1>6. StaysGone(i) /\ Kept(i)' BY <1>0, <1>2, RunsKept
<1>7. \A j \in Ids : Kept(j)'
  <2>1. \A j \in Ids \ {i} : Kept(j)' BY <1>5, KeptElsewhere DEF Sound
  <2>2. QED BY <1>6, <2>1
<1>8. \A d \in Calls \ {c} : Working(d)'
  BY <1>0, <1>2, <1>3, <1>5, <1>6, WorkingBeside
<1>9. Working(c)'
  BY <1>0, <1>1, <1>2, <1>3 DEF Working
<1>10. BundleHeld' BY <1>0, <1>2, <1>3, BundleStays
<1>11. PauseHeld' BY <1>0, <1>2, <1>3, PauseStays
<1>12. QED BY <1>3, <1>4, <1>7, <1>8, <1>9, <1>10, <1>11 DEF Sound

LEMMA CancelKillSound ==
  ASSUME Sound, NEW c \in Calls, CancelKill(c)
  PROVE  Sound'
<1>a. PICK i : i = call[c].id OBVIOUS
<1>0. /\ StateTyped /\ CallsTyped /\ BundleHeld /\ PauseHeld
      /\ call[c].op = "cancel" /\ call[c] # Idle /\ Working(c)
  BY DEF Sound, CancelKill, Step
<1>1. i \in Ids /\ i \in created /\ kind[i] = "podman" /\ Kept(i)
  BY <1>0, <1>a, CallIs DEF Working, Sound
<1>2. /\ kind' = kind /\ host' = host /\ entry' = entry /\ fsm' = fsm /\ paused' = paused
      /\ created' = created /\ ended' = ended /\ spoiled' = spoiled /\ tried' = tried
      /\ stuck' = stuck /\ Return(c)
      /\ \E a \in BOOLEAN : alive' = [alive EXCEPT ![i] = @ /\ a]
  BY <1>a DEF CancelKill
<1>3. /\ CallsTyped' /\ Moves(i) /\ Working(c)'
      /\ \A d \in Calls \ {c} : call'[d] = call[d]
  BY <1>0, <1>2, ReturnCall
<1>4. StateTyped' /\ (alive'[i] => alive[i]) BY <1>0, <1>1, <1>2 DEF StateTyped
<1>5. Only(i) BY <1>0, <1>2 DEF Only, StateTyped
<1>6. StaysGone(i) /\ Kept(i)' BY <1>0, <1>1, <1>2, <1>4, RunsKept
<1>7. \A j \in Ids : Kept(j)'
  <2>1. \A j \in Ids \ {i} : Kept(j)' BY <1>1, <1>5, KeptElsewhere DEF Sound
  <2>2. QED BY <1>6, <2>1
<1>8. \A d \in Calls \ {c} : Working(d)'
  BY <1>1, <1>2, <1>3, <1>5, <1>6, WorkingBeside
<1>9. \A d \in Calls : call[d].op \in {"terminate", "snapshot"} => d # c BY <1>0
<1>10. BundleHeld' BY <1>0, <1>2, <1>3, <1>9, BundleStays
<1>11. PauseHeld' BY <1>0, <1>2, <1>3, <1>9, PauseStays
<1>12. QED BY <1>3, <1>4, <1>7, <1>8, <1>10, <1>11 DEF Sound

LEMMA ExitSound ==
  ASSUME Sound, NEW i \in Ids, Exit(i)
  PROVE  Sound'
<1>0. /\ StateTyped /\ CallsTyped /\ BundleHeld /\ PauseHeld /\ Kept(i)
  BY DEF Sound
<1>2. /\ kind' = kind /\ host' = host /\ entry' = entry /\ fsm' = fsm /\ call' = call
      /\ created' = created /\ ended' = ended /\ spoiled' = spoiled /\ tried' = tried
      /\ stuck' = stuck /\ kind[i] \notin {"local", "wasm"} /\ alive[i]
      /\ alive' = [alive EXCEPT ![i] = FALSE] /\ paused' = [paused EXCEPT ![i] = FALSE]
  BY DEF Exit
<1>3. StateTyped' /\ (alive'[i] => alive[i]) BY <1>0, <1>2 DEF StateTyped
<1>4. CallsTyped' BY <1>0, <1>2 DEF CallsTyped
<1>5. Only(i) /\ Moves(i) BY <1>0, <1>2 DEF Only, StateTyped, Moves
<1>6. StaysGone(i) /\ Kept(i)' BY <1>0, <1>2, <1>3, RunsKept
<1>7. \A j \in Ids : Kept(j)'
  <2>1. \A j \in Ids \ {i} : Kept(j)' BY <1>5, KeptElsewhere DEF Sound
  <2>2. QED BY <1>6, <2>1
<1>8. ASSUME NEW d \in Calls PROVE Working(d)'
  <2>1. CASE call[d] # Idle => call[d].id # i
    BY <1>2, <1>5, <2>1, WorkingElsewhere
  <2>2. CASE call[d].id = i /\ call[d].op = "create"
    <3>1. Creating(d) BY <2>2 DEF Sound, Working
    <3>2. Made(kind[i], host[i], entry[i], fsm[i], alive[i], call[d].at)
      BY <2>2, <3>1 DEF Creating
    <3>3. Made(kind'[i], host'[i], entry'[i], fsm'[i], alive'[i], call[d].at)
      BY <1>2, <3>2 DEF Made
    <3>4. Creating(d)' BY <1>2, <2>2, <3>1, <3>3 DEF Creating
    <3>5. QED BY <1>2, <2>2, <3>4 DEF Working
  <2>3. CASE call[d].id = i /\ call[d].op \in {"terminate", "snapshot", "cancel"}
    <3>1. i \in created
      BY <1>0, <2>3 DEF Sound, Working, Terminating, StateTyped
    <3>2. QED BY <1>2, <1>5, <1>6, <3>1, WorkingBeside
  <2>4. QED BY <1>0, <2>1, <2>2, <2>3, CallIs DEF Ops
<1>9. BundleHeld' BY <1>0, <1>2, BundleStays
<1>10. PauseHeld'
  <2>1. \A j \in Ids : paused'[j] => paused[j] BY <1>0, <1>2 DEF StateTyped
  <2>2. QED BY <1>0, <1>2, <2>1, PauseStays
<1>11. QED BY <1>3, <1>4, <1>7, <1>8, <1>9, <1>10 DEF Sound

------------------------------------------------------------------------------
LEMMA InitSound == Init => Sound
<1> SUFFICES ASSUME Init PROVE Sound OBVIOUS
<1>1. StateTyped BY DEF Init, StateTyped, AllThings
<1>2. CallsTyped BY DEF Init, CallsTyped, CallRecords
<1>3. \A i \in Ids : Kept(i) BY DEF Init, Kept, Traced
<1>4. \A c \in Calls : Working(c) BY DEF Init, Working, Idle
<1>5. BundleHeld /\ PauseHeld BY DEF Init, BundleHeld, PauseHeld
<1>6. QED BY <1>1, <1>2, <1>3, <1>4, <1>5 DEF Sound

LEMMA NextSound == Sound /\ [Next]_vars => Sound'
<1> SUFFICES ASSUME Sound, [Next]_vars PROVE Sound' OBVIOUS
<1>1. CASE UNCHANGED vars
  BY <1>1 DEF vars, Sound, StateTyped, CallsTyped, Kept, Working, Creating, Terminating,
              BundleHeld, PauseHeld
<1>2. CASE Next
  <2>1. ASSUME NEW c \in Calls, CreateStep(c) \/ CreateFails(c) PROVE Sound'
    BY <2>1, CreateStepSound, CreateFailsSound
  <2>2. ASSUME NEW c \in Calls, TerminateStep(c) \/ TerminateFails(c) PROVE Sound'
    BY <2>2, TerminateStepSound, TerminateFailsSound
  <2>3. ASSUME NEW c \in Calls, SnapshotStep(c) \/ SnapshotFails(c) \/ CancelKill(c)
        PROVE  Sound'
    BY <2>3, SnapshotStepSound, SnapshotFailsSound, CancelKillSound
  <2>4. ASSUME NEW c \in Calls, NEW i \in Ids,
               CreateBegin(c, i) \/ TerminateBegin(c, i) \/ CancelBegin(c, i)
        PROVE  Sound'
    BY <2>4, CreateBeginSound, TerminateBeginSound, CancelBeginSound
  <2>5. ASSUME NEW c \in Calls, NEW i \in Ids, NEW n \in Names, SnapshotBegin(c, i, n)
        PROVE  Sound'
    BY <2>5, SnapshotBeginSound
  <2>6. ASSUME NEW n \in Names, DeleteSnapshot(n) \/ \E j \in Ids : Restore(n, j)
        PROVE  Sound'
    BY <2>6, DeleteSnapshotSound, RestoreSound
  <2>7. ASSUME NEW i \in Ids, Exit(i) PROVE Sound'
    BY <2>7, ExitSound
  <2>8. QED BY <1>2, <2>1, <2>2, <2>3, <2>4, <2>5, <2>6, <2>7 DEF Next
<1>3. QED BY <1>1, <1>2

LEMMA SpecSound == Spec => []Sound
BY InitSound, NextSound, PTL DEF Spec

LEMMA EmptyPart ==
  ASSUME NEW S, NEW T, S \subseteq T, \A x \in T : x \notin S
  PROVE  S = {}
OBVIOUS

\* Whatever a terminate returned Ok for is gone from the maps, from the host and
\* from the list of processes once no call works on it any more.
THEOREM NothingIsLeft == Spec => []NoLeftover
<1>1. Sound => NoLeftover
  <2> SUFFICES ASSUME Sound, NEW i \in ended \ spoiled, ~On(i, Ops)
               PROVE  host[i] = {} /\ ~entry[i] /\ fsm[i] = None /\ ~alive[i]
    BY DEF NoLeftover
  <2> DEFINE k == kind[i]
  <2>1. /\ i \in created /\ i \in Ids /\ k \in Kinds /\ StateTyped /\ CallsTyped
        /\ BundleHeld
    BY DEF Sound, StateTyped
  <2>2. /\ host[i] \subseteq Things(k) /\ (k \in Containers => ~entry[i])
        /\ k \notin HasFsm => fsm[i] = None
        /\ Gone(k, host[i], entry[i], fsm[i], alive[i], i \in spoiled, Len(TerminateSteps(k)))
    BY <2>1 DEF Sound, Kept
  <2>a. /\ host[i] \subseteq Things(k) /\ (k \in Containers => ~entry[i])
        /\ k \notin HasFsm => fsm[i] = None
    BY <2>2, Zenon
  <2>3. CASE k \in Containers
    <3>1. Len(TerminateSteps(k)) = 1 /\ Things(k) = {"container"} /\ k \notin HasFsm
      BY <2>3, ContainerTable DEF Things, Containers, HasFsm
    <3>2. ~alive[i] /\ "container" \notin host[i] BY <2>2, <2>3, <3>1 DEF Gone
    <3>3. host[i] = {}
      <4>1. \A x \in Things(k) : x \notin host[i] BY <3>1, <3>2
      <4>2. QED BY <2>a, <4>1, EmptyPart
    <3>4. QED BY <2>a, <2>3, <3>1, <3>2, <3>3
  <2>4. CASE k = "gvisor"
    <3>1. "bundle" \notin host[i]
      <4> SUFFICES ASSUME "bundle" \in host[i] PROVE FALSE OBVIOUS
      <4>1. ~entry[i] BY <2>2, <2>4, GVisorTable DEF Gone
      <4>2. PICK c \in Calls : call[c].op = "terminate" /\ call[c].id = i
        BY <2>1, <2>4, <4>1 DEF BundleHeld
      <4>3. QED BY <2>1, <4>2, CallIs DEF On, Ops
    <3>2. Len(TerminateSteps(k)) = 3 /\ Things(k) = {"bundle", "process", "container"}
      BY <2>4, GVisorTable DEF Things, Containers
    <3>3. /\ ~alive[i] /\ ~entry[i] /\ fsm[i] = None
          /\ "process" \notin host[i] /\ "container" \notin host[i]
      BY <2>2, <2>4, <3>2, SMTT(20) DEF Gone
    <3>4. host[i] = {}
      <4>1. \A x \in Things(k) : x \notin host[i] BY <3>1, <3>2, <3>3
      <4>2. QED BY <2>a, <4>1, EmptyPart
    <3>5. QED BY <2>a, <3>3, <3>4
  <2>5. CASE k = "firecracker"
    <3>1. Len(TerminateSteps(k)) = 3 /\ Things(k) = {"dir", "tap", "process"}
      BY <2>5, FirecrackerTable DEF Things, Containers
    <3>a. Gone("firecracker", host[i], entry[i], fsm[i], alive[i], i \in spoiled, 3)
      BY <2>2, <2>5, <3>1
    <3>b. ~alive[i] /\ ~entry[i] /\ "process" \notin host[i] BY <3>a DEF Gone
    <3>c. fsm[i] = None /\ "tap" \notin host[i] BY <3>a DEF Gone
    <3>d. "dir" \notin host[i] BY <3>a DEF Gone
    <3>2. /\ ~alive[i] /\ ~entry[i] /\ fsm[i] = None
          /\ "process" \notin host[i] /\ "tap" \notin host[i] /\ "dir" \notin host[i]
      BY <3>b, <3>c, <3>d
    <3>3. host[i] = {}
      <4>1. \A x \in Things(k) : x \notin host[i] BY <3>1, <3>2
      <4>2. QED BY <2>a, <4>1, EmptyPart
    <3>4. QED BY <2>a, <3>1, <3>2, <3>3
  <2>6. CASE k = "local"
    <3>1. Len(TerminateSteps(k)) = 2 /\ Things(k) = {"workspace"}
      BY <2>6, LocalTable DEF Things, Containers
    <3>2. ~alive[i] /\ ~entry[i] /\ fsm[i] = None /\ "workspace" \notin host[i]
      BY <2>2, <2>6, <3>1 DEF Gone
    <3>3. host[i] = {}
      <4>1. \A x \in Things(k) : x \notin host[i] BY <3>1, <3>2
      <4>2. QED BY <2>a, <4>1, EmptyPart
    <3>4. QED BY <2>a, <3>1, <3>2, <3>3
  <2>7. CASE k = "wasm"
    <3>1. Len(TerminateSteps(k)) = 2 /\ Things(k) = {"vfs"} /\ k \notin HasFsm
      BY <2>7, WasmTable DEF Things, Containers, HasFsm
    <3>2. ~alive[i] /\ ~entry[i] /\ "vfs" \notin host[i]
      BY <2>2, <2>7, <3>1 DEF Gone
    <3>3. host[i] = {}
      <4>1. \A x \in Things(k) : x \notin host[i] BY <3>1, <3>2
      <4>2. QED BY <2>a, <4>1, EmptyPart
    <3>4. QED BY <2>a, <3>1, <3>2, <3>3
  <2>8. QED BY <2>1, <2>3, <2>4, <2>5, <2>6, <2>7, KindIs
<1>2. QED BY <1>1, SpecSound, PTL

\* list_sandboxes, get_info and is_alive agree about a sandbox nobody terminates.
THEOREM QueriesAgree == Spec => []KnownEverywhere
<1>1. Sound => KnownEverywhere
  <2> SUFFICES ASSUME Sound, NEW i \in created \ tried
               PROVE  Listed(i) /\ Informed(i) /\ (IsAlive(i) <=> alive[i])
    BY DEF KnownEverywhere
  <2> DEFINE k == kind[i]
  <2>1. i \in Ids /\ k \in Kinds BY DEF Sound, StateTyped
  <2>2. /\ k \notin HasFsm => fsm[i] = None
        /\ Made(k, host[i], entry[i], fsm[i], alive[i], Len(CreateSteps(k)) + 1)
    BY <2>1 DEF Sound, Kept
  <2>3. CASE k \in Containers
    <3>1. "container" \in host[i] BY <2>2, <2>3, ContainerTable DEF Made
    <3>2. QED
      BY <2>3, <3>1 DEF Listed, Informed, IsAlive, ContainerListed, ContainerInformed,
                        ContainerAlive, Containers
  <2>4. CASE k = "gvisor"
    <3>1. entry[i] /\ fsm[i] = "Running" BY <2>2, <2>4, GVisorTable DEF Made
    <3>2. QED
      BY <2>4, <3>1 DEF Listed, Informed, IsAlive, GVisorListed, GVisorInformed,
                        GVisorAlive, Containers, None
  <2>5. CASE k = "firecracker"
    <3>1. entry[i] /\ fsm[i] = "Running" /\ "dir" \in host[i]
      BY <2>2, <2>5, FirecrackerTable DEF Made
    <3>2. QED
      BY <2>5, <3>1 DEF Listed, Informed, IsAlive, FirecrackerListed, FirecrackerInformed,
                        FirecrackerAlive, Containers, None
  <2>6. CASE k = "local"
    <3>1. entry[i] /\ fsm[i] = "Running" /\ alive[i] BY <2>2, <2>6, LocalTable DEF Made
    <3>2. QED
      BY <2>6, <3>1 DEF Listed, Informed, IsAlive, LocalInformed, LocalAlive, Containers, None
  <2>7. CASE k = "wasm"
    <3>1. entry[i] /\ alive[i] BY <2>2, <2>7, WasmTable DEF Made
    <3>2. QED BY <2>7, <3>1 DEF Listed, Informed, IsAlive, Containers
  <2>8. QED BY <2>1, <2>3, <2>4, <2>5, <2>6, <2>7, KindIs
<1>2. QED BY <1>1, SpecSound, PTL

\* No snapshot leaves a VM paused behind it, unless it failed half way.
THEOREM SnapshotsResume == Spec => []PausedForSnapshot
<1>1. Sound => PausedForSnapshot
  <2> SUFFICES ASSUME Sound, NEW i \in Ids \ stuck, paused[i] PROVE On(i, {"snapshot"})
    BY DEF PausedForSnapshot
  <2>1. PICK c \in Calls : call[c].op = "snapshot" /\ call[c].id = i
    BY DEF Sound, PauseHeld
  <2>2. call[c] # Idle BY <2>1, CallIs DEF Sound
  <2>3. QED BY <2>1, <2>2 DEF On
<1>2. QED BY <1>1, SpecSound, PTL

\* What a create that failed left on the host a terminate would remove, all but
\* the bundle of a process that was never started.
THEOREM FailuresReclaimable == Spec => []Reclaimable
<1>1. Sound => Reclaimable
  <2> SUFFICES ASSUME Sound, NEW i \in Ids, i \notin created
               PROVE  host[i] \ Reclaims(i)
                        \subseteq (IF kind[i] = "gvisor" /\ ~entry[i] THEN {"bundle"} ELSE {})
    BY DEF Reclaimable
  <2> DEFINE k == kind[i]
             t == TerminateSteps(k)
             F == UNION {Frees(s) : s \in {t[n] : n \in DOMAIN t}}
  <2>1. /\ k \in Kinds /\ host[i] \subseteq Things(k)
        /\ "process" \in host[i] => entry[i]
        /\ entry[i] \in BOOLEAN
    BY DEF Sound, StateTyped, Kept, Traced
  <2>2. \A n \in 1..Len(t) : Frees(t[n]) \subseteq F
    BY <2>1, StepsBounded
  <2>3. Reclaims(i) = F \ (IF entry[i] THEN {} ELSE {"process", "bundle"})
    BY DEF Reclaims
  <2> HIDE DEF F
  <2>4. CASE k \in Containers
    <3>1. Len(t) = 1 /\ t[1] = "remove" BY <2>4, ContainerTable
    <3>2. "container" \in F BY <2>2, <3>1 DEF Frees
    <3>3. QED BY <2>1, <2>3, <2>4, <3>2 DEF Things, Containers
  <2>5. CASE k = "gvisor"
    <3>1. Len(t) = 3 /\ t[1] = "kill" /\ t[2] = "delete" /\ t[3] = "unbundle"
      BY <2>5, GVisorTable
    <3> HIDE DEF t
    <3>2. Frees(t[1]) = {"process"} /\ Frees(t[2]) = {"container"} /\ Frees(t[3]) = {"bundle"}
      BY <3>1 DEF Frees
    <3>3. "process" \in F /\ "container" \in F /\ "bundle" \in F
      BY <2>2, <3>1, <3>2
    <3>4. QED BY <2>1, <2>3, <2>5, <3>3 DEF Things, Containers
  <2>6. CASE k = "firecracker"
    <3>1. Len(t) = 3 /\ t[1] = "kill" /\ t[2] = "teardown" /\ t[3] = "undir"
      BY <2>6, FirecrackerTable
    <3> HIDE DEF t
    <3>2. Frees(t[1]) = {"process"} /\ Frees(t[2]) = {"tap"} /\ Frees(t[3]) = {"dir"}
      BY <3>1 DEF Frees
    <3>3. "process" \in F /\ "tap" \in F /\ "dir" \in F
      BY <2>2, <3>1, <3>2
    <3>4. QED BY <2>1, <2>3, <2>6, <3>3 DEF Things, Containers
  <2>7. CASE k = "local"
    <3>1. Len(t) = 2 /\ t[1] = "unworkspace" BY <2>7, LocalTable
    <3>2. "workspace" \in F BY <2>2, <3>1 DEF Frees
    <3>3. QED BY <2>1, <2>3, <2>7, <3>2 DEF Things, Containers
  <2>8. CASE k = "wasm"
    <3>1. Len(t) = 2 /\ t[1] = "unvfs" BY <2>8, WasmTable
    <3>2. "vfs" \in F BY <2>2, <3>1 DEF Frees
    <3>3. QED BY <2>1, <2>3, <2>8, <3>2 DEF Things, Containers
  <2>9. QED BY <2>1, <2>4, <2>5, <2>6, <2>7, <2>8, KindIs
<1>2. QED BY <1>1, SpecSound, PTL
============================================================================
