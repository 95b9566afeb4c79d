------------------------ MODULE ContainerServiceProofs ------------------------
(* Proofs about ContainerService, for any number of services, images, versions and
   faults. *)
EXTENDS ContainerService, TLAPS

-----------------------------------------------------------------------------
(* Inductive invariants *)

\* From the comparison on, there is a digest file, and it stays.
DigestInv ==
  \A u \in Units :
    /\ pc[u] \in {"compare", "change", "record", "run", "running"} =>
         digest[u] # NoFile
    /\ ran[u] => digest[u] # NoFile

\* What is stored was offered since the start began.
SeenInv ==
  \A u \in Units :
    /\ pc[u] \notin {"stopped", "failed"} => registry[ImageOf[u]] \in seen[u]
    /\ pc[u] \in {"remove", "init", "create", "compare", "change", "record", "run"} =>
         Local(u) \in seen[u]
    /\ pc[u] = "running" => container[u] \in seen[u]

\* A container that is still there when the next is to run is one that podman
\* could not remove.
CleanInv ==
  \A u \in Units :
    /\ pc[u] \in {"init", "create", "compare", "change", "record", "run"} =>
         container[u] = None \/ ~clean[u]
    /\ pc[u] = "failed" => ~clean[u]

\* The digest file is older than the stored image, or its version is the one the
\* data is ready for.
ReadyOf(u) ==
  /\ digest[u] # None
  /\ digest[u] \in Versions =>
       /\ digest[u] <= Local(u)
       /\ data[u] = digest[u] \/ digest[u] < Local(u)
  /\ pc[u] \in {"remove", "init", "create", "compare", "change", "record", "run"} =>
       Local(u) # None
  /\ pc[u] = "create" /\ digest[u] = NoFile => data[u] = Local(u)
  /\ pc[u] = "change" => digest[u] # Local(u)
  /\ pc[u] \in {"record", "run"} => data[u] = Local(u)
  /\ pc[u] = "running" => data[u] = container[u]

ReadyInv ==
  /\ \A i \in Images : stored[i] <= registry[i]
  /\ \A u \in Units : ReadyOf(u)

\* No two services use the same image.
Exclusive == \A u, v \in Units : ImageOf[u] = ImageOf[v] => u = v

-----------------------------------------------------------------------------

\* What is stored of an image of a service has the type of the storage.
LEMMA LocalType ==
  ASSUME TypeOK, NEW u \in Units
  PROVE  Local(u) \in Versions \cup {None}
BY ConstantsAssumption DEF TypeOK, Local

\* The values that are no version differ from each other and from the versions.
LEMMA Marks ==
  /\ None \notin Versions /\ Blank \notin Versions /\ NoFile \notin Versions
  /\ None # Blank /\ None # NoFile /\ Blank # NoFile
  /\ Half \notin Versions /\ Half # None
BY ConstantsAssumption DEF Versions, None, Blank, NoFile, Half

\* A step with or without a fault keeps the types of the history.
LEMMA FaultTypes ==
  ASSUME TypeOK, NEW u \in Units, Fault(u) \/ NoFault
  PROVE  /\ faults' \in 0 .. MaxFaults
         /\ ran' \in [Units -> BOOLEAN]
         /\ seen' \in [Units -> SUBSET Versions]
         /\ clean' \in [Units -> BOOLEAN]
<1>1. CASE Fault(u)
  BY <1>1, ConstantsAssumption DEF Fault, TypeOK
<1>2. CASE NoFault
  BY <1>2 DEF NoFault, history, TypeOK
<1> QED
  BY <1>1, <1>2

\* The initial state is well-typed.
LEMMA TypeInit == Init => TypeOK
  BY ConstantsAssumption DEF Init, TypeOK, Versions, Labels

\* Every step keeps the types.
LEMMA TypeStep ==
  TypeOK /\ [Next]_vars => TypeOK'
<1> SUFFICES ASSUME TypeOK, [Next]_vars PROVE TypeOK'
  OBVIOUS
<1> USE ConstantsAssumption DEF TypeOK, history, NoFault, Goto, Set
<1>1. ASSUME NEW i \in Images, Publish(i) PROVE TypeOK'
  <2>1. seen' \in [Units -> SUBSET Versions]
    BY <1>1 DEF Publish
  <2> QED
    BY <1>1, <2>1 DEF Publish
<1>2. ASSUME NEW u \in Units, Start(u) PROVE TypeOK'
  BY <1>2 DEF Start, Local, Labels
<1>3. ASSUME NEW u \in Units, Refresh(u) PROVE TypeOK'
  BY <1>3 DEF Refresh, Local, Labels
<1>4. ASSUME NEW u \in Units, RefreshFails(u) PROVE TypeOK'
  <2>1. Fault(u) \/ NoFault
    BY <1>4 DEF RefreshFails
  <2>2. faults' \in 0 .. MaxFaults /\ ran' \in [Units -> BOOLEAN] /\
        seen' \in [Units -> SUBSET Versions] /\ clean' \in [Units -> BOOLEAN]
    BY <2>1, FaultTypes
  <2>3. pc' \in [Units -> Labels]
    BY <1>4 DEF RefreshFails, Labels
  <2> QED
    BY <1>4, <2>2, <2>3 DEF RefreshFails
<1>5. ASSUME NEW u \in Units, Remove(u) PROVE TypeOK'
  BY <1>5 DEF Remove, Local, Labels
<1>6. ASSUME NEW u \in Units, RemoveFails(u) PROVE TypeOK'
  BY <1>6 DEF RemoveFails, Fault, Local, Labels
<1>7. ASSUME NEW u \in Units, RunInit(u) PROVE TypeOK'
  BY <1>7 DEF RunInit, Local, Labels
<1>8. ASSUME NEW u \in Units, CreateDigest(u) PROVE TypeOK'
  <2>1. Fault(u) \/ NoFault
    BY <1>8 DEF CreateDigest, Listed
  <2>2. faults' \in 0 .. MaxFaults /\ ran' \in [Units -> BOOLEAN] /\
        seen' \in [Units -> SUBSET Versions] /\ clean' \in [Units -> BOOLEAN]
    BY <2>1, FaultTypes
  <2>3. pc' \in [Units -> Labels]
    BY <1>8 DEF CreateDigest, Labels
  <2>4. digest' \in [Units -> Versions \cup {None, Blank, NoFile}]
    BY <1>8, LocalType DEF CreateDigest
  <2> QED
    BY <1>8, <2>2, <2>3, <2>4 DEF CreateDigest
<1>9. ASSUME NEW u \in Units, Compare(u) PROVE TypeOK'
  <2>1. Fault(u) \/ NoFault
    BY <1>9 DEF Compare, Listed
  <2>2. faults' \in 0 .. MaxFaults /\ ran' \in [Units -> BOOLEAN] /\
        seen' \in [Units -> SUBSET Versions] /\ clean' \in [Units -> BOOLEAN]
    BY <2>1, FaultTypes
  <2>3. pc' \in [Units -> Labels]
    BY <1>9 DEF Compare, Labels
  <2> QED
    BY <1>9, <2>2, <2>3 DEF Compare
<1>10. ASSUME NEW u \in Units, RunChange(u) PROVE TypeOK'
  BY <1>10 DEF RunChange, Local, Labels
<1>11. ASSUME NEW u \in Units, CommandFails(u) PROVE TypeOK'
  BY <1>11 DEF CommandFails, AtCommand, Fault, Local, Labels
<1>12. ASSUME NEW u \in Units, RecordDigest(u) PROVE TypeOK'
  <2>1. Fault(u) \/ NoFault
    BY <1>12 DEF RecordDigest, Listed
  <2>2. faults' \in 0 .. MaxFaults /\ ran' \in [Units -> BOOLEAN] /\
        seen' \in [Units -> SUBSET Versions] /\ clean' \in [Units -> BOOLEAN]
    BY <2>1, FaultTypes
  <2>3. pc' \in [Units -> Labels]
    BY <1>12 DEF RecordDigest, Labels
  <2>4. digest' \in [Units -> Versions \cup {None, Blank, NoFile}]
    BY <1>12, LocalType DEF RecordDigest
  <2> QED
    BY <1>12, <2>2, <2>3, <2>4 DEF RecordDigest
<1>13. ASSUME NEW u \in Units, RunContainer(u) PROVE TypeOK'
  BY <1>13 DEF RunContainer, Local, Labels
<1>14. ASSUME NEW u \in Units, RunFails(u) PROVE TypeOK'
  <2>1. Fault(u) \/ NoFault
    BY <1>14 DEF RunFails
  <2>2. faults' \in 0 .. MaxFaults /\ ran' \in [Units -> BOOLEAN] /\
        seen' \in [Units -> SUBSET Versions] /\ clean' \in [Units -> BOOLEAN]
    BY <2>1, FaultTypes
  <2>3. pc' \in [Units -> Labels]
    BY <1>14 DEF RunFails, Labels
  <2> QED
    BY <1>14, <2>2, <2>3 DEF RunFails
<1>15. ASSUME NEW u \in Units, Stop(u) PROVE TypeOK'
  <2>1. digest[u] \in Versions \cup {None, Blank, NoFile} /\ Local(u) \in Versions \cup {None}
    BY DEF Local
  <2>2. digest' \in [Units -> Versions \cup {None, Blank, NoFile}]
    BY <1>15, <2>1 DEF Stop, Torn, TornDigest
  <2>3. container' \in [Units -> Versions \cup {None}]
    BY <1>15, <2>1 DEF Stop, Torn, TornContainer
  <2>4. data' \in [Units -> Versions \cup {None, Half}]
    BY <1>15, <2>1 DEF Stop, Torn, TornData
  <2>5. pc' \in [Units -> Labels]
    BY <1>15 DEF Stop, Labels
  <2> QED
    BY <1>15, <2>2, <2>3, <2>4, <2>5 DEF Stop
<1>16. ASSUME NEW u \in Units, Kill(u) PROVE TypeOK'
  <2>1. digest[u] \in Versions \cup {None, Blank, NoFile} /\ Local(u) \in Versions \cup {None}
    BY DEF Local
  <2>2. digest' \in [Units -> Versions \cup {None, Blank, NoFile}]
    BY <1>16, <2>1 DEF Kill, Torn, TornDigest
  <2>3. container' \in [Units -> Versions \cup {None}]
    BY <1>16, <2>1 DEF Kill, Torn, TornContainer
  <2>4. data' \in [Units -> Versions \cup {None, Half}]
    BY <1>16, <2>1 DEF Kill, Torn, TornData
  <2>5. pc' \in [Units -> Labels]
    BY <1>16 DEF Kill, Labels
  <2> QED
    BY <1>16, <2>2, <2>3, <2>4, <2>5 DEF Kill, Fault
<1>17. CASE Crash
  BY <1>17 DEF Crash, Reset, Labels
<1>18. CASE UNCHANGED vars
  BY <1>18 DEF vars
<1> QED
  BY <1>1, <1>2, <1>3, <1>4, <1>5, <1>6, <1>7, <1>8, <1>9, <1>10, <1>11, <1>12, <1>13, <1>14, <1>15, <1>16, <1>17, <1>18
  DEF Next, Systemd

\* Every variable keeps its type.
THEOREM TypeCorrect == Spec => []TypeOK
<1> QED
  BY TypeInit, TypeStep, PTL DEF Spec

\* A command that is cut short removes no digest file.
LEMMA DigestStays ==
  ASSUME TypeOK, NEW u \in Units, digest[u] # NoFile, NEW d \in TornDigest(u)
  PROVE  d # NoFile
<1>1. Local(u) # NoFile
  BY LocalType, Marks
<1> QED
  BY <1>1, Marks DEF TornDigest

\* A digest file is never removed.
LEMMA DigestInvStep ==
  TypeOK /\ DigestInv /\ [Next]_vars => DigestInv'
<1> SUFFICES ASSUME TypeOK, DigestInv, [Next]_vars PROVE DigestInv'
  OBVIOUS
<1> USE ConstantsAssumption DEF TypeOK, history, NoFault, Goto, Set, DigestInv
<1>1. ASSUME NEW i \in Images, Publish(i) PROVE DigestInv'
  BY <1>1 DEF Publish, Local
<1>2. ASSUME NEW u \in Units, Start(u) PROVE DigestInv'
  BY <1>2 DEF Start, Local
<1>3. ASSUME NEW u \in Units, Refresh(u) PROVE DigestInv'
  BY <1>3 DEF Refresh, Local
<1>4. ASSUME NEW u \in Units, RefreshFails(u) PROVE DigestInv'
  BY <1>4 DEF RefreshFails, Fault, Local
<1>5. ASSUME NEW u \in Units, Remove(u) PROVE DigestInv'
  BY <1>5 DEF Remove, Local
<1>6. ASSUME NEW u \in Units, RemoveFails(u) PROVE DigestInv'
  BY <1>6 DEF RemoveFails, Fault, Local
<1>7. ASSUME NEW u \in Units, RunInit(u) PROVE DigestInv'
  BY <1>7 DEF RunInit, Local
<1>8. ASSUME NEW u \in Units, CreateDigest(u) PROVE DigestInv'
  <2>1. Local(u) # NoFile
    BY LocalType, Marks
  <2>2. digest'[u] # NoFile
    BY <1>8, <2>1, Marks DEF CreateDigest
  <2>3. pc' = [pc EXCEPT ![u] = pc'[u]] /\ ran' = ran
    BY <1>8 DEF CreateDigest, Listed, Fault
  <2>4. \A v \in Units \ {u} : digest'[v] = digest[v]
    BY <1>8 DEF CreateDigest
  <2> QED
    BY <2>2, <2>3, <2>4
<1>9. ASSUME NEW u \in Units, Compare(u) PROVE DigestInv'
  BY <1>9 DEF Compare, Listed, Fault, Local
<1>10. ASSUME NEW u \in Units, RunChange(u) PROVE DigestInv'
  BY <1>10 DEF RunChange, Local
<1>11. ASSUME NEW u \in Units, CommandFails(u) PROVE DigestInv'
  BY <1>11 DEF CommandFails, AtCommand, Fault, Local
<1>12. ASSUME NEW u \in Units, RecordDigest(u) PROVE DigestInv'
  <2>1. Local(u) # NoFile
    BY LocalType, Marks
  <2>2. digest'[u] # NoFile
    BY <1>12, <2>1, Marks DEF RecordDigest
  <2>3. pc' = [pc EXCEPT ![u] = pc'[u]] /\ ran' = ran
    BY <1>12 DEF RecordDigest, Listed, Fault
  <2>4. \A v \in Units \ {u} : digest'[v] = digest[v]
    BY <1>12 DEF RecordDigest
  <2> QED
    BY <2>2, <2>3, <2>4
<1>13. ASSUME NEW u \in Units, RunContainer(u) PROVE DigestInv'
  BY <1>13 DEF RunContainer, Local
<1>14. ASSUME NEW u \in Units, RunFails(u) PROVE DigestInv'
  BY <1>14 DEF RunFails, Fault, Local
<1>15. ASSUME NEW u \in Units, Stop(u) PROVE DigestInv'
  <2>1. \A v \in Units : digest'[v] \in TornDigest(v) \/ digest'[v] = digest[v]
    BY <1>15 DEF Stop, Torn
  <2>2. pc'[u] \in {"stopped", "failed"} /\ ran' = ran
    BY <1>15 DEF Stop, Fault
  <2>3. \A v \in Units \ {u} : pc'[v] = pc[v] /\ digest'[v] = digest[v]
    BY <1>15 DEF Stop, Torn
  <2> QED
    BY <2>1, <2>2, <2>3, DigestStays
<1>16. ASSUME NEW u \in Units, Kill(u) PROVE DigestInv'
  <2>1. \A v \in Units : digest'[v] \in TornDigest(v) \/ digest'[v] = digest[v]
    BY <1>16 DEF Kill, Torn
  <2>2. pc'[u] \in {"stopped", "failed"} /\ ran' = ran
    BY <1>16 DEF Kill, Fault
  <2>3. \A v \in Units \ {u} : pc'[v] = pc[v] /\ digest'[v] = digest[v]
    BY <1>16 DEF Kill, Torn
  <2> QED
    BY <2>1, <2>2, <2>3, DigestStays
<1>17. CASE Crash
  <2>1. \A v \in Units : digest'[v] \in TornDigest(v)
    BY <1>17 DEF Crash
  <2>2. \A v \in Units : pc'[v] = "stopped" /\ ran'[v] = ran[v]
    BY <1>17 DEF Crash, Reset
  <2> QED
    BY <2>1, <2>2, DigestStays
<1>18. CASE UNCHANGED vars
  BY <1>18 DEF vars
<1> QED
  BY <1>1, <1>2, <1>3, <1>4, <1>5, <1>6, <1>7, <1>8, <1>9, <1>10, <1>11, <1>12, <1>13, <1>14, <1>15, <1>16, <1>17, <1>18
  DEF Next, Systemd

\* With a registry, what is stored comes from it.
LEMMA SeenInvStep ==
  ASSUME Source = "registry"
  PROVE  TypeOK /\ SeenInv /\ [Next]_vars => SeenInv'
<1> SUFFICES ASSUME TypeOK, SeenInv, [Next]_vars PROVE SeenInv'
  OBVIOUS
<1> USE ConstantsAssumption DEF TypeOK, history, NoFault, Goto, Set, SeenInv
<1>1. ASSUME NEW i \in Images, Publish(i) PROVE SeenInv'
  BY <1>1 DEF Publish, Local
<1>2. ASSUME NEW u \in Units, Start(u) PROVE SeenInv'
  BY <1>2 DEF Start, Local
<1>3. ASSUME NEW u \in Units, Refresh(u) PROVE SeenInv'
  BY <1>3 DEF Refresh, Local
<1>4. ASSUME NEW u \in Units, RefreshFails(u) PROVE SeenInv'
  BY <1>4 DEF RefreshFails, Fault, Local
<1>5. ASSUME NEW u \in Units, Remove(u) PROVE SeenInv'
  BY <1>5 DEF Remove, Local
<1>6. ASSUME NEW u \in Units, RemoveFails(u) PROVE SeenInv'
  BY <1>6 DEF RemoveFails, Fault, Local
<1>7. ASSUME NEW u \in Units, RunInit(u) PROVE SeenInv'
  BY <1>7 DEF RunInit, Local
<1>8. ASSUME NEW u \in Units, CreateDigest(u) PROVE SeenInv'
  BY <1>8 DEF CreateDigest, Listed, Fault, Local
<1>9. ASSUME NEW u \in Units, Compare(u) PROVE SeenInv'
  BY <1>9 DEF Compare, Listed, Fault, Local
<1>10. ASSUME NEW u \in Units, RunChange(u) PROVE SeenInv'
  BY <1>10 DEF RunChange, Local
<1>11. ASSUME NEW u \in Units, CommandFails(u) PROVE SeenInv'
  BY <1>11 DEF CommandFails, AtCommand, Fault, Local
<1>12. ASSUME NEW u \in Units, RecordDigest(u) PROVE SeenInv'
  BY <1>12 DEF RecordDigest, Listed, Fault, Local
<1>13. ASSUME NEW u \in Units, RunContainer(u) PROVE SeenInv'
  BY <1>13 DEF RunContainer, Local
<1>14. ASSUME NEW u \in Units, RunFails(u) PROVE SeenInv'
  BY <1>14 DEF RunFails, Fault, Local
<1>15. ASSUME NEW u \in Units, Stop(u) PROVE SeenInv'
  BY <1>15 DEF Stop, Torn, TornDigest, TornContainer, TornData, AtCommand, Local
<1>16. ASSUME NEW u \in Units, Kill(u) PROVE SeenInv'
  BY <1>16 DEF Kill, Torn, Fault, TornDigest, TornContainer, TornData, AtCommand, Local
<1>17. CASE Crash
  BY <1>17 DEF Crash, Reset, Local, TornDigest, TornContainer, TornData, AtCommand
<1>18. CASE UNCHANGED vars
  <2>1. /\ registry' = registry /\ stored' = stored /\ seen' = seen
        /\ pc' = pc /\ container' = container
    BY <1>18 DEF vars
  <2>2. \A v \in Units : Local(v)' = Local(v)
    BY <2>1 DEF Local
  <2> QED
    BY <2>1, <2>2
<1> QED
  BY <1>1, <1>2, <1>3, <1>4, <1>5, <1>6, <1>7, <1>8, <1>9, <1>10, <1>11, <1>12, <1>13, <1>14, <1>15, <1>16, <1>17, <1>18
  DEF Next, Systemd

\* Only podman rm that fails leaves a container behind.
LEMMA CleanInvStep ==
  ASSUME Source # "localhost", Ephemeral
  PROVE  TypeOK /\ CleanInv /\ [Next]_vars => CleanInv'
<1> SUFFICES ASSUME TypeOK, CleanInv, [Next]_vars PROVE CleanInv'
  OBVIOUS
<1> USE ConstantsAssumption DEF TypeOK, history, NoFault, Goto, Set, CleanInv
<1>1. ASSUME NEW i \in Images, Publish(i) PROVE CleanInv'
  BY <1>1 DEF Publish, Local
<1>2. ASSUME NEW u \in Units, Start(u) PROVE CleanInv'
  BY <1>2 DEF Start, Local
<1>3. ASSUME NEW u \in Units, Refresh(u) PROVE CleanInv'
  BY <1>3 DEF Refresh, Local
<1>4. ASSUME NEW u \in Units, RefreshFails(u) PROVE CleanInv'
  BY <1>4 DEF RefreshFails, Fault, Local
<1>5. ASSUME NEW u \in Units, Remove(u) PROVE CleanInv'
  BY <1>5 DEF Remove, Local
<1>6. ASSUME NEW u \in Units, RemoveFails(u) PROVE CleanInv'
  BY <1>6 DEF RemoveFails, Fault, Local
<1>7. ASSUME NEW u \in Units, RunInit(u) PROVE CleanInv'
  BY <1>7 DEF RunInit, Local
<1>8. ASSUME NEW u \in Units, CreateDigest(u) PROVE CleanInv'
  BY <1>8 DEF CreateDigest, Listed, Fault, Local
<1>9. ASSUME NEW u \in Units, Compare(u) PROVE CleanInv'
  BY <1>9 DEF Compare, Listed, Fault, Local
<1>10. ASSUME NEW u \in Units, RunChange(u) PROVE CleanInv'
  BY <1>10 DEF RunChange, Local
<1>11. ASSUME NEW u \in Units, CommandFails(u) PROVE CleanInv'
  BY <1>11 DEF CommandFails, AtCommand, Fault, Local
<1>12. ASSUME NEW u \in Units, RecordDigest(u) PROVE CleanInv'
  BY <1>12 DEF RecordDigest, Listed, Fault, Local
<1>13. ASSUME NEW u \in Units, RunContainer(u) PROVE CleanInv'
  BY <1>13 DEF RunContainer, Local
<1>14. ASSUME NEW u \in Units, RunFails(u) PROVE CleanInv'
  BY <1>14 DEF RunFails, Fault, Local
<1>15. ASSUME NEW u \in Units, Stop(u) PROVE CleanInv'
  BY <1>15 DEF Stop, Torn, TornDigest, TornContainer, TornData, AtCommand, Local
<1>16. ASSUME NEW u \in Units, Kill(u) PROVE CleanInv'
  BY <1>16 DEF Kill, Torn, Fault, TornDigest, TornContainer, TornData, AtCommand, Local
<1>17. CASE Crash
  BY <1>17 DEF Crash, Reset, Local, TornDigest, TornContainer, TornData, AtCommand
<1>18. CASE UNCHANGED vars
  BY <1>18 DEF vars
<1> QED
  BY <1>1, <1>2, <1>3, <1>4, <1>5, <1>6, <1>7, <1>8, <1>9, <1>10, <1>11, <1>12, <1>13, <1>14, <1>15, <1>16, <1>17, <1>18
  DEF Next, Systemd

\* A service whose state does not change stays ready.
LEMMA ReadyKept ==
  ASSUME NEW v \in Units, ReadyOf(v),
         digest'[v] = digest[v], data'[v] = data[v], container'[v] = container[v],
         pc'[v] = pc[v], stored'[ImageOf[v]] = stored[ImageOf[v]]
  PROVE  ReadyOf(v)'
<1>1. Local(v)' = Local(v)
  BY DEF Local
<1> QED
  BY <1>1 DEF ReadyOf

\* What a command that is cut short leaves behind is no less ready: the digest file
\* is not ahead of the data.
LEMMA TornReady ==
  ASSUME TypeOK, NEW u \in Units, ReadyOf(u),
         digest'[u] \in TornDigest(u), data'[u] \in TornData(u),
         pc'[u] \in {"stopped", "failed"}, stored' = stored
  PROVE  ReadyOf(u)'
<1>1. Local(u)' = Local(u) /\ Local(u) \in Versions \cup {None}
  BY LocalType DEF Local
<1> SUFFICES digest'[u] # None /\
             (digest'[u] \in Versions =>
               /\ digest'[u] <= Local(u)
               /\ data'[u] = digest'[u] \/ digest'[u] < Local(u))
  BY <1>1 DEF ReadyOf
<1>2. digest[u] \in Versions \cup {None, Blank, NoFile}
  BY DEF TypeOK
<1>3. CASE pc[u] = "create" /\ digest[u] = NoFile
  <2>1. data'[u] = Local(u) /\ Local(u) # None /\ digest'[u] \in {NoFile, Blank, Local(u)}
    BY <1>3 DEF ReadyOf, TornDigest, TornData, AtCommand
  <2> QED
    BY <2>1, <1>1, Marks, ConstantsAssumption DEF Versions
<1>4. CASE pc[u] = "record"
  <2>1. data'[u] = Local(u) /\ Local(u) # None /\ digest'[u] \in {digest[u], Blank, Local(u)}
    BY <1>4 DEF ReadyOf, TornDigest, TornData, AtCommand
  <2> QED
    BY <2>1, <1>1, <1>2, Marks, ConstantsAssumption DEF Versions, ReadyOf
<1>5. CASE ~ (pc[u] = "create" /\ digest[u] = NoFile) /\ pc[u] # "record"
  <2>1. digest'[u] = digest[u]
    BY <1>5 DEF TornDigest
  <2>2. CASE pc[u] = "init" /\ digest[u] = NoFile
    BY <2>1, <2>2, Marks
  <2>3. CASE pc[u] = "change"
    BY <2>1, <2>3, <1>1, <1>2, ConstantsAssumption DEF Versions, ReadyOf
  <2>4. CASE ~ AtCommand(u)
    BY <2>1, <2>4 DEF TornData, ReadyOf
  <2> QED
    BY <2>2, <2>3, <2>4 DEF AtCommand
<1> QED
  BY <1>3, <1>4, <1>5

\* With an image of its own, and versions in their order, the digest file tells
\* which version the data is ready for.
LEMMA ReadyInvStep ==
  ASSUME Source = "registry", ~ListFails, ~Rewinds, Exclusive
  PROVE  TypeOK /\ ReadyInv /\ [Next]_vars => ReadyInv'
<1> SUFFICES ASSUME TypeOK, ReadyInv, [Next]_vars PROVE ReadyInv'
  OBVIOUS
<1> USE ConstantsAssumption DEF history, NoFault, Goto, Set
<1> DEFINE Kept(v) ==
      /\ digest'[v] = digest[v] /\ data'[v] = data[v] /\ container'[v] = container[v]
      /\ pc'[v] = pc[v] /\ stored'[ImageOf[v]] = stored[ImageOf[v]]
<1> HIDE DEF Kept
<1>a. \A u \in Units :
        /\ ReadyOf(u) /\ Local(u) \in Versions \cup {None} /\ ImageOf[u] \in Images
        /\ digest[u] \in Versions \cup {None, Blank, NoFile}
  BY LocalType DEF ReadyInv, TypeOK
<1>b. ASSUME NEW v \in Units, Kept(v) PROVE ReadyOf(v)'
  BY <1>a, <1>b, ReadyKept DEF Kept
<1>c. ASSUME NEW u \in Units, ReadyOf(u)', \A v \in Units \ {u} : Kept(v),
             \A i \in Images : stored'[i] <= registry'[i]
      PROVE  ReadyInv'
  BY <1>b, <1>c DEF ReadyInv
<1>d. ASSUME stored' = stored, registry' = registry
      PROVE  /\ \A i \in Images : stored'[i] <= registry'[i]
             /\ \A v \in Units : Local(v)' = Local(v)
  BY <1>d DEF ReadyInv, Local
<1>1. ASSUME NEW i \in Images, Publish(i) PROVE ReadyInv'
  <2>1. \A v \in Units : Kept(v)
    BY <1>1 DEF Publish, Kept
  <2>2. ASSUME NEW j \in Images PROVE stored'[j] <= registry'[j]
    <3>1. stored[j] \in Int /\ registry[j] \in Int /\ stored[j] <= registry[j]
      BY DEF ReadyInv, TypeOK, Versions, None
    <3>2. PICK v \in Versions : v > registry[i] /\ registry' = [registry EXCEPT ![i] = v]
      BY <1>1 DEF Publish
    <3>3. stored' = stored /\ registry[i] \in Int /\ v \in Int
      BY <1>1 DEF Publish, TypeOK, Versions
    <3>4. registry[j] <= registry'[j] /\ registry'[j] \in Int
      BY <3>1, <3>2, <3>3 DEF TypeOK
    <3> QED
      BY <3>1, <3>3, <3>4
  <2> QED
    BY <1>b, <2>1, <2>2 DEF ReadyInv
<1>2. ASSUME NEW u \in Units, Start(u) PROVE ReadyInv'
  <2>1. stored' = stored /\ registry' = registry
    BY <1>2 DEF Start
  <2>2. \A v \in Units \ {u} : Kept(v)
    BY <1>2, <2>1 DEF Start, Kept, TypeOK
  <2>3. pc'[u] = "refresh" /\ digest'[u] = digest[u] /\ data'[u] = data[u]
    BY <1>2 DEF Start, TypeOK
  <2>4. ReadyOf(u)'
    BY <1>a, <1>d, <2>1, <2>3, Marks DEF ReadyOf, Versions
  <2> QED
    BY <1>c, <1>d, <2>1, <2>2, <2>4
<1>3. ASSUME NEW u \in Units, Refresh(u) PROVE ReadyInv'
  <2>1. stored' = [stored EXCEPT ![ImageOf[u]] = registry[ImageOf[u]]]
    BY <1>3 DEF Refresh
  <2>2. \A v \in Units \ {u} : Kept(v)
    BY <1>3, <1>a, <2>1 DEF Refresh, Kept, Exclusive, TypeOK
  <2>3. /\ pc'[u] = "remove" /\ data'[u] = data[u] /\ digest'[u] = digest[u]
        /\ Local(u)' = registry[ImageOf[u]]
    BY <1>3, <1>a, <2>1 DEF Refresh, TypeOK, Local
  <2>4. Local(u) <= Local(u)' /\ Local(u)' \in Versions
    BY <1>a, <2>3 DEF ReadyInv, TypeOK, Local
  <2>5. ReadyOf(u)'
    BY <1>a, <2>3, <2>4, Marks DEF ReadyOf, Versions, None
  <2>6. \A i \in Images : stored'[i] <= registry'[i]
    BY <1>3, <1>a, <2>1 DEF Refresh, ReadyInv, TypeOK, Versions
  <2> QED
    BY <1>c, <2>2, <2>5, <2>6
<1>4. ASSUME NEW u \in Units, RefreshFails(u) PROVE ReadyInv'
  <2>1. stored' = stored /\ registry' = registry
    BY <1>4 DEF RefreshFails
  <2>2. \A v \in Units \ {u} : Kept(v)
    BY <1>4, <2>1 DEF RefreshFails, Fault, Kept, TypeOK
  <2>3. pc'[u] = "failed" /\ digest'[u] = digest[u] /\ data'[u] = data[u]
    BY <1>4 DEF RefreshFails, Fault, TypeOK
  <2>4. ReadyOf(u)'
    BY <1>a, <1>d, <2>1, <2>3, Marks DEF ReadyOf, Versions
  <2> QED
    BY <1>c, <1>d, <2>1, <2>2, <2>4
<1>5. ASSUME NEW u \in Units, Remove(u) PROVE ReadyInv'
  <2>1. stored' = stored /\ registry' = registry
    BY <1>5 DEF Remove
  <2>2. \A v \in Units \ {u} : Kept(v)
    BY <1>5, <2>1 DEF Remove, Kept, TypeOK
  <2>3. pc[u] = "remove" /\ pc'[u] = "init" /\ digest'[u] = digest[u] /\ data'[u] = data[u]
    BY <1>5 DEF Remove, TypeOK
  <2>4. ReadyOf(u)'
    BY <1>a, <1>d, <2>1, <2>3, Marks DEF ReadyOf, Versions
  <2> QED
    BY <1>c, <1>d, <2>1, <2>2, <2>4
<1>6. ASSUME NEW u \in Units, RemoveFails(u) PROVE ReadyInv'
  <2>1. stored' = stored /\ registry' = registry
    BY <1>6 DEF RemoveFails
  <2>2. \A v \in Units \ {u} : Kept(v)
    BY <1>6, <2>1 DEF RemoveFails, Fault, Kept, TypeOK
  <2>3. pc[u] = "remove" /\ pc'[u] = "init" /\ digest'[u] = digest[u] /\ data'[u] = data[u]
    BY <1>6 DEF RemoveFails, Fault, TypeOK
  <2>4. ReadyOf(u)'
    BY <1>a, <1>d, <2>1, <2>3, Marks DEF ReadyOf, Versions
  <2> QED
    BY <1>c, <1>d, <2>1, <2>2, <2>4
<1>7. ASSUME NEW u \in Units, RunInit(u) PROVE ReadyInv'
  <2>1. stored' = stored /\ registry' = registry
    BY <1>7 DEF RunInit
  <2>2. \A v \in Units \ {u} : Kept(v)
    BY <1>7, <2>1 DEF RunInit, Kept, TypeOK
  <2>3. /\ pc[u] = "init" /\ pc'[u] = "create" /\ digest'[u] = digest[u]
        /\ data'[u] = IF digest[u] = NoFile THEN Local(u) ELSE data[u]
    BY <1>7 DEF RunInit, TypeOK
  <2>4. ReadyOf(u)'
    BY <1>a, <1>d, <2>1, <2>3, Marks DEF ReadyOf, Versions
  <2> QED
    BY <1>c, <1>d, <2>1, <2>2, <2>4
<1>8. ASSUME NEW u \in Units, CreateDigest(u) PROVE ReadyInv'
  <2>1. stored' = stored /\ registry' = registry
    BY <1>8 DEF CreateDigest
  <2>2. \A v \in Units \ {u} : Kept(v)
    BY <1>8, <2>1 DEF CreateDigest, Listed, Kept, TypeOK
  <2>3. /\ pc[u] = "create" /\ pc'[u] = "compare" /\ data'[u] = data[u]
        /\ digest'[u] = IF digest[u] = NoFile THEN Local(u) ELSE digest[u]
    BY <1>8 DEF CreateDigest, Listed, TypeOK
  <2>4. ReadyOf(u)'
    BY <1>a, <1>d, <2>1, <2>3, Marks DEF ReadyOf, Versions
  <2> QED
    BY <1>c, <1>d, <2>1, <2>2, <2>4
<1>9. ASSUME NEW u \in Units, Compare(u) PROVE ReadyInv'
  <2>1. stored' = stored /\ registry' = registry
    BY <1>9 DEF Compare
  <2>2. \A v \in Units \ {u} : Kept(v)
    BY <1>9, <2>1 DEF Compare, Listed, Kept, TypeOK
  <2>3. /\ pc[u] = "compare" /\ data'[u] = data[u] /\ digest'[u] = digest[u]
        /\ pc'[u] = IF digest[u] = Local(u) THEN "record" ELSE "change"
    BY <1>9 DEF Compare, Listed, TypeOK
  <2>4. ReadyOf(u)'
    BY <1>a, <1>d, <2>1, <2>3, Marks DEF ReadyOf, Versions
  <2> QED
    BY <1>c, <1>d, <2>1, <2>2, <2>4
<1>10. ASSUME NEW u \in Units, RunChange(u) PROVE ReadyInv'
  <2>1. stored' = stored /\ registry' = registry
    BY <1>10 DEF RunChange
  <2>2. \A v \in Units \ {u} : Kept(v)
    BY <1>10, <2>1 DEF RunChange, Kept, TypeOK
  <2>3. /\ pc[u] = "change" /\ pc'[u] = "record"
        /\ data'[u] = Local(u) /\ digest'[u] = digest[u]
    BY <1>10 DEF RunChange, TypeOK
  <2>4. ReadyOf(u)'
    BY <1>a, <1>d, <2>1, <2>3, Marks DEF ReadyOf, Versions
  <2> QED
    BY <1>c, <1>d, <2>1, <2>2, <2>4
<1>11. ASSUME NEW u \in Units, CommandFails(u) PROVE ReadyInv'
  <2>1. stored' = stored /\ registry' = registry
    BY <1>11 DEF CommandFails
  <2>2. \A v \in Units \ {u} : Kept(v)
    BY <1>11, <2>1 DEF CommandFails, AtCommand, Kept, TypeOK
  <2>3. /\ digest[u] = NoFile \/ pc[u] = "change"
        /\ pc'[u] = "failed" /\ data'[u] = Half /\ digest'[u] = digest[u]
    BY <1>11 DEF CommandFails, AtCommand, TypeOK
  <2>4. ReadyOf(u)'
    BY <1>a, <1>d, <2>1, <2>3, Marks DEF ReadyOf, Versions
  <2> QED
    BY <1>c, <1>d, <2>1, <2>2, <2>4
<1>12. ASSUME NEW u \in Units, RecordDigest(u) PROVE ReadyInv'
  <2>1. stored' = stored /\ registry' = registry
    BY <1>12 DEF RecordDigest
  <2>2. \A v \in Units \ {u} : Kept(v)
    BY <1>12, <2>1 DEF RecordDigest, Listed, Kept, TypeOK
  <2>3. /\ pc[u] = "record" /\ pc'[u] = "run"
        /\ data'[u] = data[u] /\ digest'[u] = Local(u)
    BY <1>12 DEF RecordDigest, Listed, TypeOK
  <2>4. ReadyOf(u)'
    BY <1>a, <1>d, <2>1, <2>3, Marks DEF ReadyOf, Versions
  <2> QED
    BY <1>c, <1>d, <2>1, <2>2, <2>4
<1>13. ASSUME NEW u \in Units, RunContainer(u) PROVE ReadyInv'
  <2>1. stored' = stored /\ registry' = registry
    BY <1>13 DEF RunContainer
  <2>2. \A v \in Units \ {u} : Kept(v)
    BY <1>13, <2>1 DEF RunContainer, Kept, TypeOK
  <2>3. /\ pc[u] = "run" /\ pc'[u] = "running" /\ data'[u] = data[u]
        /\ digest'[u] = digest[u] /\ container'[u] = Local(u)
    BY <1>13 DEF RunContainer, TypeOK
  <2>4. ReadyOf(u)'
    BY <1>a, <1>d, <2>1, <2>3, Marks DEF ReadyOf, Versions
  <2> QED
    BY <1>c, <1>d, <2>1, <2>2, <2>4
<1>14. ASSUME NEW u \in Units, RunFails(u) PROVE ReadyInv'
  <2>1. stored' = stored /\ registry' = registry
    BY <1>14 DEF RunFails
  <2>2. \A v \in Units \ {u} : Kept(v)
    BY <1>14, <2>1 DEF RunFails, Kept, TypeOK
  <2>3. pc'[u] = "failed" /\ digest'[u] = digest[u] /\ data'[u] = data[u]
    BY <1>14 DEF RunFails, TypeOK
  <2>4. ReadyOf(u)'
    BY <1>a, <1>d, <2>1, <2>3, Marks DEF ReadyOf, Versions
  <2> QED
    BY <1>c, <1>d, <2>1, <2>2, <2>4
<1>15. ASSUME NEW u \in Units, Stop(u) PROVE ReadyInv'
  <2>1. \A v \in Units \ {u} : Kept(v)
    BY <1>15 DEF Stop, Torn, Kept, TypeOK
  <2>2. digest'[u] \in TornDigest(u) /\ data'[u] \in TornData(u)
    BY <1>15 DEF Stop, Torn, TypeOK
  <2>3. pc'[u] \in {"stopped", "failed"} /\ stored' = stored /\ registry' = registry
    BY <1>15 DEF Stop, TypeOK
  <2> QED
    BY <1>a, <1>c, <1>d, <2>1, <2>2, <2>3, TornReady
<1>16. ASSUME NEW u \in Units, Kill(u) PROVE ReadyInv'
  <2>1. \A v \in Units \ {u} : Kept(v)
    BY <1>16 DEF Kill, Torn, Kept, TypeOK
  <2>2. digest'[u] \in TornDigest(u) /\ data'[u] \in TornData(u)
    BY <1>16 DEF Kill, Torn, TypeOK
  <2>3. pc'[u] \in {"stopped", "failed"} /\ stored' = stored /\ registry' = registry
    BY <1>16 DEF Kill, TypeOK
  <2> QED
    BY <1>a, <1>c, <1>d, <2>1, <2>2, <2>3, TornReady
<1>17. CASE Crash
  <2>1. \A v \in Units : /\ digest'[v] \in TornDigest(v) /\ data'[v] \in TornData(v)
                        /\ pc'[v] = "stopped"
    BY <1>17 DEF Crash, Reset
  <2>2. stored' = stored /\ registry' = registry
    BY <1>17 DEF Crash
  <2>3. \A v \in Units : ReadyOf(v)'
    BY <1>a, <2>1, <2>2, TornReady
  <2> QED
    BY <1>d, <2>2, <2>3 DEF ReadyInv
<1>18. CASE UNCHANGED vars
  <2>1. \A v \in Units : Kept(v)
    BY <1>18 DEF vars, Kept
  <2> QED
    BY <1>18, <1>b, <1>d, <2>1 DEF vars, ReadyInv
<1> QED
  BY <1>1, <1>2, <1>3, <1>4, <1>5, <1>6, <1>7, <1>8, <1>9, <1>10, <1>11, <1>12, <1>13, <1>14, <1>15, <1>16, <1>17, <1>18
  DEF Next, Systemd

\* Once the container has run, the init command never runs again.
THEOREM InitRunsOnce ==
  Spec => []InitOnlyBeforeFirstStart
<1>1. Init => DigestInv
  BY ConstantsAssumption DEF Init, DigestInv, Versions
<1>2. TypeOK /\ DigestInv /\ [Next]_vars => DigestInv'
  BY DigestInvStep
<1>3. DigestInv => InitOnlyBeforeFirstStart
  BY DEF DigestInv, InitOnlyBeforeFirstStart
<1> QED
  BY <1>1, <1>2, <1>3, TypeCorrect, PTL DEF Spec

\* A service runs a version that the registry offered since its start began, also
\* when other services use the same image.
THEOREM RefreshedImageRuns ==
  ASSUME Source = "registry"
  PROVE  Spec => []RefreshIsRun
<1>1. Init => SeenInv
  BY ConstantsAssumption DEF Init, SeenInv, Versions
<1>2. TypeOK /\ SeenInv /\ [Next]_vars => SeenInv'
  BY SeenInvStep
<1>3. SeenInv => RefreshIsRun
  BY DEF SeenInv, RefreshIsRun
<1> QED
  BY <1>1, <1>2, <1>3, TypeCorrect, PTL DEF Spec

\* A start that meets no fault succeeds.
THEOREM StartsFailOnlyByFault ==
  ASSUME Source # "localhost", Ephemeral
  PROVE  Spec => []FailsOnlyByFault
<1>1. Init => CleanInv
  BY ConstantsAssumption DEF Init, CleanInv, Versions
<1>2. TypeOK /\ CleanInv /\ [Next]_vars => CleanInv'
  BY CleanInvStep
<1>3. CleanInv => FailsOnlyByFault
  BY DEF CleanInv, FailsOnlyByFault
<1> QED
  BY <1>1, <1>2, <1>3, TypeCorrect, PTL DEF Spec

\* A container runs only on data that is ready for its version.
THEOREM ChangeRunsBeforeImage ==
  ASSUME Source = "registry", ~ListFails, ~Rewinds, Exclusive
  PROVE  Spec => []ChangedBeforeRun
<1>1. Init => ReadyInv
  BY ConstantsAssumption, Marks DEF Init, ReadyInv, ReadyOf, Local, None
<1>2. TypeOK /\ ReadyInv /\ [Next]_vars => ReadyInv'
  BY ReadyInvStep
<1>3. ReadyInv => ChangedBeforeRun
  BY DEF ReadyInv, ReadyOf, Local, ChangedBeforeRun
<1> QED
  BY <1>1, <1>2, <1>3, TypeCorrect, PTL DEF Spec

=============================================================================
