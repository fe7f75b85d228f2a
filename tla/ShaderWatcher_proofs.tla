------------------------ MODULE ShaderWatcher_proofs ------------------------
(***************************************************************************)
(* Live shaders, for any directory and any session: no edit is taken for an *)
(* older one, and, as long as nobody loads by hand and no call fails, every *)
(* change is noticed and every update arrives.                             *)
(***************************************************************************)
EXTENDS ShaderWatcher, TLAPS

\* Versions and stamps never run ahead.
StampInv ==
  /\ \A h \in Shader :
       /\ file[h] <= edits
       /\ metadata[h] # None => metadata[h][1] <= edits /\ metadata[h][2] <= defines
  /\ \A t \in Thread : scan[t] = "compile" =>
       entry[t][2][1] <= edits /\ entry[t][2][2] <= defines

\* What is cached has its metadata, and a file is compiled with the metadata collected.
CacheInv ==
  /\ \A h \in Shader : cache[h] # None <=> metadata[h] # None
  /\ \A t \in Thread : scan[t] = "compile" => entry[t] \in Shader \X Entry

\* Undisturbed, only the worker compiles.
CalmInv ==
  Undisturbed => frame \notin {"load", "discard", "unload"} /\ scan["present"] = "none"

\* The worker, its notification and whoever enabled it.
WorkerInv ==
  /\ running => armed \/ fired
  /\ worker # "scan" => scan["worker"] = "none"
  /\ worker # "none" => enabled \/ frame = "joining"

\* A file and what was built from it.
Settled(h) == IF file[h] = 0 THEN cache[h] = None ELSE metadata[h] = <<file[h], defines>>

\* No word of a change has come since the notification was armed.
Silent == running /\ ~fired /\ ~compilePending

\* The worker's scan has settled what it has looked at.
Scanned ==
  /\ \A h \in Shader : h \in listed["worker"] <=> file[h] # 0
  /\ \A h \in listed["worker"] \ todo["worker"] :
       \/ metadata[h] = <<file[h], defines>>
       \/ scan["worker"] = "compile" /\ entry["worker"][1] = h
  /\ scan["worker"] = "compile" =>
       entry["worker"][2] = <<file[entry["worker"][1]], defines>>

\* As long as no word of a change has come, the worker knows all there is to know.
NoticeInv ==
  Undisturbed =>
    /\ worker \in {"take", "scan", "wait"} => running
    /\ worker \in {"top", "arm"} => running \/ compilePending
    /\ Silent /\ worker \in {"top", "arm", "take", "scan", "wait"} =>
         /\ scan["worker"] = "none" => \A h \in Shader : Settled(h)
         /\ scan["worker"] \in {"next", "compile"} => Scanned

Inv ==
  /\ TypeOK /\ StampInv /\ MetadataNeverFlatters /\ CacheInv /\ CalmInv /\ UpdatesAddUp
  /\ WorkerInv /\ NoticeInv

\* How the variables are grouped.
USE DEF disk, flags, caches, notification, scanner, user, presenting

LEMMA NoneIsNoEntry == None \notin Entry /\ \A a, b \in Nat : <<a, b>> \in Entry /\ <<a, b>> # None
BY WatcherAssumption DEF Entry

LEMMA SessionShaders == session \in Sessions => session.shaders \subseteq Shader
BY WatcherAssumption

\* What a step of the compilation does, in terms of the file it is about.
LEMMA CompileEffect ==
  ASSUME FileTypes, CacheInv, NEW t \in Thread, ScanCompile(t)
  PROVE  \E h \in Shader, stamp \in Entry, shader \in Entry :
           /\ entry[t] = <<h, stamp>> /\ shader = Compiled(file[h])
           /\ metadata' = [metadata EXCEPT ![h] = stamp]
           /\ cache' = [cache EXCEPT ![h] = shader]
           /\ \/ cache[h] = shader /\ pending' = pending
              \/ pending' = [pending EXCEPT ![h] = shader]
<1>1. scan[t] = "compile"
  BY DEF ScanCompile
<1>2. PICK h \in Shader, stamp \in Entry : entry[t] = <<h, stamp>>
  BY <1>1 DEF CacheInv
<1>3. file[h] \in Nat /\ defines + 2 \in Nat
  BY DEF FileTypes
<1>4. Compiled(file[h]) \in Entry
  BY <1>3 DEF Compiled, Failed, Entry
<1>5. /\ metadata' = [metadata EXCEPT ![h] = stamp]
      /\ cache' = [cache EXCEPT ![h] = Compiled(file[h])]
      /\ \/ cache[h] = Compiled(file[h]) /\ pending' = pending
         \/ pending' = [pending EXCEPT ![h] = Compiled(file[h])]
  BY <1>2 DEF ScanCompile
<1> QED
  BY <1>2, <1>4, <1>5

LEMMA InitInv == Init => Inv
<1> SUFFICES ASSUME Init PROVE Inv
  OBVIOUS
<1>0. file \in [Shader -> {0, 1}]
  BY DEF Init
<1>1. FileTypes /\ FlagTypes /\ CacheTypes
  <2>1. file \in [Shader -> Nat]
    BY <1>0
  <2>2. FileTypes
    BY <2>1 DEF Init, FileTypes
  <2>3. FlagTypes
    BY DEF Init, FlagTypes
  <2>4. CacheTypes
    BY DEF Init, CacheTypes
  <2> QED
    BY <2>2, <2>3, <2>4
<1>2. ScanTypes /\ PresentTypes
  BY DEF Init, ScanTypes, PresentTypes
<1>3. StampInv /\ CacheInv /\ MetadataNeverFlatters
  BY <1>0, NoneIsNoEntry, <1>1 DEF Init, StampInv, CacheInv, MetadataNeverFlatters, FileTypes
<1>4. UpdatesAddUp
  BY DEF Init, UpdatesAddUp, Upcoming, Usable
<1>5. CalmInv /\ WorkerInv /\ NoticeInv
  BY DEF Init, CalmInv, WorkerInv, NoticeInv, Thread
<1> QED
  BY <1>1, <1>2, <1>3, <1>4, <1>5 DEF Inv, TypeOK

-----------------------------------------------------------------------------
LEMMA TypeStep == Inv /\ [Next]_vars => TypeOK'
<1> SUFFICES ASSUME Inv, [Next]_vars PROVE TypeOK'
  OBVIOUS
<1>0. FileTypes /\ FlagTypes /\ CacheTypes /\ ScanTypes /\ PresentTypes /\ CacheInv
  BY DEF Inv, TypeOK
<1>1. ASSUME NEW h \in session.shaders, NEW written \in {edits + 1, 0}, Edit(h, written) PROVE TypeOK'
  <2>0. written \in Nat
    BY <1>0 DEF FileTypes
  <2>1. FileTypes'
    <3>1. /\ file' = [file EXCEPT ![h] = written] /\ edits' = edits + 1
          /\ UNCHANGED <<session, defines>>
      BY <1>1 DEF Edit
    <3>2. edits' \in Nat
      BY <1>0, <3>1 DEF FileTypes
    <3>3. file' \in [Shader -> Nat]
      BY <1>0, <2>0, <3>1 DEF FileTypes
    <3> QED
      BY <1>0, <3>1, <3>2, <3>3 DEF FileTypes
  <2>2. FlagTypes'
    BY <1>0, <1>1 DEF Edit, FlagTypes
  <2> QED
    BY <1>0, <1>1, <2>1, <2>2 DEF TypeOK, Edit, CacheTypes, ScanTypes, PresentTypes
<1>2. ASSUME NEW t \in Thread, ScanLock(t) PROVE TypeOK'
  <2>1. FlagTypes'
    BY <1>0, <1>2 DEF ScanLock, FlagTypes
  <2>2. ScanTypes'
    BY <1>0, <1>2 DEF ScanLock, ScanTypes
  <2> QED
    BY <1>0, <1>2, <2>1, <2>2 DEF TypeOK, ScanLock, FileTypes, CacheTypes, PresentTypes
<1>3. ASSUME NEW t \in Thread, ScanList(t) PROVE TypeOK'
  <2>1. ScanTypes'
    BY <1>0, <1>3 DEF ScanList, ScanTypes
  <2> QED
    BY <1>0, <1>3, <2>1 DEF TypeOK, ScanList, FileTypes, FlagTypes, CacheTypes, PresentTypes
<1>4. ASSUME NEW t \in Thread, ScanFails(t) PROVE TypeOK'
  <2>1. FlagTypes'
    BY <1>0, <1>4 DEF ScanFails, FlagTypes
  <2>2. ScanTypes'
    BY <1>0, <1>4 DEF ScanFails, ScanTypes
  <2> QED
    BY <1>0, <1>4, <2>1, <2>2 DEF TypeOK, ScanFails, FileTypes, CacheTypes, PresentTypes
<1>5. ASSUME NEW t \in Thread, ScanStamp(t) PROVE TypeOK'
  <2>1. ScanTypes'
    BY <1>0, <1>5 DEF ScanStamp, ScanTypes, FileTypes, Entry
  <2> QED
    BY <1>0, <1>5, <2>1 DEF TypeOK, ScanStamp, FileTypes, FlagTypes, CacheTypes, PresentTypes
<1>6. ASSUME NEW t \in Thread, ScanCompile(t) PROVE TypeOK'
  <2>1. CacheTypes'
    BY <1>0, <1>6, CompileEffect DEF CacheTypes
  <2>2. FlagTypes'
    BY <1>0, <1>6 DEF ScanCompile, FlagTypes
  <2>3. ScanTypes'
    BY <1>0, <1>6 DEF ScanCompile, ScanTypes
  <2> QED
    BY <1>0, <1>6, <2>1, <2>2, <2>3 DEF TypeOK, ScanCompile, FileTypes, PresentTypes
<1>7. ASSUME NEW t \in Thread, ScanEnd(t) PROVE TypeOK'
  <2>1. CacheTypes'
    BY <1>0, <1>7 DEF ScanEnd, CacheTypes, Entry, Removed
  <2>2. FlagTypes'
    BY <1>0, <1>7 DEF ScanEnd, FlagTypes
  <2>3. ScanTypes'
    BY <1>0, <1>7 DEF ScanEnd, ScanTypes
  <2> QED
    BY <1>0, <1>7, <2>1, <2>2, <2>3 DEF TypeOK, ScanEnd, FileTypes, PresentTypes
<1>8. CASE WorkerEnd
  <2>1. FlagTypes'
    BY <1>0, <1>8 DEF WorkerEnd, FlagTypes
  <2> QED
    BY <1>0, <1>8, <2>1 DEF TypeOK, WorkerEnd, FileTypes, CacheTypes, ScanTypes, PresentTypes
<1>9. CASE WorkerGo
  <2>1. FlagTypes'
    BY <1>0, <1>9 DEF WorkerGo, FlagTypes
  <2> QED
    BY <1>0, <1>9, <2>1 DEF TypeOK, WorkerGo, FileTypes, CacheTypes, ScanTypes, PresentTypes
<1>10. CASE WorkerArm
  <2>1. FlagTypes'
    BY <1>0, <1>10 DEF WorkerArm, FlagTypes
  <2> QED
    BY <1>0, <1>10, <2>1 DEF TypeOK, WorkerArm, FileTypes, CacheTypes, ScanTypes, PresentTypes
<1>11. CASE WorkerTake
  <2>1. FlagTypes'
    BY <1>0, <1>11 DEF WorkerTake, FlagTypes
  <2>2. ScanTypes'
    BY <1>0, <1>11 DEF WorkerTake, ScanTypes
  <2> QED
    BY <1>0, <1>11, <2>1, <2>2 DEF TypeOK, WorkerTake, FileTypes, CacheTypes, PresentTypes
<1>12. CASE WorkerScanned
  <2>1. FlagTypes'
    BY <1>0, <1>12 DEF WorkerScanned, FlagTypes
  <2> QED
    BY <1>0, <1>12, <2>1 DEF TypeOK, WorkerScanned, FileTypes, CacheTypes, ScanTypes, PresentTypes
<1>13. CASE WorkerCallback
  <2>1. FlagTypes'
    BY <1>0, <1>13 DEF WorkerCallback, FlagTypes
  <2> QED
    BY <1>0, <1>13, <2>1 DEF TypeOK, WorkerCallback, FileTypes, CacheTypes, ScanTypes, PresentTypes
<1>14. CASE WorkerTimeout
  <2>1. FlagTypes'
    BY <1>0, <1>14 DEF WorkerTimeout, FlagTypes
  <2> QED
    BY <1>0, <1>14, <2>1 DEF TypeOK, WorkerTimeout, FileTypes, CacheTypes, ScanTypes, PresentTypes
<1>15. CASE Toggle
  <2>1. PresentTypes'
    BY <1>0, <1>15 DEF Toggle, PresentTypes
  <2> QED
    BY <1>0, <1>15, <2>1 DEF TypeOK, Toggle, FileTypes, FlagTypes, CacheTypes, ScanTypes
<1>16. CASE SetShaderDefines
  <2>1. FileTypes'
    BY <1>0, <1>16 DEF SetShaderDefines, FileTypes
  <2>2. FlagTypes'
    BY <1>0, <1>16 DEF SetShaderDefines, FlagTypes
  <2> QED
    BY <1>0, <1>16, <2>1, <2>2 DEF TypeOK, SetShaderDefines, CacheTypes, ScanTypes, PresentTypes
<1>17. CASE Load
  <2>1. PresentTypes'
    <3>1. /\ frame' = "load" /\ live' = FALSE /\ manual' = manual + 1
          /\ UNCHANGED <<toggles, taken, active>>
      BY <1>17 DEF Load
    <3>2. manual' \in Nat
      BY <1>0, <3>1 DEF PresentTypes
    <3> QED
      BY <1>0, <3>1, <3>2 DEF PresentTypes
  <2>2. ScanTypes'
    BY <1>0, <1>17 DEF Load, ScanTypes
  <2> QED
    BY <1>0, <1>17, <2>1, <2>2 DEF TypeOK, Load, FileTypes, FlagTypes, CacheTypes
<1>18. CASE Unload
  <2>1. PresentTypes'
    <3>1. /\ frame' = "unload" /\ live' = FALSE /\ manual' = manual + 1
          /\ active' = [h \in Shader |-> None] /\ UNCHANGED <<toggles, taken>>
      BY <1>18 DEF Unload
    <3>2. manual' \in Nat
      BY <1>0, <3>1 DEF PresentTypes
    <3> QED
      BY <1>0, <3>1, <3>2 DEF PresentTypes
  <2>2. ScanTypes'
    BY <1>0, <1>18 DEF Unload, ScanTypes
  <2> QED
    BY <1>0, <1>18, <2>1, <2>2 DEF TypeOK, Unload, FileTypes, FlagTypes, CacheTypes
<1>19. CASE LoadGet
  <2>1. PresentTypes'
    BY <1>0, <1>19 DEF LoadGet, PresentTypes, CacheTypes
  <2> QED
    BY <1>0, <1>19, <2>1 DEF TypeOK, LoadGet, FileTypes, FlagTypes, CacheTypes, ScanTypes
<1>20. CASE LoadFlush
  <2>1. CacheTypes'
    BY <1>0, <1>20 DEF LoadFlush, CacheTypes
  <2>2. FlagTypes'
    BY <1>0, <1>20 DEF LoadFlush, FlagTypes
  <2>3. PresentTypes'
    BY <1>0, <1>20 DEF LoadFlush, PresentTypes
  <2> QED
    BY <1>0, <1>20, <2>1, <2>2, <2>3 DEF TypeOK, LoadFlush, FileTypes, ScanTypes
<1>21. CASE UnloadReturn
  <2>1. PresentTypes'
    BY <1>0, <1>21 DEF UnloadReturn, PresentTypes
  <2> QED
    BY <1>0, <1>21, <2>1 DEF TypeOK, UnloadReturn, FileTypes, FlagTypes, CacheTypes, ScanTypes
<1>22. CASE PresentLive
  <2>1. FlagTypes'
    BY <1>0, <1>22 DEF PresentLive, FlagTypes
  <2>2. PresentTypes'
    BY <1>0, <1>22 DEF PresentLive, PresentTypes
  <2> QED
    BY <1>0, <1>22, <2>1, <2>2 DEF TypeOK, PresentLive, FileTypes, CacheTypes, ScanTypes
<1>23. CASE PresentCheck
  <2>1. PresentTypes'
    BY <1>0, <1>23 DEF PresentCheck, PresentTypes
  <2> QED
    BY <1>0, <1>23, <2>1 DEF TypeOK, PresentCheck, FileTypes, FlagTypes, CacheTypes, ScanTypes
<1>24. CASE PresentFlush
  <2>1. CacheTypes'
    BY <1>0, <1>24 DEF PresentFlush, CacheTypes
  <2>2. FlagTypes'
    BY <1>0, <1>24 DEF PresentFlush, FlagTypes
  <2>3. PresentTypes'
    BY <1>0, <1>24 DEF PresentFlush, PresentTypes, CacheTypes
  <2> QED
    BY <1>0, <1>24, <2>1, <2>2, <2>3 DEF TypeOK, PresentFlush, FileTypes, ScanTypes
<1>25. CASE PresentApply
  <2>1. PresentTypes'
    BY <1>0, <1>25 DEF PresentApply, PresentTypes, Usable
  <2> QED
    BY <1>0, <1>25, <2>1 DEF TypeOK, PresentApply, FileTypes, FlagTypes, CacheTypes, ScanTypes
<1>26. CASE PresentStop
  <2>1. FlagTypes'
    BY <1>0, <1>26 DEF PresentStop, FlagTypes
  <2>2. PresentTypes'
    BY <1>0, <1>26 DEF PresentStop, PresentTypes
  <2> QED
    BY <1>0, <1>26, <2>1, <2>2 DEF TypeOK, PresentStop, FileTypes, CacheTypes, ScanTypes
<1>27. CASE PresentJoin
  <2>1. FlagTypes'
    BY <1>0, <1>27 DEF PresentJoin, FlagTypes
  <2>2. PresentTypes'
    BY <1>0, <1>27 DEF PresentJoin, PresentTypes
  <2> QED
    BY <1>0, <1>27, <2>1, <2>2 DEF TypeOK, PresentJoin, FileTypes, CacheTypes, ScanTypes
<1>28. CASE UNCHANGED vars
  BY <1>0, <1>28 DEF vars, FileTypes, FlagTypes, CacheTypes, ScanTypes, PresentTypes, TypeOK
<1> QED
  BY <1>1, <1>2, <1>3, <1>4, <1>5, <1>6, <1>7, <1>8, <1>9, <1>10, <1>11, <1>12, <1>13, <1>14, <1>15, <1>16, <1>17, <1>18, <1>19, <1>20, <1>21, <1>22, <1>23, <1>24, <1>25, <1>26, <1>27, <1>28
  DEF Next, Editor, Worker, User, Present, Scan, Thread

-----------------------------------------------------------------------------
LEMMA StampStep == Inv /\ [Next]_vars => StampInv'
<1> SUFFICES ASSUME Inv, [Next]_vars PROVE StampInv'
  OBVIOUS
<1>0. FileTypes /\ CacheTypes /\ ScanTypes /\ CacheInv /\ StampInv
  BY DEF Inv, TypeOK
<1>1. ASSUME NEW h \in session.shaders, NEW written \in {edits + 1, 0}, Edit(h, written) PROVE StampInv'
  BY <1>0, <1>1 DEF Edit, StampInv, FileTypes, CacheTypes, ScanTypes, CacheInv, Entry
<1>2. ASSUME NEW t \in Thread, ScanLock(t) PROVE StampInv'
  BY <1>0, <1>2 DEF ScanLock, StampInv, ScanTypes
<1>3. ASSUME NEW t \in Thread, ScanList(t) PROVE StampInv'
  BY <1>0, <1>3 DEF ScanList, StampInv, ScanTypes
<1>4. ASSUME NEW t \in Thread, ScanFails(t) PROVE StampInv'
  BY <1>0, <1>4 DEF ScanFails, StampInv, ScanTypes
<1>5. ASSUME NEW t \in Thread, ScanStamp(t) PROVE StampInv'
  BY <1>0, <1>5 DEF ScanStamp, StampInv, FileTypes, ScanTypes
<1>6. ASSUME NEW t \in Thread, ScanCompile(t) PROVE StampInv'
  BY <1>0, <1>6 DEF ScanCompile, StampInv, FileTypes, CacheTypes, ScanTypes, CacheInv, Entry
<1>7. ASSUME NEW t \in Thread, ScanEnd(t) PROVE StampInv'
  BY <1>0, <1>7 DEF ScanEnd, StampInv, ScanTypes, CacheTypes
<1>8. CASE WorkerEnd
  BY <1>0, <1>8 DEF WorkerEnd, StampInv
<1>9. CASE WorkerGo
  BY <1>0, <1>9 DEF WorkerGo, StampInv
<1>10. CASE WorkerArm
  BY <1>0, <1>10 DEF WorkerArm, StampInv
<1>11. CASE WorkerTake
  BY <1>0, <1>11 DEF WorkerTake, StampInv, ScanTypes
<1>12. CASE WorkerScanned
  BY <1>0, <1>12 DEF WorkerScanned, StampInv
<1>13. CASE WorkerCallback
  BY <1>0, <1>13 DEF WorkerCallback, StampInv
<1>14. CASE WorkerTimeout
  BY <1>0, <1>14 DEF WorkerTimeout, StampInv
<1>15. CASE Toggle
  BY <1>0, <1>15 DEF Toggle, StampInv
<1>16. CASE SetShaderDefines
  BY <1>0, <1>16 DEF SetShaderDefines, StampInv, FileTypes, CacheTypes, ScanTypes, CacheInv, Entry
<1>17. CASE Load
  BY <1>0, <1>17 DEF Load, StampInv, ScanTypes
<1>18. CASE Unload
  BY <1>0, <1>18 DEF Unload, StampInv, ScanTypes
<1>19. CASE LoadGet
  BY <1>0, <1>19 DEF LoadGet, StampInv
<1>20. CASE LoadFlush
  BY <1>0, <1>20 DEF LoadFlush, StampInv
<1>21. CASE UnloadReturn
  BY <1>0, <1>21 DEF UnloadReturn, StampInv
<1>22. CASE PresentLive
  BY <1>0, <1>22 DEF PresentLive, StampInv
<1>23. CASE PresentCheck
  BY <1>0, <1>23 DEF PresentCheck, StampInv
<1>24. CASE PresentFlush
  BY <1>0, <1>24 DEF PresentFlush, StampInv
<1>25. CASE PresentApply
  BY <1>0, <1>25 DEF PresentApply, StampInv
<1>26. CASE PresentStop
  BY <1>0, <1>26 DEF PresentStop, StampInv
<1>27. CASE PresentJoin
  BY <1>0, <1>27 DEF PresentJoin, StampInv
<1>28. CASE UNCHANGED vars
  BY <1>0, <1>28 DEF vars, StampInv
<1> QED
  BY <1>1, <1>2, <1>3, <1>4, <1>5, <1>6, <1>7, <1>8, <1>9, <1>10, <1>11, <1>12, <1>13, <1>14, <1>15, <1>16, <1>17, <1>18, <1>19, <1>20, <1>21, <1>22, <1>23, <1>24, <1>25, <1>26, <1>27, <1>28
  DEF Next, Editor, Worker, User, Present, Scan, Thread

-----------------------------------------------------------------------------
LEMMA MetadataStep == Inv /\ [Next]_vars => MetadataNeverFlatters'
<1> SUFFICES ASSUME Inv, [Next]_vars PROVE MetadataNeverFlatters'
  OBVIOUS
<1>0. FileTypes /\ CacheTypes /\ ScanTypes /\ CacheInv /\ StampInv /\ MetadataNeverFlatters
  BY DEF Inv, TypeOK
<1>1. ASSUME NEW h \in session.shaders, NEW written \in {edits + 1, 0}, Edit(h, written) PROVE MetadataNeverFlatters'
  <2>0. h \in Shader
    BY <1>0, SessionShaders DEF FileTypes
  <2>1. UNCHANGED <<metadata, cache, defines>> /\ file' = [file EXCEPT ![h] = written]
    BY <1>1 DEF Edit
  <2>2. ASSUME NEW g \in Shader, file'[g] # 0, metadata'[g] = <<file'[g], defines'>>
        PROVE  (cache[g] = Compiled(file[g]))'
    <3>1. file[g] \in Nat /\ edits \in Nat /\ defines \in Nat
      BY <1>0 DEF FileTypes
    <3>2. metadata[g] # None
      <4>1. file'[g] \in Nat
        BY <1>0, <2>1, <3>1 DEF FileTypes
      <4> QED
        BY <2>1, <2>2, <3>1, <4>1, NoneIsNoEntry
    <3>3. metadata[g][1] <= edits
      BY <1>0, <3>2 DEF StampInv
    <3>4. file'[g] <= edits
      BY <2>1, <2>2, <3>3
    <3>5. file'[g] = file[g]
      BY <1>0, <2>0, <2>1, <2>2, <3>1, <3>4 DEF FileTypes
    <3> QED
      BY <1>0, <2>1, <2>2, <3>5 DEF MetadataNeverFlatters, Compiled
  <2> QED
    BY <2>2 DEF MetadataNeverFlatters
<1>2. ASSUME NEW t \in Thread, ScanLock(t) PROVE MetadataNeverFlatters'
  BY <1>0, <1>2 DEF ScanLock, MetadataNeverFlatters, Compiled
<1>3. ASSUME NEW t \in Thread, ScanList(t) PROVE MetadataNeverFlatters'
  BY <1>0, <1>3 DEF ScanList, MetadataNeverFlatters, Compiled
<1>4. ASSUME NEW t \in Thread, ScanFails(t) PROVE MetadataNeverFlatters'
  BY <1>0, <1>4 DEF ScanFails, MetadataNeverFlatters, Compiled
<1>5. ASSUME NEW t \in Thread, ScanStamp(t) PROVE MetadataNeverFlatters'
  BY <1>0, <1>5 DEF ScanStamp, MetadataNeverFlatters, Compiled
<1>6. ASSUME NEW t \in Thread, ScanCompile(t) PROVE MetadataNeverFlatters'
  BY <1>0, <1>6, NoneIsNoEntry DEF ScanCompile, MetadataNeverFlatters, Compiled, FileTypes, CacheTypes, ScanTypes, CacheInv
<1>7. ASSUME NEW t \in Thread, ScanEnd(t) PROVE MetadataNeverFlatters'
  BY <1>0, <1>7, NoneIsNoEntry DEF ScanEnd, MetadataNeverFlatters, Compiled, FileTypes
<1>8. CASE WorkerEnd
  BY <1>0, <1>8 DEF WorkerEnd, MetadataNeverFlatters, Compiled
<1>9. CASE WorkerGo
  BY <1>0, <1>9 DEF WorkerGo, MetadataNeverFlatters, Compiled
<1>10. CASE WorkerArm
  BY <1>0, <1>10 DEF WorkerArm, MetadataNeverFlatters, Compiled
<1>11. CASE WorkerTake
  BY <1>0, <1>11 DEF WorkerTake, MetadataNeverFlatters, Compiled
<1>12. CASE WorkerScanned
  BY <1>0, <1>12 DEF WorkerScanned, MetadataNeverFlatters, Compiled
<1>13. CASE WorkerCallback
  BY <1>0, <1>13 DEF WorkerCallback, MetadataNeverFlatters, Compiled
<1>14. CASE WorkerTimeout
  BY <1>0, <1>14 DEF WorkerTimeout, MetadataNeverFlatters, Compiled
<1>15. CASE Toggle
  BY <1>0, <1>15 DEF Toggle, MetadataNeverFlatters, Compiled
<1>16. CASE SetShaderDefines
  BY <1>0, <1>16, NoneIsNoEntry, SMTT(60) DEF SetShaderDefines, MetadataNeverFlatters, Compiled, FileTypes, CacheTypes, Entry, StampInv
<1>17. CASE Load
  BY <1>0, <1>17 DEF Load, MetadataNeverFlatters, Compiled
<1>18. CASE Unload
  BY <1>0, <1>18 DEF Unload, MetadataNeverFlatters, Compiled
<1>19. CASE LoadGet
  BY <1>0, <1>19 DEF LoadGet, MetadataNeverFlatters, Compiled
<1>20. CASE LoadFlush
  BY <1>0, <1>20 DEF LoadFlush, MetadataNeverFlatters, Compiled
<1>21. CASE UnloadReturn
  BY <1>0, <1>21 DEF UnloadReturn, MetadataNeverFlatters, Compiled
<1>22. CASE PresentLive
  BY <1>0, <1>22 DEF PresentLive, MetadataNeverFlatters, Compiled
<1>23. CASE PresentCheck
  BY <1>0, <1>23 DEF PresentCheck, MetadataNeverFlatters, Compiled
<1>24. CASE PresentFlush
  BY <1>0, <1>24 DEF PresentFlush, MetadataNeverFlatters, Compiled
<1>25. CASE PresentApply
  BY <1>0, <1>25 DEF PresentApply, MetadataNeverFlatters, Compiled
<1>26. CASE PresentStop
  BY <1>0, <1>26 DEF PresentStop, MetadataNeverFlatters, Compiled
<1>27. CASE PresentJoin
  BY <1>0, <1>27 DEF PresentJoin, MetadataNeverFlatters, Compiled
<1>28. CASE UNCHANGED vars
  BY <1>0, <1>28 DEF vars, MetadataNeverFlatters, Compiled
<1> QED
  BY <1>1, <1>2, <1>3, <1>4, <1>5, <1>6, <1>7, <1>8, <1>9, <1>10, <1>11, <1>12, <1>13, <1>14, <1>15, <1>16, <1>17, <1>18, <1>19, <1>20, <1>21, <1>22, <1>23, <1>24, <1>25, <1>26, <1>27, <1>28
  DEF Next, Editor, Worker, User, Present, Scan, Thread

-----------------------------------------------------------------------------
LEMMA CacheStep == Inv /\ [Next]_vars => CacheInv'
<1> SUFFICES ASSUME Inv, [Next]_vars PROVE CacheInv'
  OBVIOUS
<1>0. FileTypes /\ CacheTypes /\ ScanTypes /\ CacheInv
  BY DEF Inv, TypeOK
<1>1. ASSUME NEW h \in session.shaders, NEW written \in {edits + 1, 0}, Edit(h, written) PROVE CacheInv'
  BY <1>0, <1>1 DEF Edit, CacheInv
<1>2. ASSUME NEW t \in Thread, ScanLock(t) PROVE CacheInv'
  BY <1>0, <1>2 DEF ScanLock, CacheInv, ScanTypes
<1>3. ASSUME NEW t \in Thread, ScanList(t) PROVE CacheInv'
  BY <1>0, <1>3 DEF ScanList, CacheInv, ScanTypes
<1>4. ASSUME NEW t \in Thread, ScanFails(t) PROVE CacheInv'
  BY <1>0, <1>4 DEF ScanFails, CacheInv, ScanTypes
<1>5. ASSUME NEW t \in Thread, ScanStamp(t) PROVE CacheInv'
  BY <1>0, <1>5 DEF ScanStamp, CacheInv, FileTypes, ScanTypes, Entry
<1>6. ASSUME NEW t \in Thread, ScanCompile(t) PROVE CacheInv'
  <2>1. \A h \in Shader : cache'[h] # None <=> metadata'[h] # None
    BY <1>0, <1>6, CompileEffect, NoneIsNoEntry DEF CacheTypes, CacheInv
  <2>2. \A u \in Thread : scan'[u] = "compile" => entry'[u] \in Shader \X Entry
    BY <1>0, <1>6 DEF ScanCompile, ScanTypes, CacheInv
  <2> QED
    BY <2>1, <2>2 DEF CacheInv, Entry
<1>7. ASSUME NEW t \in Thread, ScanEnd(t) PROVE CacheInv'
  BY <1>0, <1>7 DEF ScanEnd, CacheInv, ScanTypes, CacheTypes
<1>8. CASE WorkerEnd
  BY <1>0, <1>8 DEF WorkerEnd, CacheInv
<1>9. CASE WorkerGo
  BY <1>0, <1>9 DEF WorkerGo, CacheInv
<1>10. CASE WorkerArm
  BY <1>0, <1>10 DEF WorkerArm, CacheInv
<1>11. CASE WorkerTake
  BY <1>0, <1>11 DEF WorkerTake, CacheInv, ScanTypes
<1>12. CASE WorkerScanned
  BY <1>0, <1>12 DEF WorkerScanned, CacheInv
<1>13. CASE WorkerCallback
  BY <1>0, <1>13 DEF WorkerCallback, CacheInv
<1>14. CASE WorkerTimeout
  BY <1>0, <1>14 DEF WorkerTimeout, CacheInv
<1>15. CASE Toggle
  BY <1>0, <1>15 DEF Toggle, CacheInv
<1>16. CASE SetShaderDefines
  BY <1>0, <1>16 DEF SetShaderDefines, CacheInv
<1>17. CASE Load
  BY <1>0, <1>17 DEF Load, CacheInv, ScanTypes
<1>18. CASE Unload
  BY <1>0, <1>18 DEF Unload, CacheInv, ScanTypes
<1>19. CASE LoadGet
  BY <1>0, <1>19 DEF LoadGet, CacheInv
<1>20. CASE LoadFlush
  BY <1>0, <1>20 DEF LoadFlush, CacheInv
<1>21. CASE UnloadReturn
  BY <1>0, <1>21 DEF UnloadReturn, CacheInv
<1>22. CASE PresentLive
  BY <1>0, <1>22 DEF PresentLive, CacheInv
<1>23. CASE PresentCheck
  BY <1>0, <1>23 DEF PresentCheck, CacheInv
<1>24. CASE PresentFlush
  BY <1>0, <1>24 DEF PresentFlush, CacheInv
<1>25. CASE PresentApply
  BY <1>0, <1>25 DEF PresentApply, CacheInv
<1>26. CASE PresentStop
  BY <1>0, <1>26 DEF PresentStop, CacheInv
<1>27. CASE PresentJoin
  BY <1>0, <1>27 DEF PresentJoin, CacheInv
<1>28. CASE UNCHANGED vars
  BY <1>0, <1>28 DEF vars, CacheInv
<1> QED
  BY <1>1, <1>2, <1>3, <1>4, <1>5, <1>6, <1>7, <1>8, <1>9, <1>10, <1>11, <1>12, <1>13, <1>14, <1>15, <1>16, <1>17, <1>18, <1>19, <1>20, <1>21, <1>22, <1>23, <1>24, <1>25, <1>26, <1>27, <1>28
  DEF Next, Editor, Worker, User, Present, Scan, Thread

-----------------------------------------------------------------------------
LEMMA CalmStep == Inv /\ [Next]_vars => CalmInv'
<1> SUFFICES ASSUME Inv, [Next]_vars PROVE CalmInv'
  OBVIOUS
<1>0. FileTypes /\ ScanTypes /\ PresentTypes /\ CalmInv
  BY DEF Inv, TypeOK
<1>1. ASSUME NEW h \in session.shaders, NEW written \in {edits + 1, 0}, Edit(h, written) PROVE CalmInv'
  BY <1>0, <1>1 DEF Edit, CalmInv, Undisturbed
<1>2. ASSUME NEW t \in Thread, ScanLock(t) PROVE CalmInv'
  BY <1>0, <1>2 DEF ScanLock, CalmInv, Undisturbed, ScanTypes, Thread
<1>3. ASSUME NEW t \in Thread, ScanList(t) PROVE CalmInv'
  BY <1>0, <1>3 DEF ScanList, CalmInv, Undisturbed, ScanTypes, Thread
<1>4. ASSUME NEW t \in Thread, ScanFails(t) PROVE CalmInv'
  BY <1>0, <1>4 DEF ScanFails, CalmInv, Undisturbed, ScanTypes, Thread
<1>5. ASSUME NEW t \in Thread, ScanStamp(t) PROVE CalmInv'
  BY <1>0, <1>5 DEF ScanStamp, CalmInv, Undisturbed, ScanTypes, Thread
<1>6. ASSUME NEW t \in Thread, ScanCompile(t) PROVE CalmInv'
  BY <1>0, <1>6 DEF ScanCompile, CalmInv, Undisturbed, ScanTypes, Thread
<1>7. ASSUME NEW t \in Thread, ScanEnd(t) PROVE CalmInv'
  BY <1>0, <1>7 DEF ScanEnd, CalmInv, Undisturbed, ScanTypes, Thread
<1>8. CASE WorkerEnd
  BY <1>0, <1>8 DEF WorkerEnd, CalmInv, Undisturbed
<1>9. CASE WorkerGo
  BY <1>0, <1>9 DEF WorkerGo, CalmInv, Undisturbed
<1>10. CASE WorkerArm
  BY <1>0, <1>10 DEF WorkerArm, CalmInv, Undisturbed
<1>11. CASE WorkerTake
  BY <1>0, <1>11 DEF WorkerTake, CalmInv, Undisturbed, ScanTypes, Thread
<1>12. CASE WorkerScanned
  BY <1>0, <1>12 DEF WorkerScanned, CalmInv, Undisturbed
<1>13. CASE WorkerCallback
  BY <1>0, <1>13 DEF WorkerCallback, CalmInv, Undisturbed
<1>14. CASE WorkerTimeout
  BY <1>0, <1>14 DEF WorkerTimeout, CalmInv, Undisturbed
<1>15. CASE Toggle
  BY <1>0, <1>15 DEF Toggle, CalmInv, Undisturbed
<1>16. CASE SetShaderDefines
  BY <1>0, <1>16 DEF SetShaderDefines, CalmInv, Undisturbed
<1>17. CASE Load
  BY <1>0, <1>17 DEF Load, CalmInv, Undisturbed, PresentTypes
<1>18. CASE Unload
  BY <1>0, <1>18 DEF Unload, CalmInv, Undisturbed, PresentTypes
<1>19. CASE LoadGet
  BY <1>0, <1>19 DEF LoadGet, CalmInv, Undisturbed
<1>20. CASE LoadFlush
  BY <1>0, <1>20 DEF LoadFlush, CalmInv, Undisturbed
<1>21. CASE UnloadReturn
  BY <1>0, <1>21 DEF UnloadReturn, CalmInv, Undisturbed
<1>22. CASE PresentLive
  BY <1>0, <1>22 DEF PresentLive, CalmInv, Undisturbed
<1>23. CASE PresentCheck
  BY <1>0, <1>23 DEF PresentCheck, CalmInv, Undisturbed
<1>24. CASE PresentFlush
  BY <1>0, <1>24 DEF PresentFlush, CalmInv, Undisturbed
<1>25. CASE PresentApply
  BY <1>0, <1>25 DEF PresentApply, CalmInv, Undisturbed
<1>26. CASE PresentStop
  BY <1>0, <1>26 DEF PresentStop, CalmInv, Undisturbed
<1>27. CASE PresentJoin
  BY <1>0, <1>27 DEF PresentJoin, CalmInv, Undisturbed
<1>28. CASE UNCHANGED vars
  BY <1>0, <1>28 DEF vars, CalmInv, Undisturbed
<1> QED
  BY <1>1, <1>2, <1>3, <1>4, <1>5, <1>6, <1>7, <1>8, <1>9, <1>10, <1>11, <1>12, <1>13, <1>14, <1>15, <1>16, <1>17, <1>18, <1>19, <1>20, <1>21, <1>22, <1>23, <1>24, <1>25, <1>26, <1>27, <1>28
  DEF Next, Editor, Worker, User, Present, Scan, Thread

-----------------------------------------------------------------------------
LEMMA UpdatesStep == Inv /\ [Next]_vars => UpdatesAddUp'
<1> SUFFICES ASSUME Inv, [Next]_vars PROVE UpdatesAddUp'
  OBVIOUS
<1>0. FileTypes /\ CacheTypes /\ ScanTypes /\ PresentTypes /\ CacheInv /\ CalmInv /\ UpdatesAddUp
  BY DEF Inv, TypeOK
<1>1. ASSUME NEW h \in session.shaders, NEW written \in {edits + 1, 0}, Edit(h, written) PROVE UpdatesAddUp'
  BY <1>0, <1>1 DEF Edit, UpdatesAddUp, Upcoming, Undisturbed
<1>2. ASSUME NEW t \in Thread, ScanLock(t) PROVE UpdatesAddUp'
  BY <1>0, <1>2 DEF ScanLock, UpdatesAddUp, Upcoming, Undisturbed
<1>3. ASSUME NEW t \in Thread, ScanList(t) PROVE UpdatesAddUp'
  BY <1>0, <1>3 DEF ScanList, UpdatesAddUp, Upcoming, Undisturbed
<1>4. ASSUME NEW t \in Thread, ScanFails(t) PROVE UpdatesAddUp'
  BY <1>0, <1>4 DEF ScanFails, UpdatesAddUp, Upcoming, Undisturbed
<1>5. ASSUME NEW t \in Thread, ScanStamp(t) PROVE UpdatesAddUp'
  BY <1>0, <1>5 DEF ScanStamp, UpdatesAddUp, Upcoming, Undisturbed
<1>6. ASSUME NEW t \in Thread, ScanCompile(t) PROVE UpdatesAddUp'
  <2>1. PICK h \in Shader, stamp \in Entry, shader \in Entry :
          /\ cache' = [cache EXCEPT ![h] = shader]
          /\ \/ cache[h] = shader /\ pending' = pending
             \/ pending' = [pending EXCEPT ![h] = shader]
    BY <1>0, <1>6, CompileEffect
  <2>2. UNCHANGED <<session, frame, taken, active>>
    BY <1>6 DEF ScanCompile
  <2> QED
    BY <1>0, <2>1, <2>2, NoneIsNoEntry DEF CacheTypes, UpdatesAddUp, Upcoming, Undisturbed
<1>7. ASSUME NEW t \in Thread, ScanEnd(t) PROVE UpdatesAddUp'
  <2>1. \A h \in Shader :
          \/ cache'[h] = cache[h] /\ pending'[h] = pending[h]
          \/ cache'[h] = None /\ pending'[h] = Removed
    BY <1>0, <1>7 DEF ScanEnd, CacheTypes
  <2>2. UNCHANGED <<session, frame, taken, active>>
    BY <1>7 DEF ScanEnd
  <2>3. Removed # None /\ Usable(None) = None /\ Usable(Removed) = None
    BY NoneIsNoEntry DEF Removed, Usable
  <2> QED
    BY <1>0, <2>1, <2>2, <2>3 DEF UpdatesAddUp, Upcoming, Undisturbed
<1>8. CASE WorkerEnd
  BY <1>0, <1>8 DEF WorkerEnd, UpdatesAddUp, Upcoming, Undisturbed
<1>9. CASE WorkerGo
  BY <1>0, <1>9 DEF WorkerGo, UpdatesAddUp, Upcoming, Undisturbed
<1>10. CASE WorkerArm
  BY <1>0, <1>10 DEF WorkerArm, UpdatesAddUp, Upcoming, Undisturbed
<1>11. CASE WorkerTake
  BY <1>0, <1>11 DEF WorkerTake, UpdatesAddUp, Upcoming, Undisturbed
<1>12. CASE WorkerScanned
  BY <1>0, <1>12 DEF WorkerScanned, UpdatesAddUp, Upcoming, Undisturbed
<1>13. CASE WorkerCallback
  BY <1>0, <1>13 DEF WorkerCallback, UpdatesAddUp, Upcoming, Undisturbed
<1>14. CASE WorkerTimeout
  BY <1>0, <1>14 DEF WorkerTimeout, UpdatesAddUp, Upcoming, Undisturbed
<1>15. CASE Toggle
  BY <1>0, <1>15 DEF Toggle, UpdatesAddUp, Upcoming, Undisturbed
<1>16. CASE SetShaderDefines
  BY <1>0, <1>16 DEF SetShaderDefines, UpdatesAddUp, Upcoming, Undisturbed
<1>17. CASE Load
  BY <1>0, <1>17 DEF Load, UpdatesAddUp, Upcoming, Undisturbed, PresentTypes
<1>18. CASE Unload
  BY <1>0, <1>18 DEF Unload, UpdatesAddUp, Upcoming, Undisturbed, PresentTypes
<1>19. CASE LoadGet
  BY <1>0, <1>19 DEF LoadGet, UpdatesAddUp, Upcoming, Undisturbed, CalmInv
<1>20. CASE LoadFlush
  BY <1>0, <1>20 DEF LoadFlush, UpdatesAddUp, Upcoming, Undisturbed, CalmInv
<1>21. CASE UnloadReturn
  BY <1>0, <1>21 DEF UnloadReturn, UpdatesAddUp, Upcoming, Undisturbed, CalmInv
<1>22. CASE PresentLive
  BY <1>0, <1>22 DEF PresentLive, UpdatesAddUp, Upcoming, Undisturbed
<1>23. CASE PresentCheck
  BY <1>0, <1>23 DEF PresentCheck, UpdatesAddUp, Upcoming, Undisturbed
<1>24. CASE PresentFlush
  BY <1>0, <1>24 DEF PresentFlush, UpdatesAddUp, Upcoming, Undisturbed, CacheTypes
<1>25. CASE PresentApply
  BY <1>0, <1>25 DEF PresentApply, UpdatesAddUp, Upcoming, Undisturbed, PresentTypes
<1>26. CASE PresentStop
  BY <1>0, <1>26 DEF PresentStop, UpdatesAddUp, Upcoming, Undisturbed
<1>27. CASE PresentJoin
  BY <1>0, <1>27 DEF PresentJoin, UpdatesAddUp, Upcoming, Undisturbed
<1>28. CASE UNCHANGED vars
  BY <1>0, <1>28 DEF vars, UpdatesAddUp, Upcoming, Undisturbed
<1> QED
  BY <1>1, <1>2, <1>3, <1>4, <1>5, <1>6, <1>7, <1>8, <1>9, <1>10, <1>11, <1>12, <1>13, <1>14, <1>15, <1>16, <1>17, <1>18, <1>19, <1>20, <1>21, <1>22, <1>23, <1>24, <1>25, <1>26, <1>27, <1>28
  DEF Next, Editor, Worker, User, Present, Scan, Thread

-----------------------------------------------------------------------------
LEMMA WorkerStep == Inv /\ [Next]_vars => WorkerInv'
<1> SUFFICES ASSUME Inv, [Next]_vars PROVE WorkerInv'
  OBVIOUS
<1>0. FlagTypes /\ ScanTypes /\ WorkerInv
  BY DEF Inv, TypeOK
<1>1. ASSUME NEW h \in session.shaders, NEW written \in {edits + 1, 0}, Edit(h, written) PROVE WorkerInv'
  BY <1>0, <1>1 DEF Edit, WorkerInv, FlagTypes
<1>2. ASSUME NEW t \in Thread, ScanLock(t) PROVE WorkerInv'
  BY <1>0, <1>2 DEF ScanLock, WorkerInv, ScanTypes, Thread, FlagTypes
<1>3. ASSUME NEW t \in Thread, ScanList(t) PROVE WorkerInv'
  BY <1>0, <1>3 DEF ScanList, WorkerInv, ScanTypes, Thread, FlagTypes
<1>4. ASSUME NEW t \in Thread, ScanFails(t) PROVE WorkerInv'
  BY <1>0, <1>4 DEF ScanFails, WorkerInv, ScanTypes, Thread, FlagTypes
<1>5. ASSUME NEW t \in Thread, ScanStamp(t) PROVE WorkerInv'
  BY <1>0, <1>5 DEF ScanStamp, WorkerInv, ScanTypes, Thread, FlagTypes
<1>6. ASSUME NEW t \in Thread, ScanCompile(t) PROVE WorkerInv'
  BY <1>0, <1>6 DEF ScanCompile, WorkerInv, ScanTypes, Thread, FlagTypes
<1>7. ASSUME NEW t \in Thread, ScanEnd(t) PROVE WorkerInv'
  BY <1>0, <1>7 DEF ScanEnd, WorkerInv, ScanTypes, Thread, FlagTypes
<1>8. CASE WorkerEnd
  BY <1>0, <1>8 DEF WorkerEnd, WorkerInv
<1>9. CASE WorkerGo
  BY <1>0, <1>9 DEF WorkerGo, WorkerInv
<1>10. CASE WorkerArm
  BY <1>0, <1>10 DEF WorkerArm, WorkerInv
<1>11. CASE WorkerTake
  BY <1>0, <1>11 DEF WorkerTake, WorkerInv, ScanTypes, Thread, FlagTypes
<1>12. CASE WorkerScanned
  BY <1>0, <1>12 DEF WorkerScanned, WorkerInv
<1>13. CASE WorkerCallback
  BY <1>0, <1>13 DEF WorkerCallback, WorkerInv
<1>14. CASE WorkerTimeout
  BY <1>0, <1>14 DEF WorkerTimeout, WorkerInv
<1>15. CASE Toggle
  BY <1>0, <1>15 DEF Toggle, WorkerInv
<1>16. CASE SetShaderDefines
  BY <1>0, <1>16 DEF SetShaderDefines, WorkerInv
<1>17. CASE Load
  BY <1>0, <1>17 DEF Load, WorkerInv, ScanTypes, Thread, FlagTypes
<1>18. CASE Unload
  BY <1>0, <1>18 DEF Unload, WorkerInv, ScanTypes, Thread, FlagTypes
<1>19. CASE LoadGet
  BY <1>0, <1>19 DEF LoadGet, WorkerInv
<1>20. CASE LoadFlush
  BY <1>0, <1>20 DEF LoadFlush, WorkerInv
<1>21. CASE UnloadReturn
  BY <1>0, <1>21 DEF UnloadReturn, WorkerInv
<1>22. CASE PresentLive
  BY <1>0, <1>22 DEF PresentLive, WorkerInv
<1>23. CASE PresentCheck
  BY <1>0, <1>23 DEF PresentCheck, WorkerInv
<1>24. CASE PresentFlush
  BY <1>0, <1>24 DEF PresentFlush, WorkerInv
<1>25. CASE PresentApply
  BY <1>0, <1>25 DEF PresentApply, WorkerInv
<1>26. CASE PresentStop
  BY <1>0, <1>26 DEF PresentStop, WorkerInv
<1>27. CASE PresentJoin
  BY <1>0, <1>27 DEF PresentJoin, WorkerInv
<1>28. CASE UNCHANGED vars
  BY <1>0, <1>28 DEF vars, WorkerInv
<1> QED
  BY <1>1, <1>2, <1>3, <1>4, <1>5, <1>6, <1>7, <1>8, <1>9, <1>10, <1>11, <1>12, <1>13, <1>14, <1>15, <1>16, <1>17, <1>18, <1>19, <1>20, <1>21, <1>22, <1>23, <1>24, <1>25, <1>26, <1>27, <1>28
  DEF Next, Editor, Worker, User, Present, Scan, Thread

-----------------------------------------------------------------------------
LEMMA NoticeStep == Inv /\ [Next]_vars => NoticeInv'
<1> SUFFICES ASSUME Inv, [Next]_vars PROVE NoticeInv'
  OBVIOUS
<1>0. FileTypes /\ FlagTypes /\ CacheTypes /\ ScanTypes /\ PresentTypes /\ CacheInv /\ CalmInv /\ WorkerInv /\ NoticeInv
  BY DEF Inv, TypeOK
<1>1. ASSUME NEW h \in session.shaders, NEW written \in {edits + 1, 0}, Edit(h, written) PROVE NoticeInv'
  BY <1>0, <1>1 DEF Edit, NoticeInv, Undisturbed, Silent, Settled, Scanned, FileTypes, FlagTypes, CacheTypes, ScanTypes, PresentTypes, WorkerInv
<1>2. ASSUME NEW t \in Thread, ScanLock(t) PROVE NoticeInv'
  BY <1>0, <1>2 DEF ScanLock, NoticeInv, Undisturbed, Silent, Settled, Scanned, FileTypes, FlagTypes, CacheTypes, ScanTypes, PresentTypes, Thread, CalmInv, WorkerInv
<1>3. ASSUME NEW t \in Thread, ScanList(t) PROVE NoticeInv'
  BY <1>0, <1>3 DEF ScanList, NoticeInv, Undisturbed, Silent, Settled, Scanned, FileTypes, FlagTypes, CacheTypes, ScanTypes, PresentTypes, Thread, CalmInv, WorkerInv
<1>4. ASSUME NEW t \in Thread, ScanFails(t) PROVE NoticeInv'
  BY <1>0, <1>4 DEF ScanFails, NoticeInv, Undisturbed, Silent, Settled, Scanned, FileTypes, FlagTypes, CacheTypes, ScanTypes, PresentTypes, Thread, CalmInv, WorkerInv
<1>5. ASSUME NEW t \in Thread, ScanStamp(t) PROVE NoticeInv'
  BY <1>0, <1>5 DEF ScanStamp, NoticeInv, Undisturbed, Silent, Settled, Scanned, FileTypes, FlagTypes, CacheTypes, ScanTypes, PresentTypes, Thread, CalmInv, WorkerInv
<1>6. ASSUME NEW t \in Thread, ScanCompile(t) PROVE NoticeInv'
  BY <1>0, <1>6, NoneIsNoEntry DEF ScanCompile, NoticeInv, Undisturbed, Silent, Settled, Scanned, FileTypes, FlagTypes, CacheTypes, ScanTypes, PresentTypes, Thread, CalmInv, WorkerInv, CacheInv
<1>7. ASSUME NEW t \in Thread, ScanEnd(t) PROVE NoticeInv'
  BY <1>0, <1>7, NoneIsNoEntry DEF ScanEnd, NoticeInv, Undisturbed, Silent, Settled, Scanned, FileTypes, FlagTypes, CacheTypes, ScanTypes, PresentTypes, Thread, CalmInv, WorkerInv, CacheInv
<1>8. CASE WorkerEnd
  BY <1>0, <1>8 DEF WorkerEnd, NoticeInv, Undisturbed, Silent, Settled, Scanned
<1>9. CASE WorkerGo
  BY <1>0, <1>9 DEF WorkerGo, NoticeInv, Undisturbed, Silent, Settled, Scanned
<1>10. CASE WorkerArm
  BY <1>0, <1>10 DEF WorkerArm, NoticeInv, Undisturbed, Silent, Settled, Scanned
<1>11. CASE WorkerTake
  BY <1>0, <1>11 DEF WorkerTake, NoticeInv, Undisturbed, Silent, Settled, Scanned, ScanTypes, Thread, WorkerInv
<1>12. CASE WorkerScanned
  BY <1>0, <1>12 DEF WorkerScanned, NoticeInv, Undisturbed, Silent, Settled, Scanned, WorkerInv
<1>13. CASE WorkerCallback
  BY <1>0, <1>13 DEF WorkerCallback, NoticeInv, Undisturbed, Silent, Settled, Scanned
<1>14. CASE WorkerTimeout
  BY <1>0, <1>14 DEF WorkerTimeout, NoticeInv, Undisturbed, Silent, Settled, Scanned
<1>15. CASE Toggle
  BY <1>0, <1>15 DEF Toggle, NoticeInv, Undisturbed, Silent, Settled, Scanned
<1>16. CASE SetShaderDefines
  BY <1>0, <1>16 DEF SetShaderDefines, NoticeInv, Undisturbed, Silent, Settled, Scanned
<1>17. CASE Load
  BY <1>0, <1>17 DEF Load, NoticeInv, Undisturbed, Silent, Settled, Scanned, PresentTypes
<1>18. CASE Unload
  BY <1>0, <1>18 DEF Unload, NoticeInv, Undisturbed, Silent, Settled, Scanned, PresentTypes
<1>19. CASE LoadGet
  BY <1>0, <1>19 DEF LoadGet, NoticeInv, Undisturbed, Silent, Settled, Scanned
<1>20. CASE LoadFlush
  BY <1>0, <1>20 DEF LoadFlush, NoticeInv, Undisturbed, Silent, Settled, Scanned
<1>21. CASE UnloadReturn
  BY <1>0, <1>21 DEF UnloadReturn, NoticeInv, Undisturbed, Silent, Settled, Scanned
<1>22. CASE PresentLive
  BY <1>0, <1>22 DEF PresentLive, NoticeInv, Undisturbed, Silent, Settled, Scanned, WorkerInv
<1>23. CASE PresentCheck
  BY <1>0, <1>23 DEF PresentCheck, NoticeInv, Undisturbed, Silent, Settled, Scanned
<1>24. CASE PresentFlush
  BY <1>0, <1>24 DEF PresentFlush, NoticeInv, Undisturbed, Silent, Settled, Scanned
<1>25. CASE PresentApply
  BY <1>0, <1>25 DEF PresentApply, NoticeInv, Undisturbed, Silent, Settled, Scanned
<1>26. CASE PresentStop
  BY <1>0, <1>26 DEF PresentStop, NoticeInv, Undisturbed, Silent, Settled, Scanned
<1>27. CASE PresentJoin
  BY <1>0, <1>27 DEF PresentJoin, NoticeInv, Undisturbed, Silent, Settled, Scanned
<1>28. CASE UNCHANGED vars
  BY <1>0, <1>28 DEF vars, NoticeInv, Undisturbed, Silent, Settled, Scanned
<1> QED
  BY <1>1, <1>2, <1>3, <1>4, <1>5, <1>6, <1>7, <1>8, <1>9, <1>10, <1>11, <1>12, <1>13, <1>14, <1>15, <1>16, <1>17, <1>18, <1>19, <1>20, <1>21, <1>22, <1>23, <1>24, <1>25, <1>26, <1>27, <1>28
  DEF Next, Editor, Worker, User, Present, Scan, Thread

-----------------------------------------------------------------------------
\* The inductive invariant holds in every behaviour of the watcher and its present thread.
THEOREM Invariance == Spec => []Inv
<1>1. Init => Inv
  BY InitInv
<1>2. Inv /\ [Next]_vars => Inv'
  BY TypeStep, StampStep, MetadataStep, CacheStep, CalmStep, UpdatesStep, WorkerStep, NoticeStep DEF Inv
<1> QED
  BY <1>1, <1>2, PTL DEF Spec

\* Every variable keeps its type.
THEOREM Types == Spec => []TypeOK
BY Invariance, PTL DEF Inv

\* Metadata that names the file on disk belongs to a build of that file.
THEOREM MetadataCorrect == Spec => []MetadataNeverFlatters
BY Invariance, PTL DEF Inv

\* The replacements in use and the updates under way add up to the cache.
THEOREM UpdatesCorrect == Spec => []UpdatesAddUp
BY Invariance, PTL DEF Inv

\* A worker that rests has been told of every change it has not compiled.
THEOREM NoticeCorrect == Spec => []NoChangeGoesUnnoticed
<1>1. Inv => NoChangeGoesUnnoticed
  BY DEF Inv, TypeOK, FlagTypes, WorkerInv, NoticeInv, Silent, Settled, NoChangeGoesUnnoticed
<1> QED
  BY <1>1, Invariance, PTL

=============================================================================
