-------------------------- MODULE FlashCacheProofs --------------------------
(***************************************************************************)
(* Proofs about FlashCache: types for any number of tasks, and, for one    *)
(* task at a time, what the cache keeps when calls into the flash fail and *)
(* that it implements BlockDevice.                                         *)
(***************************************************************************)
EXTENDS FlashCache, TLAPS

\* A call that was not refused has sectors to go, all of them on the disk, and
\* only reads and writes get past the flush.
CallRange ==
    \A t \in Tasks :
        /\ pc[t] # "idle" /\ req[t].op \in {"read", "write"} =>
               req[t].left > 0 /\ req[t].sector + req[t].left <= SectorCount
        /\ pc[t] \in {"check", "load", "fetch", "copy", "mark"} => req[t].op \in {"read", "write"}

\* The sector a call works on is a block of the file system.
LEMMA SectorOnDisk ==
    ASSUME TypeOK, CallRange, NEW t \in Tasks, pc[t] \in {"check", "load", "fetch", "copy", "mark"}
    PROVE  req[t].sector \in Blocks
<1>1. req[t] \in Request /\ req[t].sector \in Nat /\ req[t].left \in Nat
  BY DEF TypeOK, Request
<1>2. req[t].left > 0 /\ req[t].sector + req[t].left <= SectorCount
  BY DEF CallRange
<1>3. QED
  BY <1>1, <1>2, FlashAssumption DEF Blocks

\* sflash_disk_init leaves a state of the right types, with no call under way.
LEMMA TypeInit == Init => TypeOK /\ CallRange
<1> SUFFICES ASSUME Init PROVE TypeOK /\ CallRange
  OBVIOUS
<1>2. flash \in [Blocks -> Content] /\ cache \in Content /\ Erased \in Content
  BY DEF Init, Content
<1>3. req \in [Tasks -> Request] /\ pc \in [Tasks -> Steps]
  BY DEF Init, Request, Steps
<1>4. TypeOK
  BY <1>2, <1>3 DEF Init, TypeOK
<1>5. CallRange
  BY DEF Init, CallRange
<1>6. QED
  BY <1>4, <1>5

\* A step that leaves the calls where they are, or ends them, keeps their ranges.
LEMMA FlushedKeeps ==
    ASSUME TypeOK, CallRange, NEW t \in Tasks, NEW good \in BOOLEAN,
           pc[t] \in {"flush", "erase", "program", "clean"}, Flushed(t, good), req' = req
    PROVE  /\ pc' \in [Tasks -> Steps]
           /\ res' \in [Tasks -> {"OK", "ERROR", "PARERR"}]
           /\ CallRange'
<1>1. /\ pc' \in [Tasks -> Steps]
      /\ res' \in [Tasks -> {"OK", "ERROR", "PARERR"}]
      /\ \A u \in Tasks : u # t => pc'[u] = pc[u]
      /\ pc'[t] = "idle" \/ (pc'[t] = "load" /\ req[t].op \notin {"bad", "sync"})
  <2>1. CASE req[t].op = "bad"
    BY <2>1 DEF Flushed, Return, Goto, TypeOK, Steps
  <2>2. CASE req[t].op = "sync"
    BY <2>2 DEF Flushed, Return, Goto, TypeOK, Steps
  <2>3. CASE req[t].op \notin {"bad", "sync"}
    BY <2>3 DEF Flushed, Return, Goto, TypeOK, Steps
  <2>4. QED
    BY <2>1, <2>2, <2>3
<1>2. req[t].op \in {"read", "write", "sync", "bad"}
  BY DEF TypeOK, Request
<1>3. CallRange'
  BY <1>1, <1>2 DEF CallRange
<1>4. QED
  BY <1>1, <1>3

\* The loop over the sectors keeps the rest of the call on the disk.
LEMMA NextSectorKeeps ==
    ASSUME TypeOK, CallRange, NEW t \in Tasks, pc[t] \in {"copy", "mark"}, NextSector(t)
    PROVE  /\ pc' \in [Tasks -> Steps]
           /\ req' \in [Tasks -> Request]
           /\ res' \in [Tasks -> {"OK", "ERROR", "PARERR"}]
           /\ CallRange'
<1>1. req[t] \in Request /\ req[t].sector \in Nat /\ req[t].left \in Nat
      /\ req[t].op \in {"read", "write"}
  BY DEF TypeOK, Request, CallRange
<1>2. req[t].left > 0 /\ req[t].sector + req[t].left <= SectorCount
  BY DEF CallRange
<1>3. /\ req'[t] = [op |-> req[t].op, sector |-> req[t].sector + 1, left |-> req[t].left - 1]
      /\ \A u \in Tasks : u # t => req'[u] = req[u]
      /\ DOMAIN req' = Tasks
      /\ req' = [u \in Tasks |-> req'[u]]
  BY <1>1 DEF NextSector, TypeOK, Request
<1>4. req'[t] \in Request
  BY <1>1, <1>2, <1>3, FlashAssumption DEF Request
<1>5. req' \in [Tasks -> Request]
  BY <1>3, <1>4 DEF TypeOK
<1>6. /\ pc' \in [Tasks -> Steps]
      /\ res' \in [Tasks -> {"OK", "ERROR", "PARERR"}]
      /\ \A u \in Tasks : u # t => pc'[u] = pc[u]
      /\ pc'[t] = "idle" \/ (pc'[t] = "check" /\ req[t].left > 1)
  BY DEF NextSector, Return, Goto, TypeOK, Steps
<1>7. CallRange'
  <2> SUFFICES ASSUME NEW u \in Tasks
                 PROVE  /\ pc'[u] # "idle" /\ req'[u].op \in {"read", "write"} =>
                              req'[u].left > 0 /\ req'[u].sector + req'[u].left <= SectorCount
                        /\ pc'[u] \in {"check", "load", "fetch", "copy", "mark"} =>
                              req'[u].op \in {"read", "write"}
    BY DEF CallRange
  <2>2. CASE u = t
    BY <2>2, <1>1, <1>2, <1>3, <1>6, FlashAssumption
  <2>3. CASE u # t
    BY <2>3, <1>3, <1>6 DEF CallRange
  <2>4. QED
    BY <2>2, <2>3
<1>8. QED
  BY <1>5, <1>6, <1>7

\* Every step of every task, and a power loss, keep types and ranges.
LEMMA TypeNext == TypeOK /\ CallRange /\ [Next]_vars => TypeOK' /\ CallRange'
<1> SUFFICES ASSUME TypeOK, CallRange, [Next]_vars PROVE TypeOK' /\ CallRange'
  OBVIOUS
<1>2. CASE UNCHANGED vars
  BY <1>2 DEF vars, TypeOK, CallRange
<1>3. Torn \in Content /\ Erased \in Content /\ \A step : Interrupted(step) \subseteq Content \/ addr \notin Blocks
  BY DEF Content, Interrupted, TypeOK
<1>4. CASE PowerLoss
  <2>1. flash' \in [Blocks -> Content]
    BY <1>3, <1>4 DEF PowerLoss, TypeOK
  <2>2. pc' \in [Tasks -> Steps] /\ CallRange'
    BY <1>4 DEF PowerLoss, CallRange, Steps
  <2>3. QED
    BY <1>4, <2>1, <2>2 DEF PowerLoss, TypeOK
<1>5. ASSUME NEW t \in Tasks, Step(t) PROVE TypeOK' /\ CallRange'
  <2>1. ASSUME NEW op \in {"read", "write"}, NEW s \in 0 .. SectorCount, NEW n \in 0 .. MaxCount,
               Call(t, op, s, n)
        PROVE  TypeOK' /\ CallRange'
    <3>1. s \in Nat /\ n \in Nat
      BY FlashAssumption
    <3>2. CASE OutOfRange(s, n)
      <4> DEFINE refused == [op |-> "bad", sector |-> s, left |-> n]
      <4>0. refused \in Request
        BY <3>1 DEF Request
      <4>1. req' \in [Tasks -> Request] /\ pc' \in [Tasks -> Steps]
        <5>1. req' = [req EXCEPT ![t] = refused] /\ pc' = [pc EXCEPT ![t] = "flush"]
          BY <2>1, <3>2 DEF Call, Goto
        <5> HIDE DEF refused
        <5>2. QED
          BY <4>0, <5>1 DEF TypeOK, Steps
      <4>2. CallRange'
        BY <2>1, <3>1, <3>2 DEF Call, Goto, TypeOK, CallRange
      <4>3. QED
        BY <2>1, <4>1, <4>2 DEF Call, TypeOK
    <3>3. CASE ~OutOfRange(s, n)
      <4>1. req' \in [Tasks -> Request] /\ pc' \in [Tasks -> Steps]
        BY <2>1, <3>1, <3>3, SMTT(30) DEF Call, Goto, TypeOK, Request, Steps
      <4>2. n > 0 /\ s + n <= SectorCount
        BY <3>1, <3>3, FlashAssumption DEF OutOfRange
      <4>3. CallRange'
        BY <2>1, <3>1, <3>3, <4>2 DEF Call, Goto, TypeOK, CallRange
      <4>4. QED
        BY <2>1, <4>1, <4>3 DEF Call, TypeOK
    <3>4. QED
      BY <3>2, <3>3
  <2>2. CASE Sync(t)
    <3>1. req' \in [Tasks -> Request] /\ pc' \in [Tasks -> Steps]
      BY <2>2 DEF Sync, Goto, TypeOK, Request, Steps
    <3>2. CallRange'
      BY <2>2 DEF Sync, Goto, TypeOK, CallRange
    <3>3. QED
      BY <2>2, <3>1, <3>2 DEF Sync, TypeOK
  <2>3. CASE Check(t)
    <3>1. pc' \in [Tasks -> Steps] /\ CallRange'
      BY <2>3 DEF Check, Goto, TypeOK, CallRange, Steps
    <3>2. QED
      BY <2>3, <3>1 DEF Check, TypeOK
  <2>4. CASE FlushClean(t)
    BY <2>4, FlushedKeeps DEF FlushClean, TypeOK
  <2>5. CASE FlushDirty(t)
    <3>1. pc' \in [Tasks -> Steps] /\ CallRange'
      BY <2>5 DEF FlushDirty, Goto, TypeOK, CallRange, Steps
    <3>2. QED
      BY <2>5, <3>1 DEF FlushDirty, TypeOK
  <2>6. CASE Erase(t)
    <3>1. pc' \in [Tasks -> Steps] /\ CallRange'
      BY <2>6 DEF Erase, Goto, TypeOK, CallRange, Steps
    <3>2. QED
      BY <1>3, <2>6, <3>1 DEF Erase, TypeOK
  <2>7. CASE Program(t)
    <3>1. pc' \in [Tasks -> Steps] /\ CallRange'
      BY <2>7 DEF Program, Goto, TypeOK, CallRange, Steps
    <3>2. QED
      BY <2>7, <3>1 DEF Program, TypeOK
  <2>8. CASE WriteFailed(t)
    <3>1. flash' \in [Blocks -> Content]
      BY <1>3, <2>8 DEF WriteFailed, TypeOK
    <3>2. QED
      BY <2>8, <3>1, FlushedKeeps DEF WriteFailed, TypeOK
  <2>9. CASE Clean(t)
    BY <2>9, FlushedKeeps DEF Clean, TypeOK
  <2>10. CASE Load(t)
    <3>1. pc' \in [Tasks -> Steps] /\ CallRange'
      BY <2>10 DEF Load, Goto, TypeOK, CallRange, Steps
    <3>2. QED
      BY <2>10, <3>1, SectorOnDisk DEF Load, TypeOK
  <2>11. CASE Fetch(t)
    <3>1. pc' \in [Tasks -> Steps] /\ CallRange'
      BY <2>11 DEF Fetch, Goto, TypeOK, CallRange, Steps
    <3>2. QED
      BY <2>11, <3>1, SectorOnDisk DEF Fetch, TypeOK
  <2>12. CASE FetchFailed(t)
    <3>1. pc' \in [Tasks -> Steps] /\ CallRange' /\ res' \in [Tasks -> {"OK", "ERROR", "PARERR"}]
      BY <2>12 DEF FetchFailed, Return, Goto, TypeOK, CallRange, Steps
    <3>2. QED
      BY <1>3, <2>12, <3>1 DEF FetchFailed, TypeOK
  <2>13. CASE CopyOut(t)
    <3>1. out' \in [sector : Blocks \cup {NoBlock}, data : Content]
      BY <2>13, SectorOnDisk DEF CopyOut, TypeOK
    <3>2. QED
      BY <2>13, <3>1, NextSectorKeeps DEF CopyOut, TypeOK
  <2>14. ASSUME NEW d \in Data, CopyIn(t, d) PROVE TypeOK' /\ CallRange'
    <3>1. pc' \in [Tasks -> Steps] /\ CallRange'
      BY <2>14 DEF CopyIn, Goto, TypeOK, CallRange, Steps
    <3>2. d \in Content
      BY DEF Content
    <3>3. QED
      BY <2>14, <3>1, <3>2 DEF CopyIn, TypeOK
  <2>15. CASE Mark(t)
    BY <2>15, NextSectorKeeps DEF Mark, TypeOK
  <2>16. QED
    BY <1>5, <2>1, <2>2, <2>3, <2>4, <2>5, <2>6, <2>7, <2>8, <2>9, <2>10, <2>11, <2>12,
       <2>13, <2>14, <2>15 DEF Step
<1>6. QED
  BY <1>2, <1>4, <1>5 DEF Next

\* For any number of tasks, blocks and values, and whatever fails, the cache only
\* ever holds the address of a block of the file system.
THEOREM CacheTypeCorrect == Spec => []TypeOK
<1>1. Spec => [](TypeOK /\ CallRange)
  BY TypeInit, TypeNext, PTL DEF Spec
<1>2. QED
  BY <1>1, PTL

-----------------------------------------------------------------------------
\* One task at a time uses the file system: what the missing locks would ensure.
OneTask == \A t, u \in Tasks : t = u

\* How far the statics agree with each step of a call: a block is only written
\* back while it is dirty, only replaced once it is clean, and from the moment the
\* address is set until the sector is copied the address is that of the sector.
CacheInv ==
    /\ dirty => addr \in Blocks
    /\ \A t \in Tasks :
         /\ pc[t] \in {"erase", "program", "clean"} => dirty
         /\ pc[t] = "clean" => flash[addr] = cache
         /\ pc[t] \in {"load", "fetch"} => ~dirty
         /\ pc[t] \in {"fetch", "copy", "mark"} => addr = req[t].sector
         /\ pc[t] = "mark" => req[t].op = "write"

\* The block whose read failed is clean, and forgotten once another one is announced or
\* it is written.
ReadInv ==
    misread => ~dirty /\ addr \in Blocks /\ \A t \in Tasks : pc[t] \notin {"fetch", "mark"}

\* What a call goes on to after sflash_disk_flush.
LEMMA FlushedCases ==
    ASSUME TypeOK, NEW t \in Tasks, NEW good \in BOOLEAN, Flushed(t, good)
    PROVE  pc'[t] = "idle" \/ (pc'[t] = "load" /\ good)
<1>1. CASE req[t].op = "bad"
  BY <1>1 DEF Flushed, Return, Goto, TypeOK
<1>2. CASE req[t].op = "sync"
  BY <1>2 DEF Flushed, Return, Goto, TypeOK
<1>3. CASE req[t].op \notin {"bad", "sync"}
  BY <1>3 DEF Flushed, Return, Goto, TypeOK
<1>4. QED
  BY <1>1, <1>2, <1>3

\* What a call goes on to after a sector.
LEMMA NextSectorCases ==
    ASSUME TypeOK, NEW t \in Tasks, NextSector(t)
    PROVE  pc'[t] \in {"idle", "check"}
BY DEF NextSector, Return, Goto, TypeOK

\* Each step of the only task, and a power loss, keep the statics in agreement.
LEMMA CacheNext ==
    ASSUME OneTask, TypeOK, CallRange, CacheInv, [Next]_vars
    PROVE  CacheInv'
<1>1. CASE UNCHANGED vars
  BY <1>1 DEF vars, CacheInv
<1>2. CASE PowerLoss
  BY <1>2 DEF PowerLoss, CacheInv
<1>3. ASSUME NEW t \in Tasks, Step(t) PROVE CacheInv'
  <2> DEFINE Part(p, q) ==
        /\ p \in {"erase", "program", "clean"} => dirty'
        /\ p = "clean" => flash'[addr'] = cache'
        /\ p \in {"load", "fetch"} => ~dirty'
        /\ p \in {"fetch", "copy", "mark"} => addr' = q.sector
        /\ p = "mark" => q.op = "write"
  <2> SUFFICES (dirty' => addr' \in Blocks) /\ Part(pc'[t], req'[t])
    BY DEF CacheInv, OneTask
  <2>1. ASSUME NEW op \in {"read", "write"}, NEW s \in 0 .. SectorCount, NEW n \in 0 .. MaxCount,
               Call(t, op, s, n)
        PROVE  (dirty' => addr' \in Blocks) /\ Part(pc'[t], req'[t])
    BY <2>1 DEF Call, Goto, TypeOK, CacheInv
  <2>2. CASE Sync(t)
    BY <2>2 DEF Sync, Goto, TypeOK, CacheInv
  <2>3. CASE Check(t)
    BY <2>3 DEF Check, Goto, TypeOK, CacheInv
  <2>4. CASE FlushClean(t)
    <3>1. pc'[t] \in {"idle", "load"} /\ ~dirty'
      BY <2>4, FlushedCases DEF FlushClean, TypeOK
    <3>2. QED
      BY <3>1
  <2>5. CASE FlushDirty(t)
    BY <2>5 DEF FlushDirty, Goto, TypeOK, CacheInv
  <2>6. CASE Erase(t)
    BY <2>6 DEF Erase, Goto, TypeOK, CacheInv
  <2>7. CASE Program(t)
    BY <2>7 DEF Program, Goto, TypeOK, CacheInv
  <2>8. CASE WriteFailed(t)
    <3>1. pc'[t] = "idle"
      BY <2>8, FlushedCases DEF WriteFailed
    <3>2. QED
      BY <2>8, <3>1 DEF WriteFailed, CacheInv
  <2>9. CASE Clean(t)
    <3>1. pc'[t] \in {"idle", "load"} /\ ~dirty'
      BY <2>9, FlushedCases DEF Clean
    <3>2. QED
      BY <3>1
  <2>10. CASE Load(t)
    BY <2>10 DEF Load, Goto, TypeOK, CacheInv
  <2>11. CASE Fetch(t)
    BY <2>11 DEF Fetch, Goto, TypeOK, CacheInv
  <2>12. CASE FetchFailed(t)
    BY <2>12 DEF FetchFailed, Return, Goto, TypeOK, CacheInv
  <2>13. CASE CopyOut(t)
    <3>1. pc'[t] \in {"idle", "check"}
      BY <2>13, NextSectorCases DEF CopyOut
    <3>2. QED
      BY <2>13, <3>1 DEF CopyOut, CacheInv
  <2>14. ASSUME NEW d \in Data, CopyIn(t, d)
         PROVE  (dirty' => addr' \in Blocks) /\ Part(pc'[t], req'[t])
    BY <2>14 DEF CopyIn, Goto, TypeOK, CacheInv
  <2>15. CASE Mark(t)
    <3>1. pc'[t] \in {"idle", "check"}
      BY <2>15, NextSectorCases DEF Mark
    <3>2. addr' \in Blocks
      BY <2>15, SectorOnDisk DEF Mark, CacheInv
    <3>3. QED
      BY <3>1, <3>2
  <2>16. QED
    BY <1>3, <2>1, <2>2, <2>3, <2>4, <2>5, <2>6, <2>7, <2>8, <2>9, <2>10, <2>11, <2>12,
       <2>13, <2>14, <2>15 DEF Step
<1>4. QED
  BY <1>1, <1>2, <1>3 DEF Next

\* Each step of the only task, and a power loss, keep it so.
LEMMA ReadNext ==
    ASSUME OneTask, TypeOK, CallRange, CacheInv, ReadInv, [Next]_vars
    PROVE  ReadInv'
<1>1. CASE UNCHANGED vars
  BY <1>1 DEF vars, ReadInv
<1>2. CASE PowerLoss
  BY <1>2 DEF PowerLoss, ReadInv
<1>3. ASSUME NEW t \in Tasks, Step(t) PROVE ReadInv'
  <2> SUFFICES ASSUME misread'
               PROVE  ~dirty' /\ addr' \in Blocks /\ pc'[t] \notin {"fetch", "mark"}
    BY DEF ReadInv, OneTask
  <2>1. CASE FetchFailed(t)
    <3>1. ~dirty /\ addr = req[t].sector
      BY <2>1 DEF FetchFailed, CacheInv
    <3>2. req[t].sector \in Blocks
      BY <2>1, SectorOnDisk DEF FetchFailed
    <3>3. pc'[t] = "idle"
      BY <2>1 DEF FetchFailed, Return, Goto, TypeOK
    <3>4. QED
      BY <2>1, <3>1, <3>2, <3>3 DEF FetchFailed
  <2>2. CASE misread
    <3>1. ~dirty /\ addr \in Blocks /\ pc[t] \notin {"fetch", "mark"}
      BY <2>2 DEF ReadInv
    <3>2. dirty' = dirty /\ addr' = addr
      BY <1>3, <3>1 DEF Step, Call, Sync, Check, FlushClean, FlushDirty, Erase, Program,
                  WriteFailed, Clean, Load, Fetch, FetchFailed, CopyOut, CopyIn, Mark, CacheInv
    <3>3. ~Load(t) /\ \A d \in Data : ~CopyIn(t, d)
      BY DEF Load, CopyIn
    <3>4. pc'[t] \notin {"fetch", "mark"}
      <4>1. CASE \E op \in {"read", "write"}, n \in 0 .. MaxCount, s \in 0 .. SectorCount :
                   Call(t, op, s, n)
        BY <4>1 DEF Call, Goto, TypeOK
      <4>2. CASE Sync(t) \/ Check(t) \/ FlushDirty(t) \/ Erase(t) \/ Program(t)
        BY <4>2 DEF Sync, Check, FlushDirty, Erase, Program, Goto, TypeOK
      <4>3. CASE FlushClean(t) \/ WriteFailed(t) \/ Clean(t)
        BY <4>3, FlushedCases DEF FlushClean, WriteFailed, Clean
      <4>4. CASE Fetch(t) \/ FetchFailed(t) \/ Mark(t)
        BY <3>1, <4>4 DEF Fetch, FetchFailed, Mark
      <4>5. CASE CopyOut(t)
        BY <4>5, NextSectorCases DEF CopyOut
      <4>6. QED
        BY <1>3, <3>3, <4>1, <4>2, <4>3, <4>4, <4>5 DEF Step
    <3>5. QED
      BY <3>1, <3>2, <3>4
  <2>3. misread \/ FetchFailed(t)
    BY <1>3 DEF Step, Call, Sync, Check, FlushClean, FlushDirty, Erase, Program,
                WriteFailed, Clean, Load, Fetch, CopyOut, CopyIn, Mark
  <2>4. QED
    BY <2>1, <2>2, <2>3
<1>4. QED
  BY <1>1, <1>2, <1>3 DEF Next

\* The invariant of the cache with one task, whatever fails.
LEMMA CacheInvariant ==
    ASSUME OneTask
    PROVE  Spec => [](TypeOK /\ CallRange /\ CacheInv /\ ReadInv)
<1>1. Init => TypeOK /\ CallRange /\ CacheInv /\ ReadInv
  BY TypeInit DEF Init, CacheInv, ReadInv
<1>2. TypeOK /\ CallRange /\ CacheInv /\ ReadInv /\ [Next]_vars
          => TypeOK' /\ CallRange' /\ CacheInv' /\ ReadInv'
  BY TypeNext, CacheNext, ReadNext
<1>3. QED
  BY <1>1, <1>2, PTL DEF Spec

-----------------------------------------------------------------------------
\* What a step may do to the stored sectors, whatever fails: nothing, unless a
\* write is copying its sector or power is lost with a sector unsaved.
LEMMA StoredStep ==
    ASSUME TypeOK, CallRange, CacheInv, [Next]_vars, NEW b \in Blocks, Stored(b)' # Stored(b)
    PROVE  \/ \E t \in Tasks : req[t].op = "write" /\ req[t].sector = b /\ pc[t] \in {"copy", "mark"}
           \/ dirty /\ addr = b /\ addr' = NoBlock
<1>1. CASE UNCHANGED vars
  BY <1>1 DEF vars, Stored
<1>2. CASE PowerLoss
  <2>1. CASE dirty
    BY <1>2, <2>1 DEF PowerLoss, Stored, TypeOK
  <2>2. CASE ~dirty
    BY <1>2, <2>2 DEF PowerLoss, Stored, CacheInv
  <2>3. QED
    BY <2>1, <2>2
<1>3. ASSUME NEW t \in Tasks, Step(t)
      PROVE  req[t].op = "write" /\ req[t].sector = b /\ pc[t] \in {"copy", "mark"}
  <2>1. CASE \E op \in {"read", "write"}, s \in 0 .. SectorCount, n \in 0 .. MaxCount :
               Call(t, op, s, n)
    BY <2>1 DEF Call, Stored
  <2>2. CASE Sync(t) \/ Check(t) \/ FlushClean(t) \/ FlushDirty(t) \/ CopyOut(t)
    <3>1. UNCHANGED <<flash, cache, addr, dirty>>
      BY <2>2 DEF Sync, Check, FlushClean, FlushDirty, CopyOut
    <3>2. QED
      BY <3>1 DEF Stored
  <2>3. CASE Erase(t)
    BY <2>3 DEF Erase, Stored, CacheInv, TypeOK
  <2>4. CASE Program(t)
    BY <2>4 DEF Program, Stored, CacheInv, TypeOK
  <2>5. CASE WriteFailed(t)
    BY <2>5 DEF WriteFailed, Stored, CacheInv, TypeOK
  <2>6. CASE Clean(t)
    BY <2>6 DEF Clean, Stored, CacheInv
  <2>7. CASE Load(t)
    BY <2>7 DEF Load, Stored, CacheInv
  <2>8. CASE Fetch(t) \/ FetchFailed(t)
    BY <2>8 DEF Fetch, FetchFailed, Stored, CacheInv
  <2>9. CASE \E d \in Data : CopyIn(t, d)
    BY <2>9 DEF CopyIn, Stored, CacheInv
  <2>10. CASE Mark(t)
    BY <2>10 DEF Mark, Stored, CacheInv
  <2>11. QED
    BY <1>3, <2>1, <2>2, <2>3, <2>4, <2>5, <2>6, <2>7, <2>8, <2>9, <2>10 DEF Step
<1>4. QED
  BY <1>1, <1>2, <1>3 DEF Next

\* With one task, for any disk and whatever call into the flash fails, a sector
\* only changes while it is written or when power is lost before it was saved.
THEOREM CacheKeepsData ==
    ASSUME OneTask
    PROVE  Spec => DataKept
<1>1. ASSUME TypeOK, CallRange, CacheInv, [Next]_vars
      PROVE  [\A b \in Blocks : Stored(b)' # Stored(b) =>
                \/ \E t \in Tasks :
                     req[t].op = "write" /\ req[t].sector = b /\ pc[t] \in {"copy", "mark"}
                \/ dirty /\ addr = b /\ addr' = NoBlock]_vars
  BY <1>1, StoredStep
<1>2. QED
  BY <1>1, CacheInvariant, PTL DEF Spec, DataKept

-----------------------------------------------------------------------------
\* A clean cache stays a copy of its block, unless reading that block failed.
LEMMA AgreesNext ==
    ASSUME OneTask, TypeOK, CallRange, CacheInv, CleanAgrees, [Next]_vars
    PROVE  CleanAgrees'
<1>1. CASE UNCHANGED vars
  BY <1>1 DEF vars, CleanAgrees
<1>2. CASE PowerLoss
  BY <1>2 DEF PowerLoss, CleanAgrees
<1>3. ASSUME NEW t \in Tasks, Step(t) PROVE CleanAgrees'
  <2> DEFINE Agrees(p) == ~dirty' /\ ~misread' /\ addr' # NoBlock /\ p \notin {"fetch", "mark"}
                              => cache' = flash'[addr']
  <2> SUFFICES Agrees(pc'[t])
    BY DEF CleanAgrees
  <2>1. pc[t] \notin {"fetch", "mark"} /\ ~dirty /\ ~misread /\ addr # NoBlock => cache = flash[addr]
    BY DEF CleanAgrees, OneTask
  <2>2. CASE \E op \in {"read", "write"}, s \in 0 .. SectorCount, n \in 0 .. MaxCount :
               Call(t, op, s, n)
    BY <2>1, <2>2 DEF Call
  <2>3. CASE Sync(t) \/ Check(t) \/ FlushClean(t) \/ FlushDirty(t) \/ CopyOut(t)
    <3>1. UNCHANGED <<flash, cache, addr, dirty, misread>> /\ pc[t] \notin {"fetch", "mark"}
      BY <2>3 DEF Sync, Check, FlushClean, FlushDirty, CopyOut
    <3>2. QED
      BY <2>1, <3>1
  <2>4. CASE Erase(t) \/ Program(t) \/ WriteFailed(t)
    <3>1. pc[t] \in {"erase", "program"} /\ dirty' = dirty
      BY <2>4 DEF Erase, Program, WriteFailed
    <3>2. dirty'
      BY <3>1 DEF CacheInv
    <3>3. QED
      BY <3>2
  <2>5. CASE Clean(t)
    BY <2>5 DEF Clean, CacheInv
  <2>6. CASE Load(t)
    BY <2>6 DEF Load, Goto, TypeOK
  <2>7. CASE Fetch(t)
    BY <2>7 DEF Fetch, CacheInv
  <2>8. CASE FetchFailed(t)
    BY <2>8 DEF FetchFailed
  <2>9. CASE \E d \in Data : CopyIn(t, d)
    BY <2>9 DEF CopyIn, Goto, TypeOK
  <2>10. CASE Mark(t)
    BY <2>10 DEF Mark
  <2>11. QED
    BY <1>3, <2>2, <2>3, <2>4, <2>5, <2>6, <2>7, <2>8, <2>9, <2>10 DEF Step
<1>4. QED
  BY <1>1, <1>2, <1>3 DEF Next

\* The full invariant of the cache with one task.
LEMMA AgreesInvariant ==
    ASSUME OneTask
    PROVE  Spec => [](TypeOK /\ CallRange /\ CacheInv /\ ReadInv /\ CleanAgrees)
<1>1. Init => CleanAgrees
  BY DEF Init, CleanAgrees
<1>2. TypeOK /\ CallRange /\ CacheInv /\ CleanAgrees /\ [Next]_vars => CleanAgrees'
  BY AgreesNext
<1>3. QED
  BY <1>1, <1>2, CacheInvariant, PTL DEF Spec

\* With one task a hit on a clean cache returns what the flash holds, through failed
\* write-backs, failed reads of other blocks and power losses.
THEOREM CacheAgrees ==
    ASSUME OneTask
    PROVE  Spec => []CleanAgrees
BY AgreesInvariant, PTL

-----------------------------------------------------------------------------
\* A freshly initialised cache is the disk in the flash.
LEMMA DiskStart == Init => Disk!DiskInit
<1> SUFFICES ASSUME Init PROVE Disk!DiskInit
  OBVIOUS
<1>1. [b \in Blocks |-> Stored(b)] \in [Blocks -> Content]
  BY DEF Init, Stored, Content
<1>2. (IF dirty THEN addr ELSE NoBlock) = NoBlock /\ (IF misread THEN addr ELSE NoBlock) = NoBlock
  BY DEF Init
<1>3. out \in [sector : Blocks \cup {NoBlock}, data : Content]
  BY DEF Init, Content
<1>4. QED
  BY <1>1, <1>2, <1>3 DEF Disk!DiskInit

\* A step that keeps the stored sectors and the answer saves the unsaved sector, forgets
\* the one whose read failed or leaves the abstract disk alone.
LEMMA QuietStep ==
    ASSUME out' = out, \A b \in Blocks : Stored(b)' = Stored(b), dirty => ~misread,
           dirty' => dirty /\ addr' = addr, misread' => misread /\ addr' = addr
    PROVE  [Disk!DiskNext]_(Disk!diskVars)
<1> DEFINE Unsaved == IF dirty THEN addr ELSE NoBlock
           Unread == IF misread THEN addr ELSE NoBlock
<1>1. [b \in Blocks |-> Stored(b)]' = [b \in Blocks |-> Stored(b)]
  OBVIOUS
<1>2. CASE dirty
  <2>1. Unread' = Unread
    BY <1>2
  <2>2. CASE dirty'
    BY <1>1, <1>2, <2>1, <2>2 DEF Disk!diskVars
  <2>3. CASE ~dirty'
    <3>1. Disk!Save
      BY <1>1, <2>1, <2>3 DEF Disk!Save
    <3>2. QED
      BY <3>1 DEF Disk!DiskNext
  <2>4. QED
    BY <2>2, <2>3
<1>3. CASE ~dirty
  <2>1. Unsaved' = Unsaved
    BY <1>3
  <2>2. CASE misread'
    BY <1>1, <2>1, <2>2 DEF Disk!diskVars
  <2>3. CASE ~misread'
    <3>1. Disk!Forget
      BY <1>1, <2>1, <2>3 DEF Disk!Forget
    <3>2. QED
      BY <3>1 DEF Disk!DiskNext
  <2>4. QED
    BY <2>2, <2>3
<1>4. QED
  BY <1>2, <1>3

\* Every step of the cache is one of the abstract disk, or none.
LEMMA DiskStep ==
    ASSUME OneTask, TypeOK, CallRange, CacheInv, ReadInv, CleanAgrees, [Next]_vars
    PROVE  [Disk!DiskNext]_(Disk!diskVars)
<1> DEFINE Map == [b \in Blocks |-> Stored(b)]
<1> DEFINE Unsaved == IF dirty THEN addr ELSE NoBlock
           Unread == IF misread THEN addr ELSE NoBlock
<1>0. dirty => ~misread
  BY DEF ReadInv
<1>1. CASE UNCHANGED vars
  BY <1>0, <1>1, QuietStep DEF vars, Stored
<1>2. CASE PowerLoss
  <2>1. CASE dirty
    <3>1. PICK d \in Content : flash' = [flash EXCEPT ![addr] = d]
      <4>1. flash' = [flash EXCEPT ![addr] = flash'[addr]] /\ flash'[addr] \in Content
        <5>1. CASE UNCHANGED flash
          BY <2>1, <5>1 DEF CacheInv, TypeOK
        <5>2. CASE \E t \in Tasks : \E d \in Interrupted(pc[t]) : flash' = [flash EXCEPT ![addr] = d]
          BY <2>1, <5>2 DEF CacheInv, TypeOK, Interrupted, Content
        <5>3. QED
          BY <1>2, <5>1, <5>2 DEF PowerLoss
      <4>2. QED
        BY <4>1
    <3>2. addr \in Blocks /\ addr # NoBlock
      BY <2>1, FlashAssumption DEF CacheInv, Blocks
    <3>3. Map' = [Map EXCEPT ![addr] = d]
      BY <1>2, <2>1, <3>1, <3>2 DEF PowerLoss, Stored, TypeOK
    <3>4. Unsaved = addr /\ Unsaved' = NoBlock /\ Unread' = NoBlock /\ out' = out
      BY <1>2, <2>1 DEF PowerLoss
    <3>5. Disk!LosePower(d)
      BY <2>1, <3>2, <3>3, <3>4 DEF Disk!LosePower
    <3>6. QED
      BY <3>5 DEF Disk!DiskNext
  <2>2. CASE ~dirty
    <3>1. UNCHANGED flash
      BY <1>2, <2>2 DEF PowerLoss, CacheInv
    <3>2. QED
      BY <1>0, <1>2, <2>2, <3>1, QuietStep DEF PowerLoss, Stored
  <2>3. QED
    BY <2>1, <2>2
<1>3. ASSUME NEW t \in Tasks, Step(t) PROVE [Disk!DiskNext]_(Disk!diskVars)
  <2>1. CASE /\ out' = out
             /\ pc[t] \notin {"copy", "mark"}
             /\ ~FetchFailed(t)
    <3>1. addr' = NoBlock => addr = NoBlock
      <4>1. \/ addr' = addr
            \/ Load(t)
        BY <1>3 DEF Step, Call, Sync, Check, FlushClean, FlushDirty, Erase, Program,
                    WriteFailed, Clean, Fetch, FetchFailed, CopyOut, CopyIn, Mark
      <4>2. Load(t) => addr' \in Blocks
        BY SectorOnDisk DEF Load
      <4>3. NoBlock \notin Blocks
        BY FlashAssumption DEF Blocks
      <4>4. QED
        BY <4>1, <4>2, <4>3
    <3>2. dirty => addr # NoBlock
      BY FlashAssumption DEF CacheInv, Blocks
    <3>3. \A b \in Blocks : Stored(b)' = Stored(b)
      BY <2>1, <3>1, <3>2, StoredStep DEF OneTask
    <3>4. dirty' => dirty /\ addr' = addr
      BY <1>3, <2>1 DEF Step, Call, Sync, Check, FlushClean, FlushDirty, Erase, Program,
                  WriteFailed, Clean, Load, Fetch, FetchFailed, CopyOut, CopyIn, Mark, CacheInv
    <3>5. misread' => misread /\ addr' = addr
      BY <1>3, <2>1 DEF Step, Call, Sync, Check, FlushClean, FlushDirty, Erase, Program,
                  WriteFailed, Clean, Load, Fetch, CopyOut, CopyIn, Mark
    <3>6. QED
      BY <1>0, <2>1, <3>3, <3>4, <3>5, QuietStep
  <2>8. CASE FetchFailed(t)
    <3>1. ~dirty /\ addr = req[t].sector /\ req[t].sector \in Blocks
      BY <2>8, SectorOnDisk DEF FetchFailed, CacheInv
    <3>2. UNCHANGED <<flash, addr, dirty, out>> /\ misread'
      BY <2>8 DEF FetchFailed
    <3>3. Map' = Map
      BY <3>1, <3>2 DEF Stored
    <3>4. Disk!FailRead(req[t].sector)
      BY <3>1, <3>2, <3>3 DEF Disk!FailRead
    <3>5. QED
      BY <3>1, <3>4 DEF Disk!DiskNext
  <2>9. CASE CopyOut(t) /\ misread
    <3>1. addr = req[t].sector /\ addr # NoBlock
      BY <2>9, FlashAssumption DEF CopyOut, CacheInv, ReadInv, Blocks
    <3>2. out' = [sector |-> Unread, data |-> cache] /\ cache \in Content
      BY <2>9, <3>1 DEF CopyOut, TypeOK
    <3>3. Map' = Map /\ Unsaved' = Unsaved /\ Unread' = Unread
      BY <2>9 DEF CopyOut, Stored
    <3>4. Disk!ReadWrongly(cache)
      BY <2>9, <3>1, <3>2, <3>3 DEF Disk!ReadWrongly
    <3>5. QED
      BY <3>2, <3>4 DEF Disk!DiskNext
  <2>2. CASE CopyOut(t) /\ ~misread
    <3>1. req[t].sector \in Blocks /\ addr = req[t].sector /\ addr # NoBlock
      BY <2>2, SectorOnDisk, FlashAssumption DEF CopyOut, CacheInv, Blocks
    <3>2. cache = Stored(addr)
      BY <2>2, <3>1 DEF CopyOut, Stored, CleanAgrees, OneTask
    <3>3. out' = [sector |-> req[t].sector, data |-> Map[req[t].sector]]
      BY <2>2, <3>1, <3>2 DEF CopyOut
    <3>4. Map' = Map /\ Unsaved' = Unsaved /\ Unread' = Unread
      BY <2>2 DEF CopyOut, Stored
    <3>5. Disk!ReadSector(req[t].sector)
      BY <2>2, <3>1, <3>3, <3>4 DEF Disk!ReadSector
    <3>6. QED
      BY <3>1, <3>5 DEF Disk!DiskNext
  <2>3. ASSUME NEW d \in Data, CopyIn(t, d) PROVE [Disk!DiskNext]_(Disk!diskVars)
    <3>1. req[t].sector \in Blocks /\ addr = req[t].sector
      BY <2>3, SectorOnDisk DEF CopyIn, CacheInv
    <3>2. CASE dirty
      <4>1. /\ Map' = [Map EXCEPT ![addr] = d] /\ Unsaved = addr /\ Unsaved' = addr
            /\ Unread' = NoBlock /\ out' = out
        BY <2>3, <3>1, <3>2 DEF CopyIn, Stored
      <4>2. Disk!WriteSector(addr, d)
        BY <3>2, <4>1 DEF Disk!WriteSector
      <4>3. d \in Content
        BY DEF Content
      <4>4. QED
        BY <3>1, <4>2, <4>3 DEF Disk!DiskNext
    <3>3. CASE ~dirty
      BY <1>0, <2>3, <3>3, QuietStep DEF CopyIn, Stored
    <3>4. QED
      BY <3>2, <3>3
  <2>4. CASE Mark(t)
    <3>1. req[t].sector \in Blocks /\ addr = req[t].sector
      BY <2>4, SectorOnDisk DEF Mark, CacheInv
    <3>2. Map' = [Map EXCEPT ![addr] = cache] /\ Unsaved \in {NoBlock, addr} /\ Unsaved' = addr
          /\ Unread' = NoBlock /\ out' = out
      BY <2>4, <3>1 DEF Mark, Stored, ReadInv
    <3>3. Disk!WriteSector(addr, cache)
      BY <3>2 DEF Disk!WriteSector
    <3>4. QED
      BY <3>1, <3>3 DEF Disk!DiskNext, TypeOK
  <2>5. out' = out \/ CopyOut(t)
    BY <1>3 DEF Step, Call, Sync, Check, FlushClean, FlushDirty, Erase, Program,
                WriteFailed, Clean, Load, Fetch, FetchFailed, CopyIn, Mark
  <2>6. pc[t] \notin {"copy", "mark"} \/ CopyOut(t) \/ Mark(t) \/ \E d \in Data : CopyIn(t, d)
    BY <1>3 DEF Step, Call, Sync, Check, FlushClean, FlushDirty, Erase, Program,
                WriteFailed, Clean, Load, Fetch, FetchFailed
  <2>7. QED
    BY <2>1, <2>2, <2>3, <2>4, <2>5, <2>6, <2>8, <2>9
<1>4. QED
  BY <1>1, <1>2, <1>3 DEF Next

\* With one task, for any number of blocks, any values and any length of a call,
\* sflash_diskio.c is a disk that loses at most the one sector it has not saved, and
\* that only to a power loss, and of which a failed read spoils one sector for reading.
THEOREM CacheImplementsDisk ==
    ASSUME OneTask
    PROVE  Spec => ImplementsDisk
<1>1. TypeOK /\ CallRange /\ CacheInv /\ ReadInv /\ CleanAgrees /\ [Next]_vars
          => [Disk!DiskNext]_(Disk!diskVars)
  BY DiskStep
<1>2. QED
  BY <1>1, DiskStart, AgreesInvariant, PTL DEF Spec, ImplementsDisk, Disk!DiskSpec
=============================================================================
