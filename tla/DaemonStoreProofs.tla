-------------------------- MODULE DaemonStoreProofs --------------------------
(***************************************************************************)
(* Proofs about the daemon's store, for every library, every pool and      *)
(* every set of daemons: ReadPool, Bootstrap and Library.                  *)
(***************************************************************************)
EXTENDS ReadPool, Bootstrap, Library, FiniteSetTheorems, SequenceTheorems,
        TLAPS

(***************************************************************************)
(* ReadPool: counting connections.                                         *)
(***************************************************************************)

(* Counts the pool can have of a read.                                     *)
Counts == [Reads -> 0..PoolSize + 1]

(* The set whose size is the sum of a count over all reads is finite.      *)
LEMMA CountedFinite ==
  ASSUME NEW f
  PROVE  IsFiniteSet(Counted(f)) /\ SumOver(f) \in Nat
  <1>1. IsFiniteSet(Reads \X (1..PoolSize + 1))
    <2>1. IsFiniteSet(1..PoolSize + 1)
      BY PoolAssumption, FS_Interval
    <2>2. QED
      BY <2>1, PoolAssumption, FS_Product
  <1>2. IsFiniteSet(Counted(f))
    BY <1>1, FS_Subset DEF Counted
  <1>3. QED
    BY <1>2, FS_CardinalityType DEF SumOver

(* The connections of one read are counted with those of the others.       *)
LEMMA CountOne ==
  ASSUME NEW f \in Counts, NEW r \in Reads
  PROVE  SumOver(f) = SumOver([f EXCEPT ![r] = 0]) + f[r]
  <1> DEFINE e == [f EXCEPT ![r] = 0]
             own == {r} \X (1..f[r])
  <1>1. f[r] \in 0..PoolSize + 1 /\ f[r] \in Nat
    BY PoolAssumption DEF Counts
  <1>2. Counted(f) = Counted(e) \cup own
    <2>1. ASSUME NEW c \in Reads \X (1..PoolSize + 1)
          PROVE  c \in Counted(f) <=> c \in Counted(e) \/ c \in own
      <3>1. PICK q \in Reads, n \in 1..PoolSize + 1 : c = <<q, n>>
        OBVIOUS
      <3>2. n \in Nat /\ n >= 1 /\ f[q] \in Nat
        BY PoolAssumption DEF Counts
      <3>3. CASE q = r
        <4>1. c \in Counted(f) <=> n <= f[r]
          BY <3>1, <3>3 DEF Counted
        <4>2. c \in own <=> n <= f[r]
          BY <1>1, <3>1, <3>2, <3>3
        <4>3. QED
          BY <3>1, <3>2, <3>3, <4>1, <4>2 DEF Counted, Counts
      <3>4. CASE q # r
        BY <3>1, <3>4 DEF Counted, Counts
      <3>5. QED
        BY <3>3, <3>4
    <2>2. own \subseteq Reads \X (1..PoolSize + 1)
      BY <1>1, PoolAssumption
    <2>3. QED
      BY <2>1, <2>2 DEF Counted
  <1>3. Counted(e) \cap own = {}
    <2> SUFFICES ASSUME NEW c \in Counted(e), c \in own PROVE FALSE
      OBVIOUS
    <2>1. c[1] = r /\ c[2] \in 1..f[r] /\ c[2] <= e[c[1]] /\ e[r] = 0
      BY DEF Counted, Counts
    <2>2. QED
      BY <1>1, <2>1
  <1>4. IsFiniteSet(own) /\ Cardinality(own) = f[r]
    <2>1. IsFiniteSet({r}) /\ Cardinality({r}) = 1
      BY FS_Singleton
    <2>2. IsFiniteSet(1..f[r]) /\ Cardinality(1..f[r]) = f[r]
      BY <1>1, FS_Interval
    <2>3. IsFiniteSet(own) /\ Cardinality(own) = 1 * f[r]
      BY <2>1, <2>2, FS_Product
    <2>4. QED
      BY <1>1, <2>3
  <1>5. Cardinality(Counted(e) \cup own)
          = Cardinality(Counted(e)) + Cardinality(own)
              - Cardinality(Counted(e) \cap own)
    BY <1>4, CountedFinite, FS_Union
  <1>6. Cardinality(Counted(e) \cap own) = 0
    BY <1>3, FS_EmptySet
  <1>7. Cardinality(Counted(e)) \in Nat
    BY CountedFinite DEF SumOver
  <1>8. QED
    BY <1>1, <1>2, <1>4, <1>5, <1>6, <1>7 DEF SumOver

(* When only one read's count changes, the sum changes with it.            *)
LEMMA CountChange ==
  ASSUME NEW f \in Counts, NEW g \in Counts, NEW r \in Reads,
         \A q \in Reads \ {r} : g[q] = f[q]
  PROVE  /\ SumOver(f) \in Nat /\ SumOver(g) \in Nat
         /\ SumOver(g) + f[r] = SumOver(f) + g[r]
         /\ f[r] <= SumOver(f)
  <1>1. [f EXCEPT ![r] = 0] = [g EXCEPT ![r] = 0]
    BY DEF Counts
  <1>2. /\ SumOver(f) = SumOver([f EXCEPT ![r] = 0]) + f[r]
        /\ SumOver(g) = SumOver([g EXCEPT ![r] = 0]) + g[r]
    BY CountOne
  <1>3. /\ SumOver([f EXCEPT ![r] = 0]) \in Nat
        /\ SumOver(f) \in Nat /\ SumOver(g) \in Nat
    BY CountedFinite
  <1>4. f[r] \in Nat /\ g[r] \in Nat
    BY PoolAssumption DEF Counts
  <1>5. QED
    BY <1>1, <1>2, <1>3, <1>4

(* No connection in all is none for any read.                              *)
LEMMA CountNone ==
  ASSUME NEW f \in Counts
  PROVE  SumOver(f) = 0 <=> \A r \in Reads : f[r] = 0
  <1>1. SumOver(f) = 0 <=> Counted(f) = {}
    BY CountedFinite, FS_EmptySet DEF SumOver
  <1>2. ASSUME NEW r \in Reads, f[r] # 0
        PROVE  <<r, 1>> \in Counted(f)
    <2>1. f[r] \in 1..PoolSize + 1
      BY <1>2, PoolAssumption DEF Counts
    <2>2. 1 \in 1..PoolSize + 1
      BY PoolAssumption
    <2>3. QED
      BY <2>1, <2>2 DEF Counted
  <1>3. ASSUME \A r \in Reads : f[r] = 0
        PROVE  Counted(f) = {}
    BY <1>3, PoolAssumption DEF Counted
  <1>4. QED
    BY <1>1, <1>2, <1>3

-----------------------------------------------------------------------------
(* ReadPool: no connection is lost.                                        *)

HeldBy == [r \in Reads |-> Held(r)]

(* No read is counted more often than the pool has connections and one.    *)
LEMMA PoolCounts ==
  ASSUME PoolTypes
  PROVE  /\ HeldBy \in Counts /\ running \in Counts
         /\ \A r \in Reads : Held(r) \in 0..2
  <1>1. \A r \in Reads : Held(r) \in 0..2
    BY DEF Held
  <1>2. \A n \in 0..2 : n \in 0..PoolSize + 1
    BY PoolAssumption
  <1>3. \A n \in 0..PoolSize : n \in 0..PoolSize + 1
    BY PoolAssumption
  <1>4. QED
    BY <1>1, <1>2, <1>3 DEF PoolTypes, HeldBy, Counts

(* A read goes on, and the pool has what it gives back or takes.           *)
LEMMA ReaderStep ==
  ASSUME PoolInv, NEW r \in Reads, NEW s \in ReadStates,
         reader' = [reader EXCEPT ![r] = s],
         free' \in Nat, free' + Held(r)' = free + Held(r),
         UNCHANGED <<waiting, running, closing, received>>,
         failed' \in [Reads -> BOOLEAN], cancelled' \in [Reads -> BOOLEAN],
         unstarted' \in [Reads -> 0..PairsPerRead],
         \A q \in Reads \ {r} : unstarted'[q] = unstarted[q],
         s # "tags" => /\ unstarted'[r] = 0 /\ waiting[r] = 0
                       /\ running[r] = 0
  PROVE  PoolInv'
  <1>1. PoolTypes /\ ConnectionsConserved
    BY DEF PoolInv, ConnectionsConserved
  <1>2. /\ reader' \in [Reads -> ReadStates] /\ reader'[r] = s
        /\ \A q \in Reads \ {r} : reader'[q] = reader[q]
    BY <1>1 DEF PoolTypes
  <1>3. \A q \in Reads : Held(q)' \in 0..2
    BY DEF Held
  <1>4. HeldBy' \in Counts /\ \A q \in Reads \ {r} : HeldBy'[q] = HeldBy[q]
    <2>1. \A n \in 0..2 : n \in 0..PoolSize + 1
      BY PoolAssumption
    <2>2. HeldBy' \in Counts
      BY <1>3, <2>1 DEF HeldBy, Counts
    <2>3. QED
      BY <1>2, <2>2 DEF HeldBy, Held
  <1>5. /\ SumOver(HeldBy) \in Nat /\ SumOver(HeldBy') \in Nat
        /\ SumOver(HeldBy') + Held(r) = SumOver(HeldBy) + Held(r)'
    BY <1>1, <1>4, PoolCounts, CountChange DEF HeldBy
  <1>6. SumOver(running) \in Nat /\ received \in Nat /\ free \in Nat
        /\ Held(r) \in Nat /\ Held(r)' \in Nat
    BY <1>1, <1>3, CountedFinite, PoolCounts, PoolAssumption DEF PoolTypes
  <1>7. free' + received + SumOver(running) + SumOver(HeldBy') = PoolSize
    BY <1>1, <1>5, <1>6, PoolAssumption DEF ConnectionsConserved, HeldBy
  <1>8. PoolTypes'
    BY <1>1, <1>2, <1>5, <1>6, <1>7, PoolAssumption DEF PoolTypes
  <1>9. closing = "closed" => received = PoolSize
    BY DEF PoolInv
  <1>10. closing' = "closed" => \A q \in Reads :
           reader'[q] \in {"idle", "waits", "answered", "error"}
    <2> SUFFICES ASSUME closing' = "closed"
                 PROVE  \A q \in Reads :
                          reader'[q] \in {"idle", "waits", "answered", "error"}
      OBVIOUS
    <2>1. SumOver(HeldBy') = 0
      BY <1>5, <1>6, <1>7, <1>9
    <2>2. \A q \in Reads : Held(q)' = 0
      BY <1>4, <2>1, CountNone DEF HeldBy
    <2>3. QED
      BY <1>2, <2>2 DEF Held, Holding, ReadStates
  <1>11. \A q \in Reads : reader'[q] # "tags" =>
           unstarted'[q] = 0 /\ waiting[q] = 0 /\ running[q] = 0
    BY <1>1, <1>2 DEF ConnectionsConserved
  <1>12. ConnectionsConserved'
    BY <1>7, <1>8, <1>10, <1>11 DEF ConnectionsConserved, HeldBy
  <1>13. QED
    BY <1>12 DEF PoolInv

(* A goroutine of a read starts, takes a connection, gives it back or      *)
(* gives up.                                                               *)
LEMMA GroupStep ==
  ASSUME PoolInv, NEW r \in Reads, reader[r] = "tags",
         free' \in Nat, free' + running'[r] = free + running[r],
         UNCHANGED <<reader, cancelled, closing, received>>,
         failed' \in [Reads -> BOOLEAN],
         unstarted' \in [Reads -> 0..PairsPerRead],
         waiting' \in [Reads -> 0..PoolSize],
         running' \in [Reads -> 0..PoolSize],
         waiting'[r] + running'[r] <= PoolSize,
         \A q \in Reads \ {r} : /\ unstarted'[q] = unstarted[q]
                               /\ waiting'[q] = waiting[q]
                               /\ running'[q] = running[q]
  PROVE  PoolInv'
  <1>1. PoolTypes /\ ConnectionsConserved
    BY DEF PoolInv, ConnectionsConserved
  <1>2. running' \in Counts /\ running \in Counts
    <2>1. \A n \in 0..PoolSize : n \in 0..PoolSize + 1
      BY PoolAssumption
    <2>2. QED
      BY <1>1, <2>1 DEF Counts, PoolTypes
  <1>3. /\ SumOver(running) \in Nat /\ SumOver(running') \in Nat
        /\ SumOver(running') + running[r] = SumOver(running) + running'[r]
    BY <1>2, CountChange
  <1>4. HeldBy' = HeldBy
    BY DEF HeldBy, Held
  <1>5. SumOver(HeldBy) \in Nat /\ received \in Nat /\ free \in Nat
        /\ running[r] \in Nat /\ running'[r] \in Nat
    BY <1>1, CountedFinite, PoolAssumption DEF PoolTypes
  <1>6. free' + received + SumOver(running') + SumOver(HeldBy) = PoolSize
    BY <1>1, <1>3, <1>5, PoolAssumption DEF ConnectionsConserved, HeldBy
  <1>7. PoolTypes'
    BY <1>1, <1>3, <1>5, <1>6, PoolAssumption DEF PoolTypes
  <1>8. \A q \in Reads : reader'[q] # "tags" =>
          unstarted'[q] = 0 /\ waiting'[q] = 0 /\ running'[q] = 0
    BY <1>1 DEF ConnectionsConserved
  <1>9. closing' = "closed" => \A q \in Reads :
          reader'[q] \in {"idle", "waits", "answered", "error"}
    BY <1>1 DEF ConnectionsConserved
  <1>10. ConnectionsConserved'
    BY <1>4, <1>6, <1>7, <1>8, <1>9 DEF ConnectionsConserved, HeldBy
  <1>11. QED
    BY <1>10 DEF PoolInv

(* Close receives a connection; when it has them all nobody holds one.     *)
LEMMA CloseStep ==
  ASSUME PoolInv, CloseReceives
  PROVE  PoolInv'
  <1>1. PoolTypes /\ ConnectionsConserved
    BY DEF PoolInv, ConnectionsConserved
  <1>2. /\ free \in Nat /\ received \in Nat /\ free > 0
        /\ free' = free - 1 /\ received' = received + 1
        /\ closing' = IF received' = PoolSize THEN "closed" ELSE "closing"
        /\ UNCHANGED <<reader, groupVars, cancelled>>
    BY <1>1, PoolAssumption DEF PoolTypes, CloseReceives, TakeConn
  <1>3. HeldBy' = HeldBy /\ running' = running
    BY <1>2 DEF HeldBy, Held, groupVars
  <1>4. SumOver(running) \in Nat /\ SumOver(HeldBy) \in Nat
    BY CountedFinite
  <1>5. free' + received' + SumOver(running) + SumOver(HeldBy) = PoolSize
    BY <1>1, <1>2, <1>4, PoolAssumption DEF ConnectionsConserved, HeldBy
  <1>6. PoolTypes'
    BY <1>1, <1>2, <1>4, <1>5, PoolAssumption DEF PoolTypes, groupVars
  <1>7. closing' = "closed" => \A q \in Reads :
          reader'[q] \in {"idle", "waits", "answered", "error"}
    <2> SUFFICES ASSUME closing' = "closed"
                 PROVE  \A q \in Reads :
                          reader[q] \in {"idle", "waits", "answered", "error"}
      BY <1>2
    <2>1. received' = PoolSize
      BY <1>2
    <2>2. SumOver(HeldBy) = 0
      BY <1>2, <1>4, <1>5, <2>1, PoolAssumption
    <2>3. \A q \in Reads : Held(q) = 0
      BY <1>1, <2>2, PoolCounts, CountNone DEF HeldBy
    <2>4. QED
      BY <1>1, <2>3 DEF Held, Holding, PoolTypes, ReadStates
  <1>8. ConnectionsConserved'
    BY <1>1, <1>2, <1>3, <1>5, <1>6, <1>7
       DEF ConnectionsConserved, HeldBy, groupVars
  <1>9. QED
    BY <1>2, <1>8 DEF PoolInv, groupVars

(* The steps that move no connection and no goroutine.                     *)
LEMMA QuietStep ==
  ASSUME PoolInv,
         UNCHANGED <<free, reader, groupVars, received>>,
         cancelled' \in [Reads -> BOOLEAN],
         closing' = closing \/ closing' = "closing"
  PROVE  PoolInv'
  <1>1. PoolTypes /\ ConnectionsConserved
    BY DEF PoolInv, ConnectionsConserved
  <1>2. PoolTypes'
    BY <1>1 DEF PoolTypes, groupVars
  <1>3. HeldBy' = HeldBy /\ running' = running
    BY DEF HeldBy, Held, groupVars
  <1>4. ConnectionsConserved'
    BY <1>1, <1>2, <1>3 DEF ConnectionsConserved, HeldBy, groupVars
  <1>5. QED
    BY <1>4 DEF PoolInv, groupVars

(* All connections are free before the first read.                         *)
LEMMA PoolInitial == PoolInit => PoolInv
  <1> SUFFICES ASSUME PoolInit PROVE PoolInv
    OBVIOUS
  <1>1. PoolTypes
    BY PoolAssumption DEF PoolInit, PoolTypes, ReadStates
  <1>2. HeldBy \in Counts /\ running \in Counts
    BY <1>1, PoolCounts
  <1>3. SumOver(running) = 0 /\ SumOver(HeldBy) = 0
    BY <1>2, CountNone DEF PoolInit, HeldBy, Held, Holding
  <1>4. ConnectionsConserved
    BY <1>1, <1>3, PoolAssumption DEF ConnectionsConserved, HeldBy, PoolInit
  <1>5. QED
    BY <1>4, PoolAssumption DEF PoolInv, PoolInit

(* Whatever a read, one of its goroutines, or Close does with a            *)
(* connection.                                                             *)
LEMMA PoolStep == PoolInv /\ [PoolNext]_poolVars => PoolInv'
  <1> SUFFICES ASSUME PoolInv, [PoolNext]_poolVars PROVE PoolInv'
    OBVIOUS
  <1>1. PoolTypes /\ ConnectionsConserved
    BY DEF PoolInv, ConnectionsConserved
  <1>2. CASE UNCHANGED poolVars
    BY <1>1, <1>2, QuietStep DEF poolVars, groupVars, PoolTypes
  <1>3. CASE CloseReceives
    BY <1>3, CloseStep
  <1>4. CASE CallClose
    BY <1>1, <1>4, QuietStep DEF CallClose, PoolTypes
  <1>5. ASSUME NEW r \in Reads, Cancel(r) PROVE PoolInv'
    <2>1. cancelled' \in [Reads -> BOOLEAN]
      BY <1>1, <1>5 DEF Cancel, PoolTypes
    <2>2. QED
      BY <1>5, <2>1, QuietStep DEF Cancel, closeVars
  <1>6. ASSUME NEW r \in Reads, GetMetadata(r) \/ Proceed(r) PROVE PoolInv'
    <2>1. /\ free \in Nat /\ reader[r] \in ReadStates
          /\ failed \in [Reads -> BOOLEAN] /\ cancelled \in [Reads -> BOOLEAN]
          /\ unstarted \in [Reads -> 0..PairsPerRead]
          /\ reader[r] # "tags" =>
               unstarted[r] = 0 /\ waiting[r] = 0 /\ running[r] = 0
      BY <1>1, PoolAssumption DEF PoolTypes, ConnectionsConserved
    <2>2. ASSUME NEW s \in ReadStates, To(r, s),
                 free' \in Nat, free' + Held(r)' = free + Held(r),
                 UNCHANGED <<groupVars, cancelled, closeVars>>,
                 reader[r] = "tags" =>
                   s = "tags" \/ /\ unstarted[r] = 0 /\ waiting[r] = 0
                                 /\ running[r] = 0
          PROVE  PoolInv'
      BY <2>1, <2>2, ReaderStep DEF To, groupVars, closeVars
    <2>3. \A s \in ReadStates : To(r, s) => reader'[r] = s
      BY <1>1 DEF To, PoolTypes
    <2>4. CASE GetMetadata(r)
      <3>1. "waits" \in ReadStates /\ reader'[r] = "waits"
        BY <2>3, <2>4 DEF ReadStates, GetMetadata
      <3>2. QED
        BY <2>1, <2>2, <2>4, <3>1 DEF GetMetadata, Held, Holding
    <2>5. CASE QueryError(r)
      <3>1. "error" \in ReadStates /\ reader'[r] = "error"
        BY <2>3, <2>5 DEF ReadStates, QueryError
      <3>2. Held(r) \in 0..2 /\ Held(r)' = 0 /\ reader[r] # "tags"
        BY <2>5, <3>1 DEF Held, Holding, QueryError
      <3>3. QED
        BY <2>1, <2>2, <2>5, <3>1, <3>2 DEF QueryError, GiveConns
    <2>6. CASE Acquire(r)
      <3>1. "rows" \in ReadStates /\ reader'[r] = "rows"
        BY <2>3, <2>6 DEF ReadStates, Acquire
      <3>2. QED
        BY <2>1, <2>2, <2>6, <3>1 DEF Acquire, TakeConn, Held, Holding
    <2>7. CASE AcquireCancelled(r)
      <3>1. "error" \in ReadStates /\ reader'[r] = "error"
        BY <2>3, <2>7 DEF ReadStates, AcquireCancelled
      <3>2. QED
        BY <2>1, <2>2, <2>7, <3>1 DEF AcquireCancelled, Held, Holding
    <2>8. CASE BasicRows(r)
      <3>1. "answered" \in ReadStates /\ reader'[r] = "answered"
        BY <2>3, <2>8 DEF ReadStates, BasicRows
      <3>2. QED
        BY <2>1, <2>2, <2>8, <3>1 DEF BasicRows, GiveConns, Held, Holding
    <2>9. CASE LookupFileTags(r)
      <3>1. "tags" \in ReadStates /\ reader'[r] = "tags"
        BY <2>3, <2>9 DEF ReadStates, LookupFileTags
      <3>2. Held(r)' = Held(r)
        BY <2>9, <3>1 DEF LookupFileTags, Held, Holding
      <3>3. /\ unstarted' \in [Reads -> 0..PairsPerRead]
            /\ \A q \in Reads \ {r} : unstarted'[q] = unstarted[q]
        BY <2>1, <2>9, PoolAssumption DEF LookupFileTags
      <3>4. free' \in Nat /\ free' + Held(r)' = free + Held(r)
        BY <2>1, <2>9, <3>2 DEF LookupFileTags
      <3>5. QED
        BY <2>1, <2>9, <3>1, <3>3, <3>4, ReaderStep
           DEF LookupFileTags, To, closeVars
    <2>10. CASE StartPair(r)
      <3>1. reader[r] = "tags"
        BY <2>1, <2>10, PoolAssumption DEF StartPair
      <3>2. QED
        BY <1>1, <2>10, <3>1, PoolAssumption, GroupStep
           DEF StartPair, PoolTypes, closeVars
    <2>11. CASE AcquirePair(r)
      <3>1. reader[r] = "tags"
        BY <2>1, <2>11, PoolAssumption DEF AcquirePair
      <3>2. QED
        BY <1>1, <2>11, <3>1, PoolAssumption, GroupStep
           DEF AcquirePair, TakeConn, PoolTypes, closeVars, PoolInv
    <2>12. CASE AcquirePairCancelled(r)
      <3>1. reader[r] = "tags"
        BY <2>1, <2>12, PoolAssumption DEF AcquirePairCancelled
      <3>2. QED
        BY <1>1, <2>12, <3>1, PoolAssumption, GroupStep
           DEF AcquirePairCancelled, PoolTypes, closeVars, PoolInv
    <2>13. CASE PairEnds(r)
      <3>1. reader[r] = "tags"
        BY <2>1, <2>13, PoolAssumption DEF PairEnds
      <3>2. QED
        BY <1>1, <2>13, <3>1, PoolAssumption, GroupStep
           DEF PairEnds, GiveConns, PoolTypes, closeVars, PoolInv
    <2>14. CASE GroupEnds(r)
      <3>1. CASE failed[r]
        <4>1. "error" \in ReadStates /\ reader'[r] = "error"
          BY <2>3, <2>14, <3>1 DEF ReadStates, GroupEnds
        <4>2. QED
          BY <2>1, <2>2, <2>14, <3>1, <4>1
             DEF GroupEnds, GiveConns, Held, Holding
      <3>2. CASE ~failed[r]
        <4>1. "waitsTags" \in ReadStates /\ reader'[r] = "waitsTags"
          BY <2>3, <2>14, <3>2 DEF ReadStates, GroupEnds
        <4>2. QED
          BY <2>1, <2>2, <2>14, <3>2, <4>1 DEF GroupEnds, Held, Holding
      <3>3. QED
        BY <3>1, <3>2
    <2>15. CASE AcquireTagConn(r)
      <3>1. "names" \in ReadStates /\ reader'[r] = "names"
        BY <2>3, <2>15 DEF ReadStates, AcquireTagConn
      <3>2. QED
        BY <2>1, <2>2, <2>15, <3>1 DEF AcquireTagConn, TakeConn, Held, Holding
    <2>16. CASE NamesResolved(r)
      <3>1. "builds" \in ReadStates /\ reader'[r] = "builds"
        BY <2>3, <2>16 DEF ReadStates, NamesResolved
      <3>2. QED
        BY <2>1, <2>2, <2>16, <3>1 DEF NamesResolved, GiveConns, Held, Holding
    <2>17. CASE AnswerRead(r)
      <3>1. "answered" \in ReadStates /\ reader'[r] = "answered"
        BY <2>3, <2>17 DEF ReadStates, AnswerRead
      <3>2. QED
        BY <2>1, <2>2, <2>17, <3>1 DEF AnswerRead, GiveConns, Held, Holding
    <2>18. QED
      BY <1>6, <2>4, <2>5, <2>6, <2>7, <2>8, <2>9, <2>10, <2>11, <2>12,
         <2>13, <2>14, <2>15, <2>16, <2>17 DEF Proceed
  <1>7. QED
    BY <1>2, <1>3, <1>4, <1>5, <1>6 DEF PoolNext

(* PoolInv holds of every state, for any number of reads, connections and  *)
(* pairs.                                                                  *)
THEOREM PoolInvariant == PoolSpec => []PoolInv
  <1>1. QED
    BY PoolInitial, PoolStep, PTL DEF PoolSpec

(* No connection of the read pool is lost or given back twice              *)
(* (acquireReadConn, releaseReadConn), and when Close has returned nobody  *)
(* holds one.                                                              *)
THEOREM ConnectionsAreConserved == PoolSpec => []ConnectionsConserved
  <1>1. PoolInv => ConnectionsConserved
    BY DEF PoolInv
  <1>2. QED
    BY <1>1, PoolInvariant, PTL

-----------------------------------------------------------------------------
(***************************************************************************)
(* Bootstrap.                                                              *)
(***************************************************************************)

(* The paths of a bundle, in the order in which they are published.        *)
LEMMA PathsAre ==
  /\ DOMAIN Paths = 1..6 /\ Len(Paths) = 6
  /\ \A i \in 1..6 : Paths[i] \in AllPaths
  /\ \A p \in AllPaths : \E i \in 1..6 : p = Paths[i]
  /\ RequiredFiles \subseteq AllPaths /\ Paths[1] \in RequiredFiles
  <1>1. DOMAIN Paths = 1..6 /\ Len(Paths) = 6
    BY DEF Paths
  <1>2. QED
    BY <1>1 DEF AllPaths, RequiredFiles

(* Of two daemons that have the lock's stages, and no stale lock taken     *)
(* over, one is the other; and a bundle that is bootstrapped leaves nobody *)
(* at work.                                                                *)
LEMMA OneAtWork ==
  ASSUME BootInv, ~takenOver, NEW d \in Daemons, stage[d] \in Locked
  PROVE  /\ \A e \in Daemons \ {d} : stage[e] \notin Locked
         /\ stage[d] \in Working =>
              \A e \in Daemons : stage[e] # "bootstrapped"
  <1>1. LockInv /\ OwnInv /\ BootstrappedStays
    BY DEF BootInv
  <1>2. \A e \in Daemons \ {d} : stage[e] \notin Locked
    BY <1>1 DEF LockInv
  <1>3. ASSUME stage[d] \in Working, NEW e \in Daemons,
               stage[e] = "bootstrapped"
        PROVE  FALSE
    <2>1. PICK p \in AllPaths : TRUE
      BY PathsAre
    <2>2. disk[p] \in {Absent, d} /\ disk[p] = e
      BY <1>1, <1>3 DEF OwnInv, BootstrappedStays
    <2>3. e # d /\ e # Absent
      BY <1>3, BootAssumption DEF Working, Absent
    <2>4. QED
      BY <2>2, <2>3
  <1>4. QED
    BY <1>2, <1>3

(* A daemon goes to a stage without the lock, or crashes; it may leave the *)
(* lock file where none was.                                               *)
LEMMA OutsideStep ==
  ASSUME BootInv, NEW d \in Daemons, NEW s \in Stages \ Locked,
         s # "bootstrapped",
         stage' = [stage EXCEPT ![d] = s],
         UNCHANGED <<at, result, disk, takenOver>>,
         lock' \in Daemons \cup {Absent}, lock' # lock => lock = Absent,
         stale' \in BOOLEAN, spoilt' \in BOOLEAN, companions' \in BOOLEAN,
         starts' \in 0..MaxStarts,
         spoilt => spoilt', stage[d] \in Changing => spoilt'
  PROVE  BootInv'
  <1>1. /\ BootTypes /\ LockInv /\ OwnInv /\ ProgressInv
        /\ BootstrappedStays /\ WholeInv
    BY DEF BootInv
  <1>2. /\ stage' \in [Daemons -> Stages] /\ stage'[d] = s
        /\ \A e \in Daemons \ {d} : stage'[e] = stage[e]
    BY <1>1 DEF BootTypes
  <1>3. /\ s # "staging" /\ s \notin {"checks", "moves"} /\ s # "verifies"
        /\ s # "cleans" /\ s # "unlocks" /\ s \notin Working
    BY DEF Locked, Working
  <1>4. BootTypes'
    BY <1>1, <1>2 DEF BootTypes
  <1>5. LockInv'
    BY <1>1, <1>2, BootAssumption DEF LockInv, Absent
  <1>6. OwnInv'
    BY <1>1, <1>2, <1>3 DEF OwnInv
  <1>7. ProgressInv'
    BY <1>1, <1>2, <1>3 DEF ProgressInv
  <1>8. BootstrappedStays'
    BY <1>1, <1>2 DEF BootstrappedStays
  <1>9. WholeInv'
    <2>1. Present' = Present
      BY DEF Present
    <2>2. QED
      BY <1>1, <1>2, <2>1 DEF WholeInv
  <1>10. QED
    BY <1>4, <1>5, <1>6, <1>7, <1>8, <1>9 DEF BootInv

(* A daemon that has the lock goes on.                                     *)
LEMMA LockedStep ==
  ASSUME BootInv, NEW d \in Daemons, NEW s \in Locked,
         stage[d] \in Locked,
         stage' = [stage EXCEPT ![d] = s],
         UNCHANGED <<lock, stale, takenOver, starts>>,
         spoilt' \in BOOLEAN, spoilt => spoilt', companions' \in BOOLEAN,
         at' \in [Daemons -> DOMAIN Paths], result' \in [Daemons -> Ends],
         disk' \in [AllPaths -> Daemons \cup {Absent}],
         disk' # disk => stage[d] \in Working,
         ~takenOver =>
           /\ s \in Working => \A p \in AllPaths : disk'[p] \in {Absent, d}
           /\ s = "staging" => \A p \in AllPaths : disk'[p] = Absent
           /\ s \in {"checks", "moves"} =>
                \A i \in 1..(at'[d] - 1) : disk'[Paths[i]] = d
           /\ s = "verifies" => \A p \in AllPaths : disk'[p] = d
           /\ s = "cleans" /\ ~spoilt' =>
                \A i \in 1..(at'[d] - 1) : disk'[Paths[i]] = Absent
           /\ s = "unlocks" /\ result'[d] = "bootstrapped" =>
                \A p \in AllPaths : disk'[p] = d
           /\ s \notin Changing /\ ~spoilt' =>
                \/ stage[d] \notin Changing /\ disk' = disk
                \/ \A p \in AllPaths : disk'[p] = Absent
                \/ \A p \in AllPaths : disk'[p] # Absent
  PROVE  BootInv'
  <1>1. /\ BootTypes /\ LockInv /\ OwnInv /\ ProgressInv
        /\ BootstrappedStays /\ WholeInv
    BY DEF BootInv
  <1>2. /\ stage' \in [Daemons -> Stages] /\ stage'[d] = s
        /\ \A e \in Daemons \ {d} : stage'[e] = stage[e]
    BY <1>1 DEF BootTypes, Stages
  <1>3. ~takenOver => \A e \in Daemons \ {d} : stage'[e] \notin Locked
    BY <1>2, OneAtWork
  <1>4. \A t : t \in Working => t \in Locked
    BY DEF Working, Locked
  <1>5. BootTypes'
    BY <1>1, <1>2 DEF BootTypes
  <1>6. LockInv'
    BY <1>1, <1>2 DEF LockInv
  <1>7. OwnInv'
    BY <1>2, <1>3, <1>4 DEF OwnInv
  <1>8. ProgressInv'
    <2> SUFFICES ASSUME ~takenOver', NEW e \in Daemons
                 PROVE
      /\ stage'[e] = "staging" => \A p \in AllPaths : disk'[p] = Absent
      /\ stage'[e] \in {"checks", "moves"} =>
           \A i \in 1..(at'[e] - 1) : disk'[Paths[i]] = e
      /\ stage'[e] = "verifies" => \A p \in AllPaths : disk'[p] = e
      /\ stage'[e] = "cleans" /\ ~spoilt' =>
           \A i \in 1..(at'[e] - 1) : disk'[Paths[i]] = Absent
      /\ stage'[e] = "unlocks" /\ result'[e] = "bootstrapped" =>
           \A p \in AllPaths : disk'[p] = e
      BY DEF ProgressInv
    <2>1. CASE e = d
      BY <1>2, <2>1
    <2>2. CASE e # d
      BY <1>3, <2>2 DEF Locked
    <2>3. QED
      BY <2>1, <2>2
  <1>9. BootstrappedStays'
    <2> SUFFICES ASSUME NEW e \in Daemons, stage'[e] = "bootstrapped",
                        ~takenOver
                 PROVE  \A p \in AllPaths : disk'[p] = e
      BY DEF BootstrappedStays
    <2>1. e # d /\ stage[e] = "bootstrapped"
      BY <1>2 DEF Locked
    <2>2. disk' = disk
      BY <2>1, OneAtWork
    <2>3. QED
      BY <1>1, <2>1, <2>2 DEF BootstrappedStays
  <1>10. WholeInv'
    <2> SUFFICES ASSUME ~takenOver, ~spoilt, ~spoilt',
                        \A e \in Daemons : stage'[e] \notin Changing
                 PROVE  Present' = {} \/ Present' = AllPaths
      BY DEF WholeInv
    <2>1. s \notin Changing
      BY <1>2
    <2>2. CASE stage[d] \notin Changing /\ disk' = disk
      BY <1>1, <1>2, <2>2 DEF WholeInv, Present
    <2>3. CASE \A p \in AllPaths : disk'[p] = Absent
      BY <2>3 DEF Present
    <2>4. CASE \A p \in AllPaths : disk'[p] # Absent
      BY <2>4 DEF Present
    <2>5. QED
      BY <2>1, <2>2, <2>3, <2>4
  <1>11. QED
    BY <1>5, <1>6, <1>7, <1>8, <1>9, <1>10 DEF BootInv

(* The steps of one daemon without the lock, or at the lock file.          *)
LEMMA UnlockedSteps ==
  ASSUME BootInv, NEW d \in Daemons,
         \/ EnsureFreshClientBundle(d) \/ Inspect(d) \/ CreateLock(d)
         \/ FindStaleLock(d) \/ RemoveStaleLock(d) \/ NoLock(d)
         \/ Unlock(d) \/ BootCrash(d)
  PROVE  BootInv'
  <1>1. /\ BootTypes /\ LockInv /\ OwnInv /\ ProgressInv
        /\ BootstrappedStays /\ WholeInv
    BY DEF BootInv
  <1>2. /\ stale \in BOOLEAN /\ spoilt \in BOOLEAN /\ companions \in BOOLEAN
        /\ starts \in 0..MaxStarts /\ lock \in Daemons \cup {Absent}
        /\ stage[d] \in Stages /\ result[d] \in Ends
    BY <1>1 DEF BootTypes
  <1>3. /\ {"inspects", "locks", "steals", "ready", "refused", "noLock",
            "stopped"} \subseteq Stages \ Locked
        /\ Ends \subseteq Stages \ Locked
    BY DEF Stages, Locked, Ends
  <1>4. CASE EnsureFreshClientBundle(d)
    <2>1. starts' \in 0..MaxStarts
      BY <1>2, <1>4, BootAssumption DEF EnsureFreshClientBundle
    <2>2. stage[d] \notin Changing
      BY <1>4 DEF EnsureFreshClientBundle, Ends, Changing, Working
    <2>3. QED
      BY <1>2, <1>3, <1>4, <2>1, <2>2, OutsideStep
         DEF EnsureFreshClientBundle, Goes, lockFile
  <1>5. CASE Inspect(d)
    <2>1. stage[d] \notin Changing
      BY <1>5 DEF Inspect, Changing, Working
    <2>2. \/ Goes(d, "ready") \/ Goes(d, "locks") \/ Goes(d, "refused")
      BY <1>5, Zenon DEF Inspect
    <2>3. UNCHANGED <<at, result, disk, companions, lock, stale, takenOver,
                      spoilt, starts>>
      BY <1>5 DEF Inspect, lockFile, history
    <2>4. QED
      BY <1>2, <1>3, <2>1, <2>2, <2>3, OutsideStep DEF Goes
  <1>6. CASE FindStaleLock(d) \/ NoLock(d)
    <2>1. stage[d] \notin Changing
      BY <1>6 DEF FindStaleLock, NoLock, Changing, Working
    <2>2. Goes(d, "steals") \/ Goes(d, "noLock")
      BY <1>6 DEF FindStaleLock, NoLock
    <2>3. /\ UNCHANGED <<at, result, disk, companions, takenOver, spoilt,
                         starts>>
          /\ \/ UNCHANGED <<lock, stale>>
             \/ lock = Absent /\ lock' = d
          /\ stale' \in BOOLEAN
      BY <1>2, <1>6 DEF FindStaleLock, NoLock, lockFile, history
    <2>4. QED
      BY <1>2, <1>3, <2>1, <2>2, <2>3, OutsideStep DEF Goes
  <1>7. CASE BootCrash(d)
    <2>1. stage[d] \in Changing => spoilt'
      BY <1>7 DEF BootCrash, Changing, Working
    <2>2. spoilt' \in BOOLEAN /\ (spoilt => spoilt') /\ companions' \in BOOLEAN
      BY <1>2, <1>7 DEF BootCrash
    <2>3. QED
      BY <1>2, <1>3, <1>7, <2>1, <2>2, OutsideStep
         DEF BootCrash, Goes, lockFile
  <1>8. CASE RemoveStaleLock(d)
    <2>1. takenOver' = TRUE
      BY <1>8 DEF RemoveStaleLock
    <2>2. BootTypes'
      BY <1>1, <1>3, <1>8 DEF BootTypes, RemoveStaleLock, Goes
    <2>3. QED
      BY <2>1, <2>2 DEF BootInv, LockInv, OwnInv, ProgressInv,
                        BootstrappedStays, WholeInv
  <1>9. CASE CreateLock(d)
    <2>1. /\ stage' = [stage EXCEPT ![d] = "locked"] /\ lock' = d
          /\ stage[d] = "locks" /\ lock = Absent /\ stale' = FALSE
          /\ UNCHANGED <<at, result, disk, companions, takenOver, spoilt,
                         starts>>
      BY <1>9 DEF CreateLock, Goes, history
    <2>2. /\ "locked" \in Stages /\ "locked" \notin Working
          /\ "locked" # "bootstrapped"
      BY DEF Stages, Locked, Working
    <2>3. /\ stage' \in [Daemons -> Stages] /\ stage'[d] = "locked"
          /\ \A e \in Daemons \ {d} : stage'[e] = stage[e]
      BY <1>1, <2>1, <2>2 DEF BootTypes
    <2>4. ~takenOver => \A e \in Daemons : stage[e] \notin Locked
      BY <1>1, <2>1, BootAssumption DEF LockInv, Absent
    <2>5. BootTypes'
      BY <1>1, <2>1, <2>3 DEF BootTypes
    <2>6. LockInv'
      BY <2>1, <2>3, <2>4 DEF LockInv
    <2>7. OwnInv'
      BY <1>1, <2>1, <2>2, <2>3 DEF OwnInv
    <2>8. ProgressInv'
      BY <1>1, <2>1, <2>3 DEF ProgressInv
    <2>9. BootstrappedStays'
      BY <1>1, <2>1, <2>2, <2>3 DEF BootstrappedStays
    <2>10. WholeInv'
      <3>1. Present' = Present /\ stage[d] \notin Changing
        BY <2>1 DEF Present, Changing, Working
      <3>2. QED
        BY <1>1, <2>1, <2>3, <3>1 DEF WholeInv
    <2>11. QED
      BY <2>5, <2>6, <2>7, <2>8, <2>9, <2>10 DEF BootInv
  <1>10. ASSUME stage[d] = "unlocks", lock' = Absent, stale' = FALSE,
                Goes(d, result[d]),
                UNCHANGED <<at, result, disk, companions, history>>
         PROVE  BootInv'
    <2>1. /\ stage' = [stage EXCEPT ![d] = result[d]] /\ lock' = Absent
          /\ stage[d] = "unlocks" /\ stale' = FALSE
          /\ UNCHANGED <<at, result, disk, companions, takenOver, spoilt,
                         starts>>
      BY <1>10 DEF Goes, history
    <2>2. result[d] \in Stages \ Locked
      BY <1>2, <1>3
    <2>3. /\ stage' \in [Daemons -> Stages] /\ stage'[d] = result[d]
          /\ \A e \in Daemons \ {d} : stage'[e] = stage[e]
      BY <1>1, <2>1, <2>2 DEF BootTypes
    <2>4. stage[d] \in Locked /\ stage[d] \notin Changing
      BY <2>1 DEF Locked, Changing, Working
    <2>5. ~takenOver => \A e \in Daemons : stage'[e] \notin Locked
      BY <2>2, <2>3, <2>4, OneAtWork
    <2>6. BootTypes'
      BY <1>1, <2>1, <2>3 DEF BootTypes
    <2>7. \A t : t \in Working => t \in Locked
      BY DEF Working, Locked
    <2>8. LockInv' /\ OwnInv'
      BY <2>1, <2>5, <2>7 DEF LockInv, OwnInv
    <2>9. ProgressInv'
      BY <2>1, <2>5 DEF ProgressInv, Locked
    <2>10. BootstrappedStays'
      BY <1>1, <2>1, <2>3 DEF BootstrappedStays, ProgressInv
    <2>11. WholeInv'
      <3>1. Present' = Present
        BY <2>1 DEF Present
      <3>2. QED
        BY <1>1, <2>1, <2>3, <2>4, <3>1 DEF WholeInv
    <2>12. QED
      BY <2>6, <2>8, <2>9, <2>10, <2>11 DEF BootInv
  <1>11. CASE Unlock(d)
    <2>1. stage[d] = "unlocks" /\ UNCHANGED <<at, result, disk, companions,
                                              takenOver, spoilt, starts>>
      BY <1>11 DEF Unlock, history
    <2>2. CASE lock' = Absent /\ stale' = FALSE /\ Goes(d, result[d])
      BY <1>10, <2>1, <2>2 DEF history
    <2>3. CASE /\ UNCHANGED lockFile
               /\ Goes(d, IF result[d] \in {"ready", "bootstrapped"}
                          THEN "failed" ELSE result[d])
      <3>1. PICK s \in Stages \ Locked :
              s # "bootstrapped" /\ stage' = [stage EXCEPT ![d] = s]
        <4>1. CASE result[d] \in {"ready", "bootstrapped"}
          BY <1>3, <2>3, <4>1 DEF Goes, Ends
        <4>2. CASE result[d] \notin {"ready", "bootstrapped"}
          BY <1>2, <1>3, <2>3, <4>2 DEF Goes
        <4>3. QED
          BY <4>1, <4>2
      <3>2. stage[d] \notin Changing /\ UNCHANGED <<lock, stale>>
        BY <2>1, <2>3 DEF Changing, Working, lockFile
      <3>3. QED
        BY <1>2, <2>1, <3>1, <3>2, OutsideStep
    <2>4. QED
      BY <1>11, <2>2, <2>3 DEF Unlock
  <1>12. QED
    BY <1>4, <1>5, <1>6, <1>7, <1>8, <1>9, <1>11

(* The steps of the daemon that has the lock.                              *)
LEMMA LockedSteps ==
  ASSUME BootInv, NEW d \in Daemons,
         \/ InspectLocked(d) \/ CreateStaged(d) \/ CreateFails(d)
         \/ EnsureTargetMissing(d) \/ MoveIntoPlace(d) \/ RenameFails(d)
         \/ Verify(d) \/ VerifyFails(d) \/ FailWithoutCleanup(d)
         \/ CleanupPath(d) \/ CleanupGivesUp(d)
  PROVE  BootInv'
  <1>1. /\ BootTypes /\ LockInv /\ OwnInv /\ ProgressInv
        /\ BootstrappedStays /\ WholeInv
    BY DEF BootInv
  <1>2. /\ at \in [Daemons -> 1..6] /\ result \in [Daemons -> Ends]
        /\ disk \in [AllPaths -> Daemons \cup {Absent}]
        /\ DOMAIN Paths = 1..6 /\ Len(Paths) = 6 /\ at[d] \in 1..6
        /\ Paths[at[d]] \in AllPaths
        /\ \A p \in AllPaths : \E i \in 1..6 : p = Paths[i]
    BY <1>1, PathsAre DEF BootTypes
  <1>3. /\ {"ready", "refused", "bootstrapped", "failed"} \subseteq Ends
        /\ {"staging", "checks", "moves", "verifies", "cleans", "unlocks"}
             \subseteq Locked
        /\ Working \subseteq Locked
    BY DEF Ends, Locked, Working
  <1>4. /\ UNCHANGED <<lock, stale, takenOver, starts>>
        /\ spoilt \in BOOLEAN /\ companions' \in BOOLEAN
        /\ spoilt' \in BOOLEAN /\ (spoilt => spoilt')
    BY <1>1 DEF InspectLocked, CreateStaged, CreateFails, EnsureTargetMissing,
           MoveIntoPlace, RenameFails, Verify, VerifyFails,
           FailWithoutCleanup, CleanupPath, CleanupUpTo, CleanupGivesUp,
           lockFile, history, BootTypes
  <1>5. CASE InspectLocked(d)
    <2>1. stage[d] = "locked" /\ UNCHANGED <<at, disk>>
      BY <1>5 DEF InspectLocked
    <2>2. stage[d] \in Locked /\ stage[d] \notin Changing
      BY <2>1 DEF Locked, Changing, Working
    <2>3. \/ Returns(d, "ready") \/ Returns(d, "refused")
          \/ Goes(d, "staging") /\ UNCHANGED result /\ BundleState = "empty"
      BY <1>5, Zenon DEF InspectLocked
    <2>4. CASE Returns(d, "ready") \/ Returns(d, "refused")
      <3>1. /\ stage' = [stage EXCEPT ![d] = "unlocks"]
            /\ result' \in [Daemons -> Ends] /\ result'[d] # "bootstrapped"
        BY <1>2, <1>3, <2>4 DEF Returns, Goes
      <3>2. "unlocks" \in Locked /\ "unlocks" \notin Working
        BY DEF Locked, Working
      <3>3. QED
        BY <1>2, <1>4, <2>1, <2>2, <3>1, <3>2, LockedStep
    <2>5. CASE Goes(d, "staging") /\ UNCHANGED result /\ BundleState = "empty"
      <3>1. Present = {}
        <4>1. CASE RequiredFiles \subseteq Present
          <5>1. Present # {}
            BY <4>1, PathsAre
          <5>2. RequiredFiles \cap Present # {}
            BY <4>1, PathsAre
          <5>3. BundleState = "ready"
            BY <4>1, <5>1, <5>2, Zenon DEF BundleState
          <5>4. QED
            BY <2>5, <5>3
        <4>2. CASE /\ ~(RequiredFiles \subseteq Present)
                   /\ RequiredFiles \cap Present # {}
          <5>1. BundleState = "partial"
            BY <4>2, PathsAre DEF BundleState
          <5>2. QED
            BY <2>5, <5>1
        <4>3. CASE /\ ~(RequiredFiles \subseteq Present)
                   /\ RequiredFiles \cap Present = {} /\ Present # {}
          <5>1. BundleState = "nonEmpty"
            BY <4>3 DEF BundleState
          <5>2. QED
            BY <2>5, <5>1
        <4>4. QED
          BY <4>1, <4>2, <4>3
      <3>2. \A p \in AllPaths : disk[p] = Absent
        BY <3>1 DEF Present
      <3>3. QED
        BY <1>2, <1>3, <1>4, <2>1, <2>2, <2>5, <3>2, LockedStep DEF Goes
    <2>6. QED
      BY <2>3, <2>4, <2>5
  <1>6. CASE CreateStaged(d) \/ CreateFails(d)
    <2>1. /\ stage[d] = "staging" /\ at' = [at EXCEPT ![d] = 1]
          /\ UNCHANGED <<result, disk>>
          /\ Goes(d, "checks") \/ Goes(d, "cleans")
      BY <1>6 DEF CreateStaged, CreateFails
    <2>2. at' \in [Daemons -> 1..6] /\ at'[d] = 1
      BY <1>2, <2>1
    <2>3. stage[d] \in Locked /\ stage[d] \in Working
      BY <2>1 DEF Locked, Working
    <2>4. ~takenOver => \A p \in AllPaths : disk[p] = Absent
      BY <1>1, <2>1 DEF ProgressInv
    <2>5. {"checks", "cleans"} \subseteq Changing
      BY DEF Changing, Working
    <2>6. \A i \in 1..(at'[d] - 1) : FALSE
      BY <2>2
    <2>7. QED
      BY <1>2, <1>3, <1>4, <2>1, <2>2, <2>3, <2>4, <2>5, <2>6, LockedStep
         DEF Goes
  <1>7. ASSUME stage[d] \in {"checks", "moves"}, MoveFails(d),
               UNCHANGED result
        PROVE  BootInv'
    <2>1. /\ stage' = [stage EXCEPT ![d] = "cleans"]
          /\ at' = [at EXCEPT ![d] = 1]
          /\ \E removed :
               disk' = [p \in AllPaths |->
                          IF p \in removed THEN Absent ELSE disk[p]]
      BY <1>7 DEF MoveFails, Goes
    <2>2. /\ at' \in [Daemons -> 1..6] /\ at'[d] = 1
          /\ disk' \in [AllPaths -> Daemons \cup {Absent}]
          /\ \A p \in AllPaths : disk'[p] \in {Absent, disk[p]}
      BY <1>2, <2>1
    <2>3. stage[d] \in Working /\ "cleans" \in Changing
      BY <1>7 DEF Working, Changing
    <2>4. ~takenOver => \A p \in AllPaths : disk'[p] \in {Absent, d}
      BY <1>1, <2>2, <2>3 DEF OwnInv
    <2>5. \A i \in 1..(at'[d] - 1) : FALSE
      BY <2>2
    <2>6. QED
      BY <1>2, <1>3, <1>4, <1>7, <2>1, <2>2, <2>3, <2>4, <2>5, LockedStep
  <1>8. CASE EnsureTargetMissing(d)
    <2>1. stage[d] = "checks" /\ UNCHANGED result
      BY <1>8 DEF EnsureTargetMissing
    <2>2. CASE MoveFails(d)
      BY <1>7, <2>1, <2>2
    <2>3. CASE Goes(d, "moves") /\ UNCHANGED <<at, disk>>
      <3>1. stage[d] \in Working /\ "moves" \in Changing
        BY <2>1 DEF Working, Changing
      <3>2. ~takenOver =>
              /\ \A p \in AllPaths : disk'[p] \in {Absent, d}
              /\ \A i \in 1..(at'[d] - 1) : disk'[Paths[i]] = d
        BY <1>1, <2>1, <2>3, <3>1 DEF OwnInv, ProgressInv
      <3>3. QED
        BY <1>2, <1>3, <1>4, <2>1, <2>3, <3>1, <3>2, LockedStep DEF Goes
    <2>4. QED
      BY <1>8, <2>2, <2>3 DEF EnsureTargetMissing
  <1>9. CASE MoveIntoPlace(d)
    <2>1. /\ stage[d] = "moves" /\ UNCHANGED result
          /\ disk' = [disk EXCEPT ![Paths[at[d]]] = d]
      BY <1>9 DEF MoveIntoPlace
    <2>2. stage[d] \in Working
      BY <2>1 DEF Working
    <2>3. disk' \in [AllPaths -> Daemons \cup {Absent}]
      BY <1>2, <2>1
    <2>4. ~takenOver =>
            /\ \A p \in AllPaths : disk'[p] \in {Absent, d}
            /\ \A i \in 1..at[d] : disk'[Paths[i]] = d
      <3> SUFFICES ASSUME ~takenOver
                   PROVE  /\ \A p \in AllPaths : disk'[p] \in {Absent, d}
                          /\ \A i \in 1..at[d] : disk'[Paths[i]] = d
        OBVIOUS
      <3>1. \A p \in AllPaths : disk'[p] \in {Absent, d}
        BY <1>1, <1>2, <2>1, <2>2 DEF OwnInv
      <3>2. ASSUME NEW i \in 1..at[d] PROVE disk'[Paths[i]] = d
        <4>1. i \in 1..6 /\ Paths[i] \in AllPaths
          BY <1>2, PathsAre
        <4>2. i = at[d] \/ i \in 1..(at[d] - 1)
          BY <1>2
        <4>3. i \in 1..(at[d] - 1) => disk[Paths[i]] = d
          BY <1>1, <2>1 DEF ProgressInv
        <4>4. QED
          BY <1>2, <2>1, <4>1, <4>2, <4>3
      <3>3. QED
        BY <3>1, <3>2
    <2>5. CASE at[d] < 6
      <3>1. Goes(d, "checks") /\ at' = [at EXCEPT ![d] = @ + 1]
        BY <1>2, <1>9, <2>5 DEF MoveIntoPlace
      <3>2. at' \in [Daemons -> 1..6] /\ at'[d] - 1 = at[d]
        BY <1>2, <2>5, <3>1
      <3>3. "checks" \in Changing
        BY DEF Changing, Working
      <3>4. QED
        BY <1>2, <1>3, <1>4, <2>1, <2>2, <2>3, <2>4, <3>1, <3>2, <3>3,
           LockedStep DEF Goes
    <2>6. CASE at[d] = 6
      <3>1. Goes(d, "verifies") /\ UNCHANGED at
        BY <1>2, <1>9, <2>6 DEF MoveIntoPlace
      <3>2. ~takenOver => \A p \in AllPaths : disk'[p] = d
        BY <1>2, <2>4, <2>6
      <3>3. "verifies" \in Changing
        BY DEF Changing, Working
      <3>4. QED
        BY <1>2, <1>3, <1>4, <2>1, <2>2, <2>3, <2>4, <3>1, <3>2, <3>3,
           LockedStep DEF Goes
    <2>7. QED
      BY <1>2, <2>5, <2>6
  <1>10. CASE RenameFails(d)
    BY <1>7, <1>10 DEF RenameFails
  <1>11. CASE Verify(d)
    <2>1. /\ stage[d] = "verifies" /\ Present = AllPaths
          /\ stage' = [stage EXCEPT ![d] = "unlocks"]
          /\ result' = [result EXCEPT ![d] = "bootstrapped"]
          /\ UNCHANGED <<at, disk>>
      BY <1>11 DEF Verify, Returns, Goes
    <2>2. result' \in [Daemons -> Ends]
      BY <1>2, <1>3, <2>1
    <2>3. ~takenOver => \A p \in AllPaths : disk[p] = d
      BY <1>1, <2>1 DEF ProgressInv
    <2>4. \A p \in AllPaths : disk[p] # Absent
      BY <2>1 DEF Present
    <2>5. "unlocks" \notin Working /\ "unlocks" \in Locked
      BY DEF Working, Locked
    <2>6. QED
      BY <1>2, <1>3, <1>4, <2>1, <2>2, <2>3, <2>4, <2>5, LockedStep
  <1>12. CASE VerifyFails(d)
    <2>1. /\ stage[d] = "verifies" /\ at' = [at EXCEPT ![d] = 1]
          /\ stage' = [stage EXCEPT ![d] = "cleans"]
          /\ UNCHANGED <<result, disk>>
      BY <1>12 DEF VerifyFails, Goes
    <2>2. at' \in [Daemons -> 1..6] /\ at'[d] = 1
      BY <1>2, <2>1
    <2>3. ~takenOver => \A p \in AllPaths : disk[p] \in {Absent, d}
      BY <1>1, <2>1 DEF ProgressInv
    <2>4. "cleans" \in Changing
      BY DEF Changing, Working
    <2>5. \A i \in 1..(at'[d] - 1) : FALSE
      BY <2>2
    <2>6. QED
      BY <1>2, <1>3, <1>4, <2>1, <2>2, <2>3, <2>4, <2>5, LockedStep
  <1>13. CASE FailWithoutCleanup(d)
    <2>1. /\ stage[d] = "verifies" /\ UNCHANGED <<at, disk>>
          /\ stage' = [stage EXCEPT ![d] = "unlocks"]
          /\ result' = [result EXCEPT ![d] = "failed"]
      BY <1>13 DEF FailWithoutCleanup, Returns, Goes
    <2>2. result' \in [Daemons -> Ends] /\ result'[d] # "bootstrapped"
      BY <1>2, <1>3, <2>1
    <2>3. ~takenOver => \A p \in AllPaths : disk[p] # Absent
      BY <1>1, <2>1, BootAssumption DEF ProgressInv, Absent
    <2>4. "unlocks" \notin Working /\ "unlocks" \in Locked
      BY DEF Working, Locked
    <2>5. QED
      BY <1>2, <1>3, <1>4, <2>1, <2>2, <2>3, <2>4, LockedStep
  <1>14. CASE CleanupGivesUp(d)
    <2>1. /\ stage[d] = "cleans" /\ UNCHANGED <<at, disk>> /\ spoilt' = TRUE
          /\ stage' = [stage EXCEPT ![d] = "unlocks"]
          /\ result' = [result EXCEPT ![d] = "failed"]
      BY <1>14 DEF CleanupGivesUp, Returns, Goes
    <2>2. result' \in [Daemons -> Ends] /\ result'[d] # "bootstrapped"
      BY <1>2, <1>3, <2>1
    <2>3. "unlocks" \notin Working /\ "unlocks" \in Locked
      BY DEF Working, Locked
    <2>4. QED
      BY <1>2, <1>3, <1>4, <2>1, <2>2, <2>3, LockedStep
  <1>15. CASE CleanupPath(d)
    <2>1. stage[d] = "cleans" /\ stage[d] \in Working
      BY <1>15 DEF CleanupPath, CleanupUpTo, Working
    <2>2. \/ disk' = [disk EXCEPT ![Paths[at[d]]] = Absent]
          \/ disk' = disk /\ spoilt' = TRUE
      BY <1>15 DEF CleanupPath, CleanupUpTo
    <2>3. /\ disk' \in [AllPaths -> Daemons \cup {Absent}]
          /\ \A p \in AllPaths : disk'[p] \in {Absent, disk[p]}
          /\ ~spoilt' => disk'[Paths[at[d]]] = Absent
      BY <1>2, <2>2
    <2>4. ~takenOver => \A p \in AllPaths : disk'[p] \in {Absent, d}
      BY <1>1, <2>1, <2>3 DEF OwnInv
    <2>5. ASSUME ~takenOver, ~spoilt', NEW i \in 1..at[d]
          PROVE  disk'[Paths[i]] = Absent
      <3>1. i \in 1..6 /\ Paths[i] \in AllPaths
        BY <1>2, PathsAre
      <3>2. i = at[d] \/ i \in 1..(at[d] - 1)
        BY <1>2
      <3>3. i \in 1..(at[d] - 1) => disk[Paths[i]] = Absent
        BY <1>1, <1>4, <2>1, <2>5 DEF ProgressInv
      <3>4. QED
        BY <2>3, <2>5, <3>1, <3>2, <3>3
    <2>6. CASE at[d] < 6
      <3>1. at' = [at EXCEPT ![d] = @ + 1] /\ UNCHANGED <<stage, result>>
        BY <1>2, <1>15, <2>6 DEF CleanupPath, CleanupUpTo
      <3>2. at' \in [Daemons -> 1..6] /\ at'[d] - 1 = at[d]
        BY <1>2, <2>6, <3>1
      <3>3. "cleans" \in Changing /\ stage' = [stage EXCEPT ![d] = "cleans"]
        BY <1>1, <2>1, <3>1 DEF Changing, Working, BootTypes
      <3>4. ~takenOver /\ ~spoilt' =>
              \A i \in 1..(at'[d] - 1) : disk'[Paths[i]] = Absent
        BY <2>5, <3>2
      <3>5. "cleans" \in Locked /\ result' \in [Daemons -> Ends]
        BY <1>2, <3>1 DEF Locked
      <3>6. /\ "cleans" # "staging" /\ "cleans" # "checks"
            /\ "cleans" # "moves" /\ "cleans" # "verifies"
            /\ "cleans" # "unlocks"
        OBVIOUS
      <3>7. /\ at' \in [Daemons -> DOMAIN Paths]
            /\ stage[d] \in Locked /\ (disk' # disk => stage[d] \in Working)
        BY <1>2, <1>3, <2>1, <3>2
      <3>8. QED
        BY <1>4, <2>3, <2>4, <3>3, <3>4, <3>5, <3>6, <3>7, LockedStep
    <2>7. CASE at[d] = 6
      <3>1. /\ stage' = [stage EXCEPT ![d] = "unlocks"]
            /\ result' = [result EXCEPT ![d] = "failed"] /\ UNCHANGED at
        BY <1>2, <1>15, <2>7 DEF CleanupPath, CleanupUpTo, Returns, Goes
      <3>2. ~takenOver /\ ~spoilt' => \A p \in AllPaths : disk'[p] = Absent
        BY <1>2, <2>5, <2>7
      <3>3. result' \in [Daemons -> Ends] /\ result'[d] # "bootstrapped"
        BY <1>2, <1>3, <3>1
      <3>4. "unlocks" \notin Working /\ "unlocks" \in Locked
        BY DEF Working, Locked
      <3>5. QED
        BY <1>2, <1>3, <1>4, <2>1, <2>3, <3>1, <3>2, <3>3, <3>4, LockedStep
    <2>8. QED
      BY <1>2, <2>6, <2>7
  <1>16. QED
    BY <1>5, <1>6, <1>8, <1>9, <1>10, <1>11, <1>12, <1>13, <1>14, <1>15

(* The directory is empty at first and nobody has started.                 *)
LEMMA BootInitial == BootInit => BootInv
  <1> SUFFICES ASSUME BootInit PROVE BootInv
    OBVIOUS
  <1>1. \A d \in Daemons : stage[d] = "stopped"
    BY DEF BootInit
  <1>2. BootTypes
    <2>1. 1 \in DOMAIN Paths /\ 0 \in 0..MaxStarts
      BY PathsAre, BootAssumption
    <2>2. QED
      BY <2>1 DEF BootInit, BootTypes, Stages, Ends
  <1>3. LockInv /\ OwnInv /\ ProgressInv /\ BootstrappedStays
    BY <1>1 DEF LockInv, OwnInv, ProgressInv, BootstrappedStays, Locked,
                Working
  <1>4. WholeInv
    BY DEF WholeInv, Present, BootInit
  <1>5. QED
    BY <1>2, <1>3, <1>4 DEF BootInv

(* Every step of a daemon that starts, a crash, and a lock that grows old. *)
LEMMA BootStepInv == BootInv /\ [BootNext]_bootVars => BootInv'
  <1> SUFFICES ASSUME BootInv, [BootNext]_bootVars PROVE BootInv'
    OBVIOUS
  <1>1. CASE UNCHANGED bootVars
    BY <1>1 DEF bootVars, BootInv, BootTypes, LockInv, OwnInv, ProgressInv,
                BootstrappedStays, WholeInv, Present
  <1>2. CASE LockAges
    BY <1>2 DEF LockAges, history, BootInv, BootTypes, LockInv, OwnInv,
                ProgressInv, BootstrappedStays, WholeInv, Present
  <1>3. ASSUME NEW d \in Daemons, BootStep(d) PROVE BootInv'
    BY <1>3, UnlockedSteps, LockedSteps DEF BootStep
  <1>4. QED
    BY <1>1, <1>2, <1>3 DEF BootNext

(* BootInv holds of every state, for any number of daemons and starts.     *)
THEOREM BootInvariant == BootSpec => []BootInv
  <1>1. QED
    BY BootInitial, BootStepInv, PTL DEF BootSpec

(* A bundle EnsureFreshClientBundle reported stays whole and from one      *)
(* daemon, unless a stale lock was taken over.                             *)
THEOREM BootstrappedBundleStays == BootSpec => []BootstrappedStays
  <1>1. BootInv => BootstrappedStays
    BY DEF BootInv
  <1>2. QED
    BY <1>1, BootInvariant, PTL

(* A start that fails takes back all it published: the directory has all   *)
(* the paths of a bundle or none, unless a crash or the file system kept   *)
(* it from removing them.  (Not that it is empty: see FailureLeavesEmpty.) *)
THEOREM FailedStartRemovesPublished == BootSpec => []FailureRemovesPublished
  <1>1. ASSUME BootInv PROVE FailureRemovesPublished
    <2> SUFFICES ASSUME ~takenOver, ~spoilt,
                        \A e \in Daemons : stage[e] \notin Locked
                 PROVE  Present \in {{}, AllPaths}
      BY DEF FailureRemovesPublished
    <2>1. \A e \in Daemons : stage[e] \notin Changing
      BY DEF Changing, Working, Locked
    <2>2. QED
      BY <1>1, <2>1 DEF BootInv, WholeInv
  <1>2. QED
    BY <1>1, BootInvariant, PTL

(* What seedBootstrapServices and seedBootstrapStorage write, counted and  *)
(* looked up as the verification does.                                     *)

(* Ten values, or three, in a tuple are a sequence.                        *)
LEMMA TenInSeq ==
  ASSUME NEW S, NEW a, NEW b, NEW c, NEW d, NEW e, NEW f, NEW g, NEW h,
         NEW i, NEW j,
         \A n \in 1..10 : <<a, b, c, d, e, f, g, h, i, j>>[n] \in S
  PROVE  <<a, b, c, d, e, f, g, h, i, j>> \in Seq(S)
  OBVIOUS

(* A tuple of members is a sequence over the set.                          *)
LEMMA ThreeInSeq ==
  ASSUME NEW S, NEW a, NEW b, NEW c,
         \A n \in 1..3 : <<a, b, c>>[n] \in S
  PROVE  <<a, b, c>> \in Seq(S)
  OBVIOUS

(* The services a fresh bundle is seeded with, by their ids.               *)
LEMMA CatalogIs ==
  /\ Len(DefaultCatalog) = 10 /\ Len(BootstrapCatalog) = 13
  /\ DOMAIN DefaultCatalog = 1..10 /\ DOMAIN BootstrapCatalog = 1..13
  /\ \A i \in 1..10 : BootstrapCatalog[i] = DefaultCatalog[i]
  /\ BootstrapCatalog[1].type = "localTag"
  /\ BootstrapCatalog[2].type = "localTag"
  /\ BootstrapCatalog[3].type = "localFileDomain"
  /\ BootstrapCatalog[4].type = "localFileUpdateDomain"
  /\ BootstrapCatalog[5].type = "hydrusLocalFileStorage"
  /\ BootstrapCatalog[6].type = "combinedLocalFileDomains"
  /\ BootstrapCatalog[7].type = "combinedFile"
  /\ BootstrapCatalog[8].type = "combinedTag"
  /\ BootstrapCatalog[9].type = "localRatingLike"
  /\ BootstrapCatalog[10].type = "localFileTrashDomain"
  /\ BootstrapCatalog[11].type = "combinedDeletedFile"
  /\ BootstrapCatalog[12].type = "localNotes"
  /\ BootstrapCatalog[13].type = "clientAPIService"
  /\ BootstrapCatalog[9].name = "favourites"
  /\ BootstrapCatalog[9].dictionary = "fat star"
  <1> DEFINE added ==
        << Service("deleted from anywhere", "combinedDeletedFile"),
           Service("local notes", "localNotes"),
           Service("client api", "clientAPIService") >>
             Services == {BootstrapCatalog} \cup
        {DefaultCatalog[i] : i \in 1..10} \cup {added[i] : i \in 1..3}
  <1>1. Len(DefaultCatalog) = 10 /\ DOMAIN DefaultCatalog = 1..10
    BY DEF DefaultCatalog
  <1>2. Len(added) = 3 /\ DOMAIN added = 1..3
    OBVIOUS
  <1>3. BootstrapCatalog = DefaultCatalog \o added
    BY DEF BootstrapCatalog
  <1>4. DefaultCatalog \in Seq(Services)
    <2>1. \A i \in 1..10 : DefaultCatalog[i] \in Services
      OBVIOUS
    <2> HIDE DEF Services
    <2>2. QED
      BY <1>1, <2>1, TenInSeq DEF DefaultCatalog
  <1>5. added \in Seq(Services)
    <2>1. \A i \in 1..3 : added[i] \in Services
      OBVIOUS
    <2> HIDE DEF Services
    <2>2. QED
      BY <1>2, <2>1, ThreeInSeq
  <1> HIDE DEF added, Services
  <1>6. /\ Len(BootstrapCatalog) = 10 + 3
        /\ \A i \in 1..(10 + 3) : BootstrapCatalog[i] =
             IF i <= 10 THEN DefaultCatalog[i] ELSE added[i - 10]
    <2>1. /\ Len(BootstrapCatalog) = Len(DefaultCatalog) + Len(added)
          /\ \A i \in 1..(Len(DefaultCatalog) + Len(added)) :
               BootstrapCatalog[i] = IF i <= Len(DefaultCatalog)
                                     THEN DefaultCatalog[i]
                                     ELSE added[i - Len(DefaultCatalog)]
      BY <1>3, <1>4, <1>5, ConcatProperties
    <2>2. QED
      BY <1>1, <1>2, <2>1
  <1>7. BootstrapCatalog \in Seq(Services)
    BY <1>3, <1>4, <1>5, ConcatProperties
  <1>8. DOMAIN BootstrapCatalog = 1..13
    BY <1>6, <1>7
  <1>9. /\ \A i \in 1..10 : BootstrapCatalog[i] = DefaultCatalog[i]
        /\ BootstrapCatalog[11] = added[1]
        /\ BootstrapCatalog[12] = added[2]
        /\ BootstrapCatalog[13] = added[3]
    BY <1>6
  <1>10. /\ added[1].type = "combinedDeletedFile"
         /\ added[2].type = "localNotes"
         /\ added[3].type = "clientAPIService"
    BY DEF added, Service
  <1>11. /\ DefaultCatalog[1].type = "localTag"
         /\ DefaultCatalog[2].type = "localTag"
         /\ DefaultCatalog[3].type = "localFileDomain"
         /\ DefaultCatalog[4].type = "localFileUpdateDomain"
         /\ DefaultCatalog[5].type = "hydrusLocalFileStorage"
    BY DEF DefaultCatalog, Service
  <1>12. /\ DefaultCatalog[6].type = "combinedLocalFileDomains"
         /\ DefaultCatalog[7].type = "combinedFile"
         /\ DefaultCatalog[8].type = "combinedTag"
         /\ DefaultCatalog[9].type = "localRatingLike"
         /\ DefaultCatalog[10].type = "localFileTrashDomain"
         /\ DefaultCatalog[9].name = "favourites"
         /\ DefaultCatalog[9].dictionary = "fat star"
    BY DEF DefaultCatalog, Service
  <1>13. /\ BootstrapCatalog[11].type = "combinedDeletedFile"
         /\ BootstrapCatalog[12].type = "localNotes"
         /\ BootstrapCatalog[13].type = "clientAPIService"
    BY <1>9, <1>10
  <1>14. Len(BootstrapCatalog) = 13
    BY <1>6
  <1>15. /\ BootstrapCatalog[1] = DefaultCatalog[1]
         /\ BootstrapCatalog[2] = DefaultCatalog[2]
         /\ BootstrapCatalog[3] = DefaultCatalog[3]
         /\ BootstrapCatalog[4] = DefaultCatalog[4]
         /\ BootstrapCatalog[5] = DefaultCatalog[5]
         /\ BootstrapCatalog[6] = DefaultCatalog[6]
         /\ BootstrapCatalog[7] = DefaultCatalog[7]
         /\ BootstrapCatalog[8] = DefaultCatalog[8]
         /\ BootstrapCatalog[9] = DefaultCatalog[9]
         /\ BootstrapCatalog[10] = DefaultCatalog[10]
    BY <1>9
  <1>16. QED
    BY <1>1, <1>8, <1>9, <1>11, <1>12, <1>13, <1>14, <1>15

(* The services of a type are those of the seed, and List returns the      *)
(* services of DefaultCatalog.                                             *)
LEMMA SeededIds ==
  /\ IdsOfType(MainDB, "localFileDomain") = {3}
  /\ IdsOfType(MainDB, "hydrusLocalFileStorage") = {5}
  /\ IdsOfType(MainDB, "combinedLocalFileDomains") = {6}
  /\ IdsOfType(MainDB, "combinedFile") = {7}
  /\ IdsOfType(MainDB, "combinedDeletedFile") = {11}
  /\ IdsOfType(MainDB, "localFileTrashDomain") = {10}
  /\ Listed(MainDB) = 1..10
  <1>1. MainDB.services = BootstrapCatalog
    BY DEF MainDB
  <1>2. \A type : IdsOfType(MainDB, type) =
          {i \in 1..13 : BootstrapCatalog[i].type = type}
    BY <1>1, CatalogIs DEF IdsOfType
  <1>3. \A i \in 1..13 :
          i \in {1, 2, 3, 4, 5, 6, 7, 8, 9, 10, 11, 12, 13}
    OBVIOUS
  <1>4. IdsOfType(MainDB, "localFileDomain") = {3}
    <2>1. \A i \in 1..13 :
            BootstrapCatalog[i].type = "localFileDomain" <=> i = 3
      BY <1>3, CatalogIs
    <2>2. QED
      BY <1>2, <2>1
  <1>5. IdsOfType(MainDB, "hydrusLocalFileStorage") = {5}
    <2>1. \A i \in 1..13 :
            BootstrapCatalog[i].type = "hydrusLocalFileStorage" <=> i = 5
      BY <1>3, CatalogIs
    <2>2. QED
      BY <1>2, <2>1
  <1>6. IdsOfType(MainDB, "combinedLocalFileDomains") = {6}
    <2>1. \A i \in 1..13 :
            BootstrapCatalog[i].type = "combinedLocalFileDomains" <=> i = 6
      BY <1>3, CatalogIs
    <2>2. QED
      BY <1>2, <2>1
  <1>7. IdsOfType(MainDB, "combinedFile") = {7}
    <2>1. \A i \in 1..13 :
            BootstrapCatalog[i].type = "combinedFile" <=> i = 7
      BY <1>3, CatalogIs
    <2>2. QED
      BY <1>2, <2>1
  <1>8. IdsOfType(MainDB, "combinedDeletedFile") = {11}
    <2>1. \A i \in 1..13 :
            BootstrapCatalog[i].type = "combinedDeletedFile" <=> i = 11
      BY <1>3, CatalogIs
    <2>2. QED
      BY <1>2, <2>1
  <1>9. IdsOfType(MainDB, "localFileTrashDomain") = {10}
    <2>1. \A i \in 1..13 :
            BootstrapCatalog[i].type = "localFileTrashDomain" <=> i = 10
      BY <1>3, CatalogIs
    <2>2. QED
      BY <1>2, <2>1
  <1>10. Listed(MainDB) = 1..10
    <2>1. \A i \in 1..13 :
            BootstrapCatalog[i].type \in DiscoveryTypes <=> i \in 1..10
      <3>1. \A i \in 1..10 : i \in {1, 2, 3, 4, 5, 6, 7, 8, 9, 10}
        OBVIOUS
      <3>2. \A i \in 1..10 : BootstrapCatalog[i].type \in DiscoveryTypes
        BY <3>1, CatalogIs DEF DiscoveryTypes
      <3>3. \A i \in 11..13 : BootstrapCatalog[i].type \notin DiscoveryTypes
        <4>1. \A i \in 11..13 : i \in {11, 12, 13}
          OBVIOUS
        <4>2. QED
          BY <4>1, CatalogIs DEF DiscoveryTypes
      <3>4. QED
        BY <3>2, <3>3
    <2>2. Listed(MainDB) =
            {i \in 1..13 : BootstrapCatalog[i].type \in DiscoveryTypes}
      BY <1>1, CatalogIs DEF Listed
    <2>3. QED
      BY <2>1, <2>2
  <1>11. QED
    BY <1>4, <1>5, <1>6, <1>7, <1>8, <1>9, <1>10

(* verifySeededRuntimeServices is content with the seed.                   *)
LEMMA ServicesPass == ServicesVerified(MainDB)
  <1>1. /\ MainDB.services = BootstrapCatalog
        /\ MainDB.memberships = MembershipTables(BootstrapCatalog)
    BY DEF MainDB
  <1>2. ASSUME NEW type \in CurrentMembershipTypes
        PROVE  /\ Cardinality(IdsOfType(MainDB, type)) = 1
               /\ \A id \in IdsOfType(MainDB, type) :
                    <<"current_files", id>> \in MainDB.memberships
    <2>1. \E id : IdsOfType(MainDB, type) = {id}
      BY SeededIds DEF CurrentMembershipTypes
    <2>2. Cardinality(IdsOfType(MainDB, type)) = 1
      BY <2>1, FS_Singleton
    <2>3. QED
      BY <1>1, <2>2 DEF IdsOfType, MembershipTables
  <1>3. ASSUME NEW type \in DeletedMembershipTypes,
               NEW id \in IdsOfType(MainDB, type)
        PROVE  <<"deleted_files", id>> \in MainDB.memberships
    BY <1>1 DEF IdsOfType, MembershipTables
  <1>4. Cardinality(Listed(MainDB)) = Len(DefaultCatalog)
    <2>1. 1 \in Int /\ 10 \in Int /\ 10 - 1 + 1 = 10
      OBVIOUS
    <2>2. Cardinality(1..10) = IF 1 > 10 THEN 0 ELSE 10 - 1 + 1
      BY <2>1, FS_Interval, Zenon
    <2>3. Cardinality(1..10) = 10
      BY <2>2
    <2>4. QED
      BY <2>3, SeededIds, CatalogIs
  <1>5. {MainDB.services[i] : i \in Listed(MainDB)} = SetOf(DefaultCatalog)
    <2>1. SetOf(DefaultCatalog) = {DefaultCatalog[i] : i \in 1..10}
      BY CatalogIs DEF SetOf
    <2>2. \A i \in 1..10 : MainDB.services[i] = DefaultCatalog[i]
      BY <1>1, CatalogIs
    <2>3. QED
      BY <2>1, <2>2, SeededIds
  <1>6. FavouritesVerified({MainDB.services[i] : i \in Listed(MainDB)})
    <2>1. 9 \in Listed(MainDB)
      BY SeededIds
    <2>2. QED
      BY <1>1, <2>1, CatalogIs DEF FavouritesVerified
  <1>7. QED
    BY <1>1, <1>2, <1>3, <1>4, <1>5, <1>6 DEF ServicesVerified

(* There are finitely many prefixes: a prefix is given by its set of       *)
(* positions with their digits.                                            *)
LEMMA PrefixesFinite == IsFiniteSet(Hashes)
  <1> DEFINE places == SUBSET ((1..PrefixLength) \X Digits)
             graph(h) == {<<i, h[i]>> : i \in 1..PrefixLength}
             graphs == [h \in Hashes |-> graph(h)]
  <1>1. IsFiniteSet(places)
    <2>1. IsFiniteSet(1..PrefixLength)
      BY FreshAssumption, FS_Interval
    <2>2. QED
      BY <2>1, FreshAssumption, FS_Product, FS_SUBSET
  <1>2. \A h \in Hashes : graph(h) \in places
    BY DEF Hashes
  <1>3. ASSUME NEW g \in Hashes, NEW h \in Hashes, graph(g) = graph(h)
        PROVE  g = h
    <2>1. ASSUME NEW i \in 1..PrefixLength PROVE g[i] = h[i]
      <3>1. <<i, g[i]>> \in graph(h)
        BY <1>3
      <3>2. PICK j \in 1..PrefixLength : <<i, g[i]>> = <<j, h[j]>>
        BY <3>1
      <3>3. QED
        BY <3>2
    <2>2. /\ g = [i \in 1..PrefixLength |-> g[i]]
          /\ h = [i \in 1..PrefixLength |-> h[i]]
      BY <1>3 DEF Hashes
    <2>3. QED
      BY <2>1, <2>2
  <1> HIDE DEF places, graph
  <1>4. graphs \in Injection(Hashes, places)
    BY <1>2, <1>3 DEF Injection, IsInjective
  <1> HIDE DEF graphs
  <1>5. QED
    BY <1>1, <1>4, FS_Injection

(* There are as many subfolder rows of a kind as prefixes.                 *)
LEMMA SubfoldersCounted ==
  ASSUME NEW kind, NEW location
  PROVE  /\ IsFiniteSet(Subfolders(kind, location))
         /\ Cardinality(Subfolders(kind, location)) = Cardinality(Hashes)
  <1> DEFINE row(h) == [prefix |-> [kind |-> kind, digits |-> h],
                        location |-> location]
             rows == [h \in Hashes |-> row(h)]
             T == Subfolders(kind, location)
  <1>1. IsFiniteSet(Hashes)
    BY PrefixesFinite
  <1>2. \A h \in Hashes : row(h) \in T
    BY DEF Subfolders, StoragePrefixes
  <1>3. \A r \in T : \E h \in Hashes : r = row(h)
    BY DEF Subfolders, StoragePrefixes
  <1>4. \A g, h \in Hashes : row(g) = row(h) => g = h
    <2>1. \A h : row(h).prefix.digits = h
      OBVIOUS
    <2>2. QED
      BY <2>1
  <1> HIDE DEF row, T
  <1>5. rows \in Bijection(Hashes, T)
    BY <1>2, <1>3, <1>4 DEF Bijection, Injection, Surjection,
      IsInjective
  <1>6. ExistsBijection(Hashes, T)
    BY <1>5 DEF ExistsBijection
  <1>7. QED
    BY <1>1, <1>6, FS_Bijection DEF T

(* verifySeededBootstrapStorage is content with the seed.                  *)
LEMMA StoragePasses == StorageVerified(SeededStorage)
  <1> DEFINE files == Subfolders("f", ClientFiles)
             thumbnails == Subfolders("t", Thumbnails)
             ofKind(k) == {r \in SeededStorage.subfolders : r.prefix.kind = k}
  <1>1. /\ SeededStorage.granularity = PrefixLength
        /\ SeededStorage.locations = {ClientFiles, Thumbnails}
        /\ SeededStorage.subfolders = files \cup thumbnails
        /\ SeededStorage.ideal = {ClientFiles}
        /\ SeededStorage.thumbnailOverride = {Thumbnails}
    BY DEF SeededStorage
  <1>2. /\ \A r \in files : r.prefix.kind = "f" /\ r.location = ClientFiles
        /\ \A r \in thumbnails : r.prefix.kind = "t" /\ r.location = Thumbnails
    BY DEF Subfolders, StoragePrefixes
  <1>3. /\ IsFiniteSet(files) /\ Cardinality(files) = Cardinality(Hashes)
        /\ IsFiniteSet(thumbnails)
        /\ Cardinality(thumbnails) = Cardinality(Hashes)
    BY SubfoldersCounted
  <1> HIDE DEF files, thumbnails
  <1>4. ofKind("f") = files /\ ofKind("t") = thumbnails
    BY <1>1, <1>2
  <1>5. Cardinality(SeededStorage.subfolders) = 2 * Cardinality(Hashes)
    <2>1. files \cap thumbnails = {}
      BY <1>2
    <2>2. Cardinality(files \cup thumbnails)
            = Cardinality(files) + Cardinality(thumbnails)
                - Cardinality(files \cap thumbnails)
      BY <1>3, FS_Union
    <2>3. Cardinality(Hashes) \in Nat
      BY <1>3, FS_CardinalityType
    <2>4. Cardinality(files \cap thumbnails) = 0
      BY <2>1, FS_EmptySet
    <2>5. QED
      BY <1>1, <1>3, <2>1, <2>2, <2>3, <2>4
  <1>6. Cardinality(SeededStorage.locations) = 2
    <2>1. ClientFiles # Thumbnails
      <3>1. ClientFiles.relative = TRUE /\ Thumbnails.relative = FALSE
        BY DEF ClientFiles, Thumbnails
      <3>2. QED
        BY <3>1
    <2>2. IsFiniteSet({ClientFiles}) /\ Cardinality({ClientFiles}) = 1
      BY FS_Singleton
    <2>3. Cardinality({ClientFiles} \cup {Thumbnails}) = 1 + 1
      BY <2>1, <2>2, FS_AddElement
    <2>4. {ClientFiles} \cup {Thumbnails} = {ClientFiles, Thumbnails}
      OBVIOUS
    <2>5. QED
      BY <1>1, <2>3, <2>4
  <1>7. Cardinality(SeededStorage.ideal) = 1
    BY <1>1, FS_Singleton
  <1>8. QED
    BY <1>1, <1>2, <1>3, <1>4, <1>5, <1>6, <1>7 DEF StorageVerified

(* defaultVerifyFreshClientBundle is content with the seed.                *)
LEMMA SeedVerified == Verified(MainDB, MasterDB)
  <1>1. StorageVerified(MainDB.storage)
    BY StoragePasses DEF MainDB
  <1>2. TablesVerified(MainDB)
    BY DEF TablesVerified, MainDB, MainSchema
  <1>3. MasterVerified(MasterDB)
    BY DEF MasterVerified, MasterDB
  <1>4. VersionVerified(MainDB)
    BY DEF VersionVerified, MainDB
  <1>5. QED
    BY <1>1, <1>2, <1>3, <1>4, ServicesPass DEF Verified

(* The layout read from the seed has a root for every prefix of either     *)
(* kind, files in the bundle's directory and thumbnails beside it.         *)
LEMMA SeededRoots ==
  ASSUME NEW layout, layout = ManagedLayout("dbDir", MainDB.storage),
         NEW h \in Hashes
  PROVE  /\ HasRoot(layout, "f", h) /\ HasRoot(layout, "t", h)
         /\ RootOf(layout, "f", h) = <<"dbDir", "client_files">>
         /\ RootOf(layout, "t", h) = <<"thumbnails">>
  <1> DEFINE storage == MainDB.storage
             rows == storage.subfolders
             prefix(k) == [kind |-> k, digits |-> h]
             first(k) == CHOOSE r \in rows : r.prefix = prefix(k)
  <1>1. /\ storage.granularity = PrefixLength
        /\ rows = Subfolders("f", ClientFiles) \cup Subfolders("t", Thumbnails)
    BY DEF MainDB, SeededStorage
  <1>2. /\ layout.prefixLength = PrefixLength
        /\ DOMAIN layout.roots = {r.prefix : r \in rows}
        /\ \A p \in {r.prefix : r \in rows} : layout.roots[p] =
             ResolvedLocation("dbDir",
               (CHOOSE r \in rows : r.prefix = p).location)
    BY <1>1 DEF ManagedLayout
  <1>3. SubSeq(h, 1, layout.prefixLength) = h
    <2>1. h \in [1..PrefixLength -> Digits] /\ PrefixLength \in Nat
      BY FreshAssumption DEF Hashes
    <2>2. QED
      BY <1>2, <2>1
  <1>4. /\ [prefix |-> prefix("f"), location |-> ClientFiles] \in rows
        /\ [prefix |-> prefix("t"), location |-> Thumbnails] \in rows
    BY <1>1 DEF Subfolders, StoragePrefixes
  <1>5. /\ \A r \in rows : r.prefix = prefix("f") => r.location = ClientFiles
        /\ \A r \in rows : r.prefix = prefix("t") => r.location = Thumbnails
    <2>1. /\ \A r \in Subfolders("f", ClientFiles) :
               r.prefix.kind = "f" /\ r.location = ClientFiles
          /\ \A r \in Subfolders("t", Thumbnails) :
               r.prefix.kind = "t" /\ r.location = Thumbnails
      BY DEF Subfolders, StoragePrefixes
    <2>2. prefix("f").kind = "f" /\ prefix("t").kind = "t"
      OBVIOUS
    <2>3. QED
      BY <1>1, <2>1, <2>2
  <1>6. \E r \in rows : r.prefix = prefix("f")
    BY <1>4
  <1>7. \E r \in rows : r.prefix = prefix("t")
    BY <1>4
  <1> HIDE DEF rows, prefix
  <1>8. /\ first("f") \in rows /\ first("f").prefix = prefix("f")
        /\ first("t") \in rows /\ first("t").prefix = prefix("t")
    BY <1>6, <1>7
  <1>9. /\ layout.roots[prefix("f")] = ResolvedLocation("dbDir", ClientFiles)
        /\ layout.roots[prefix("t")] = ResolvedLocation("dbDir", Thumbnails)
    BY <1>2, <1>5, <1>8
  <1>10. /\ ResolvedLocation("dbDir", ClientFiles) =
              <<"dbDir", "client_files">>
         /\ ResolvedLocation("dbDir", Thumbnails) = <<"thumbnails">>
    BY DEF ResolvedLocation, ClientFiles, Thumbnails
  <1>11. /\ prefix("f") \in DOMAIN layout.roots
         /\ prefix("t") \in DOMAIN layout.roots
    BY <1>2, <1>6, <1>7
  <1>12. QED
    BY <1>3, <1>9, <1>10, <1>11 DEF HasRoot, RootOf, prefix

--------------------------------------------------------

(* What a daemon has moved into place passes its own verification, and     *)
(* files and thumbnails have roots of their own: a verification fails only *)
(* for want of time or disk, or after a lock was taken over.               *)
THEOREM SeedIsVerified == BootSpec => []SeedPassesVerification
  <1>1. ASSUME BootInv PROVE SeedPassesVerification
    <2>1. ASSUME NEW layout,
                 layout = ManagedLayout("dbDir", MainDB.storage)
          PROVE  /\ \A k \in Kinds, h \in Hashes : HasRoot(layout, k, h)
                 /\ \A h \in Hashes :
                      RootOf(layout, "f", h) # RootOf(layout, "t", h)
      <3>1. ASSUME NEW h \in Hashes
            PROVE  /\ HasRoot(layout, "f", h) /\ HasRoot(layout, "t", h)
                   /\ RootOf(layout, "f", h) = <<"dbDir", "client_files">>
                   /\ RootOf(layout, "t", h) = <<"thumbnails">>
        BY <2>1, <3>1, SeededRoots
      <3>2. <<"dbDir", "client_files">> # <<"thumbnails">>
        OBVIOUS
      <3>3. QED
        BY <3>1, <3>2 DEF Kinds
    <2>2. ASSUME NEW d \in Daemons, stage[d] = "verifies", ~takenOver
          PROVE  Present = AllPaths
      <3>1. \A p \in AllPaths : disk[p] = d
        BY <1>1, <2>2 DEF BootInv, ProgressInv
      <3>2. d # Absent
        BY BootAssumption DEF Absent
      <3>3. QED
        BY <3>1, <3>2 DEF Present
    <2>3. QED
      BY <2>1, <2>2, SeedVerified DEF SeedPassesVerification
  <1>2. QED
    BY <1>1, BootInvariant, PTL

(***************************************************************************)
(* Library: mutations, and searches.                                       *)
(***************************************************************************)

(* The services a file can be in; all but one have specific tag caches.    *)
LEMMA ServicesAre ==
  /\ ServiceNames = {"local", "storage", "combinedLocal", "combinedFile",
                     "trash"}
  /\ CacheServices = ServiceNames \ {"combinedFile"}
  <1>1. DOMAIN FileServices = 1..5
    BY DEF FileServices
  <1>2. QED
    BY <1>1 DEF FileServices, ServiceNames, CacheServices,
                SupportsSpecificMappingCache

(* The display rows of a set of storage rows, one by one.                  *)
LEMMA InDisplay ==
  ASSUME NEW P, NEW x
  PROVE  x \in DisplayOf(P)
           <=> \E p \in P : \E u \in Implied(p[2]) : x = <<p[1], u>>
  BY DEF DisplayOf

(* A row more adds what its tag implies.                                   *)
LEMMA DisplayGrows ==
  ASSUME NEW P, NEW f, NEW t, NEW x
  PROVE  x \in DisplayOf(P \cup {<<f, t>>})
           <=> x \in DisplayOf(P) \/ x \in {f} \X Implied(t)
  <1> DEFINE Q == P \cup {<<f, t>>}
  <1>1. <<f, t>>[1] = f /\ <<f, t>>[2] = t
    OBVIOUS
  <1>2. ASSUME x \in DisplayOf(Q)
        PROVE  x \in DisplayOf(P) \/ x \in {f} \X Implied(t)
    <2>1. PICK p \in Q : \E u \in Implied(p[2]) : x = <<p[1], u>>
      BY <1>2, InDisplay
    <2>2. CASE p \in P
      BY <2>1, <2>2, InDisplay
    <2>3. CASE p = <<f, t>>
      BY <1>1, <2>1, <2>3
    <2>4. QED
      BY <2>1, <2>2, <2>3
  <1>3. ASSUME x \in DisplayOf(P) PROVE x \in DisplayOf(Q)
    <2>1. PICK p \in P : \E u \in Implied(p[2]) : x = <<p[1], u>>
      BY <1>3, InDisplay
    <2>2. QED
      BY <2>1, InDisplay
  <1>4. ASSUME x \in {f} \X Implied(t) PROVE x \in DisplayOf(Q)
    <2>1. PICK u \in Implied(t) : x = <<f, u>>
      BY <1>4
    <2>2. QED
      BY <1>1, <2>1, InDisplay
  <1>5. QED
    BY <1>2, <1>3, <1>4

(* A search that is under way when a mutation commits is no longer calm,   *)
(* and what it has found stays true.                                       *)
LEMMA SearchKept ==
  ASSUME LibraryStrongInv, Commit, info \subseteq info',
         mappings["current"] \subseteq mappings'["current"]
  PROVE  /\ writes' \in 0..MaxWrites /\ names' = names
         /\ hydrusBundle' = hydrusBundle
         /\ search' = [step |-> "idle"] \/ search' \in Searches
         /\ SearchFindsTagged'
  <1>1. writes' \in 0..MaxWrites /\ names' = names
        /\ hydrusBundle' = hydrusBundle
    BY LibraryAssumption DEF LibraryStrongInv, LibraryInv, RowTypes, Commit
  <1>2. CASE search.step = "idle"
    <2>1. search' = search /\ search = [step |-> "idle"]
      BY <1>2 DEF Commit, LibraryStrongInv, Searches
    <2>2. QED
      BY <1>1, <2>1 DEF SearchFindsTagged
  <1>3. CASE search.step # "idle"
    <2>1. search \in Searches /\ search' = [search EXCEPT !.calm = FALSE]
      BY <1>3 DEF Commit, LibraryStrongInv
    <2>2. /\ search' \in Searches /\ ~search'.calm
          /\ search'.step = search.step /\ search'.found = search.found
          /\ search'.tags = search.tags
      BY <2>1 DEF Searches
    <2>3. SearchFindsTagged
      BY DEF LibraryStrongInv
    <2>4. SearchFindsTagged'
      BY <2>2, <2>3 DEF SearchFindsTagged
    <2>5. QED
      BY <1>1, <2>2, <2>4
  <1>4. QED
    BY <1>2, <1>3

(* Mutations that leave the tags alone: the caches of an unmoved file      *)
(* agree as before.                                                        *)
LEMMA TagsAlone ==
  ASSUME LibraryStrongInv, Commit, UNCHANGED tagVars,
         tables \subseteq tables', tables' \subseteq {"mappings", "notes"},
         notes' # {} => "notes" \in tables',
         \A s \in CacheServices :
           current'[s] \ moved' \subseteq current[s] \ moved,
         RowTypes', MembershipInv', info \subseteq info',
         deleted' \subseteq info', moved' \subseteq info'
  PROVE  LibraryStrongInv'
  <1>1. LibraryInv /\ LibraryTypes
    BY DEF LibraryStrongInv
  <1>2. /\ writes' \in 0..MaxWrites /\ names' = names
        /\ hydrusBundle' = hydrusBundle
        /\ search' = [step |-> "idle"] \/ search' \in Searches
        /\ SearchFindsTagged'
    BY SearchKept DEF tagVars
  <1>3. StatusInv' /\ TablesInv'
    BY <1>1 DEF LibraryInv, StatusInv, TablesInv, tagVars
  <1>4. CachesInv'
    <2> SUFFICES ASSUME hydrusBundle, NEW s \in CacheServices,
                        NEW f \in current'[s] \ moved'
                 PROVE  CachesAgree(s, f)'
      BY <1>2 DEF CachesInv
    <2>1. CachesAgree(s, f)
      BY <1>1 DEF LibraryInv, CachesInv
    <2>2. QED
      BY <1>2, <2>1 DEF CachesAgree, RowsOf, DisplayOf, Implied, tagVars
  <1>5. LibraryTypes'
    BY <1>1, <1>2 DEF LibraryTypes, tagVars
  <1>6. QED
    BY <1>2, <1>3, <1>4, <1>5 DEF LibraryStrongInv, LibraryInv

(* resolvePreparedLocalImportPlan: a new file has no tags yet, so that its *)
(* row, its services and its empty caches agree.                           *)
LEMMA ImportStep ==
  ASSUME LibraryStrongInv, NEW f \in Files, RecordImport(f, 1)
  PROVE  LibraryStrongInv'
  <1>1. /\ RowTypes /\ MembershipInv /\ LibraryTypes /\ TablesInv
    BY DEF LibraryStrongInv, LibraryInv
  <1>2. /\ f \notin info /\ Commit
        /\ hashes' = hashes \cup {f} /\ info' = info \cup {f}
        /\ current' = [s \in ServiceNames |->
             IF s = "trash" THEN current[s] ELSE current[s] \cup {f}]
        /\ inbox' = inbox \cup {f} /\ moved' = moved \cup {f}
        /\ times' = [times EXCEPT ![f]["file"] = 1]
        /\ UNCHANGED <<deleted, urls, notes, tagVars, tables>>
    BY DEF RecordImport
  <1>3. writes' \in 0..MaxWrites
    BY <1>1, <1>2, LibraryAssumption DEF Commit, RowTypes
  <1>4. times' \in [Files -> [Domains -> 0..2]]
    <2>1. times[f] \in [Domains -> 0..2]
      BY <1>1 DEF RowTypes
    <2>2. [times[f] EXCEPT !["file"] = 1] \in [Domains -> 0..2]
      <3>1. ASSUME NEW g \in [Domains -> 0..2], NEW d, NEW n \in 0..2
            PROVE  [g EXCEPT ![d] = n] \in [Domains -> 0..2]
        OBVIOUS
      <3>2. 1 \in 0..2
        OBVIOUS
      <3>3. QED
        BY <2>1, <3>1, <3>2
    <2>3. times' = [times EXCEPT ![f] = [times[f] EXCEPT !["file"] = 1]]
      BY <1>1, <1>2 DEF RowTypes
    <2>4. QED
      BY <1>1, <2>2, <2>3 DEF RowTypes
  <1>5. current' \in [ServiceNames -> SUBSET info']
    BY <1>1, <1>2 DEF RowTypes
  <1>6. RowTypes'
    BY <1>1, <1>2, <1>3, <1>4, <1>5 DEF RowTypes, tagVars
  <1>7. MembershipInv'
    <2> SUFFICES ASSUME NEW g \in info', NEW s \in ServiceNames
                 PROVE  g \in current'[s] <=> (g \in deleted <=> s = "trash")
      BY <1>2 DEF MembershipInv
    <2>1. CASE g = f
      BY <1>1, <1>2, <2>1 DEF RowTypes, LibraryTypes
    <2>2. CASE g # f
      BY <1>1, <1>2, <2>2 DEF MembershipInv
    <2>3. QED
      BY <2>1, <2>2
  <1>8. \A s \in CacheServices :
          current'[s] \ moved' \subseteq current[s] \ moved
    BY <1>1, <1>2, ServicesAre DEF RowTypes
  <1>9. QED
    BY <1>1, <1>2, <1>6, <1>7, <1>8, TagsAlone
       DEF TablesInv, RowTypes, LibraryTypes

(* TrashFile moves a file to the trash; the caches of the services it left *)
(* are no longer about it.                                                 *)
LEMMA TrashStep ==
  ASSUME LibraryStrongInv, NEW f \in Files, TrashFile(f)
  PROVE  LibraryStrongInv'
  <1>1. RowTypes /\ MembershipInv /\ LibraryTypes /\ TablesInv
    BY DEF LibraryStrongInv, LibraryInv
  <1>2. /\ f \in info /\ Commit
        /\ current' = [s \in ServiceNames |->
             IF s = "trash" THEN current[s] \cup {f} ELSE current[s] \ {f}]
        /\ deleted' = deleted \cup {f} /\ moved' = moved \cup {f}
        /\ UNCHANGED <<hashes, info, inbox, detailVars, tagVars, tables>>
    BY DEF TrashFile, TrashCurrentRemovals
  <1>3. writes' \in 0..MaxWrites
    BY <1>1, <1>2, LibraryAssumption DEF Commit, RowTypes
  <1>4. current' \in [ServiceNames -> SUBSET info']
    BY <1>1, <1>2 DEF RowTypes
  <1>5. RowTypes'
    BY <1>1, <1>2, <1>3, <1>4 DEF RowTypes, tagVars, detailVars
  <1>6. MembershipInv'
    BY <1>1, <1>2 DEF MembershipInv
  <1>7. \A s \in CacheServices :
          current'[s] \ moved' \subseteq current[s] \ moved
    BY <1>1, <1>2, ServicesAre DEF RowTypes
  <1>8. QED
    BY <1>1, <1>2, <1>5, <1>6, <1>7, TagsAlone
       DEF TablesInv, RowTypes, LibraryTypes, detailVars

(* Mutations of one file's details, and hashes that only get an id.        *)
LEMMA DetailSteps ==
  ASSUME LibraryStrongInv,
         \/ \E F \in SUBSET Files : EnsureHashIDs(F)
         \/ \E f \in Files : SetNotes(f)
         \/ \E F \in Targets, d \in Domains : SetTime(F, d, 2)
         \/ \E F \in Targets : AssociateURLs(F)
  PROVE  LibraryStrongInv'
  <1>1. RowTypes /\ MembershipInv /\ LibraryTypes /\ TablesInv
    BY DEF LibraryStrongInv, LibraryInv
  <1>2. Commit /\ UNCHANGED <<info, current, deleted, inbox, moved, tagVars>>
    BY DEF EnsureHashIDs, SetNotes, SetTime, AssociateURLs, fileVars
  <1>3. writes' \in 0..MaxWrites /\ MembershipInv'
    BY <1>1, <1>2, LibraryAssumption DEF Commit, RowTypes, MembershipInv
  <1>4. ASSUME NEW F \in SUBSET Files, EnsureHashIDs(F)
        PROVE  LibraryStrongInv'
    <2>1. hashes' = hashes \cup F /\ UNCHANGED <<detailVars, tables>>
      BY <1>4 DEF EnsureHashIDs
    <2>2. RowTypes'
      BY <1>1, <1>2, <1>3, <2>1 DEF RowTypes, tagVars, detailVars
    <2>3. QED
      BY <1>1, <1>2, <1>3, <2>1, <2>2, TagsAlone
         DEF TablesInv, RowTypes, LibraryTypes, detailVars
  <1>5. ASSUME NEW f \in Files, SetNotes(f)
        PROVE  LibraryStrongInv'
    <2>1. /\ f \in info /\ notes' = notes \cup {f}
          /\ tables' = tables \cup {"notes"}
          /\ UNCHANGED <<hashes, urls, times>>
      BY <1>5 DEF SetNotes, fileVars
    <2>2. RowTypes'
      BY <1>1, <1>2, <1>3, <2>1 DEF RowTypes, tagVars
    <2>3. QED
      BY <1>1, <1>2, <1>3, <2>1, <2>2, TagsAlone DEF RowTypes, LibraryTypes
  <1>6. ASSUME NEW F \in Targets, NEW d \in Domains, SetTime(F, d, 2)
        PROVE  LibraryStrongInv'
    <2>1. /\ times' = [f \in Files |->
               IF f \in F THEN [times[f] EXCEPT ![d] = 2] ELSE times[f]]
          /\ UNCHANGED <<hashes, urls, notes, tables>>
      BY <1>6 DEF SetTime, fileVars
    <2>2. times' \in [Files -> [Domains -> 0..2]]
      <3>1. ASSUME NEW f \in Files
            PROVE  [times[f] EXCEPT ![d] = 2] \in [Domains -> 0..2]
        BY <1>1, <3>1 DEF RowTypes
      <3>2. QED
        BY <1>1, <2>1, <3>1 DEF RowTypes
    <2>3. RowTypes'
      BY <1>1, <1>2, <1>3, <2>1, <2>2 DEF RowTypes, tagVars
    <2>4. QED
      BY <1>1, <1>2, <1>3, <2>1, <2>3, TagsAlone
         DEF TablesInv, RowTypes, LibraryTypes
  <1>7. ASSUME NEW F \in Targets, AssociateURLs(F)
        PROVE  LibraryStrongInv'
    <2>1. /\ F \subseteq info /\ urls' = urls \cup F
          /\ UNCHANGED <<hashes, times, notes, tables>>
      BY <1>7 DEF AssociateURLs, fileVars, Targets
    <2>2. RowTypes'
      BY <1>1, <1>2, <1>3, <2>1 DEF RowTypes, tagVars
    <2>3. QED
      BY <1>1, <1>2, <1>3, <2>1, <2>2, TagsAlone
         DEF TablesInv, RowTypes, LibraryTypes
  <1>8. QED
    BY <1>4, <1>5, <1>6, <1>7

(* What AddTags does to the caches of a service.                           *)
LEMMA CachesSet ==
  ASSUME LibraryStrongInv, NEW F \in Targets, NEW t \in Tags,
         SetSpecificCurrentTagCaches(F, t), NEW s \in CacheServices
  PROVE  LET in == F \cap current[s] IN
         /\ storageCache'[s] \in [CachedStatuses -> SUBSET Pairs]
         /\ displayCache'[s] \in [DisplayStatuses -> SUBSET Pairs]
         /\ storageCache'[s]["current"]
              = storageCache[s]["current"] \cup (in \X {t})
         /\ storageCache'[s]["pending"]
              = storageCache[s]["pending"] \ (in \X {t})
         /\ storageCache'[s]["deleted"] = storageCache[s]["deleted"]
         /\ displayCache'[s]["current"]
              = displayCache[s]["current"] \cup (in \X Implied(t))
         /\ displayCache'[s]["pending"]
              = displayCache[s]["pending"] \ (in \X Implied(t))
  <1>1. /\ storageCache[s] \in [CachedStatuses -> SUBSET Pairs]
        /\ displayCache[s] \in [DisplayStatuses -> SUBSET Pairs]
    BY DEF LibraryStrongInv, LibraryTypes
  <1>2. PICK in : in = F \cap current[s]
    OBVIOUS
  <1>3. in \subseteq Files
    BY <1>2 DEF Targets, LibraryStrongInv, LibraryInv, RowTypes
  <1>4. Implied(t) \subseteq Tags
    BY LibraryAssumption DEF Implied
  <1>5. in \X {t} \in SUBSET Pairs /\ in \X Implied(t) \in SUBSET Pairs
    BY <1>3, <1>4 DEF Pairs
  <1>6. /\ storageCache'[s] = [storageCache[s] EXCEPT
             !["current"] = @ \cup (in \X {t}),
             !["pending"] = @ \ (in \X {t})]
        /\ displayCache'[s] = [displayCache[s] EXCEPT
             !["current"] = @ \cup (in \X Implied(t)),
             !["pending"] = @ \ (in \X Implied(t))]
    BY <1>2 DEF SetSpecificCurrentTagCaches
  <1>7. /\ storageCache'[s] \in [CachedStatuses -> SUBSET Pairs]
        /\ displayCache'[s] \in [DisplayStatuses -> SUBSET Pairs]
        /\ storageCache'[s]["current"]
             = storageCache[s]["current"] \cup (in \X {t})
        /\ storageCache'[s]["pending"]
             = storageCache[s]["pending"] \ (in \X {t})
        /\ storageCache'[s]["deleted"] = storageCache[s]["deleted"]
        /\ displayCache'[s]["current"]
             = displayCache[s]["current"] \cup (in \X Implied(t))
        /\ displayCache'[s]["pending"]
             = displayCache[s]["pending"] \ (in \X Implied(t))
    BY <1>1, <1>5, <1>6 DEF CachedStatuses, DisplayStatuses
  <1>8. QED
    BY <1>2, <1>7

(* AddTags: mapping rows and caches change together.                       *)
LEMMA AddTagsStep ==
  ASSUME LibraryStrongInv, NEW F \in Targets, NEW t \in Tags, AddTags(F, t)
  PROVE  LibraryStrongInv'
  <1>1. /\ RowTypes /\ MembershipInv /\ LibraryTypes /\ TablesInv
        /\ StatusInv /\ CachesInv
    BY DEF LibraryStrongInv, LibraryInv
  <1>2. /\ Commit /\ F \subseteq info /\ F \subseteq Files
        /\ mappings' = [status \in Statuses |->
             IF status = "current" THEN mappings[status] \cup (F \X {t})
             ELSE mappings[status] \ (F \X {t})]
        /\ tables' = tables \cup {"mappings"}
        /\ UNCHANGED <<fileVars, detailVars>>
    BY <1>1 DEF AddTags, SetCurrentTagMapping, Targets, RowTypes
  <1>3. F \X {t} \in SUBSET Pairs
    BY <1>2 DEF Pairs
  <1>4. /\ mappings' \in [Statuses -> SUBSET Pairs]
        /\ mappings'["current"] = mappings["current"] \cup (F \X {t})
        /\ \A st \in Statuses \ {"current"} :
             mappings'[st] = mappings[st] \ (F \X {t})
    BY <1>1, <1>2, <1>3 DEF RowTypes, Statuses
  <1>5. /\ writes' \in 0..MaxWrites /\ names' = names
        /\ hydrusBundle' = hydrusBundle
        /\ search' = [step |-> "idle"] \/ search' \in Searches
        /\ SearchFindsTagged'
    BY <1>2, <1>4, SearchKept DEF fileVars
  <1>6. RowTypes' /\ MembershipInv'
    BY <1>1, <1>2, <1>4, <1>5
       DEF RowTypes, MembershipInv, fileVars, detailVars
  <1>7. StatusInv' /\ TablesInv'
    BY <1>1, <1>2, <1>4
       DEF StatusInv, TablesInv, Statuses, fileVars, detailVars
  <1>8. ASSUME ~hydrusBundle PROVE LibraryTypes' /\ CachesInv'
    BY <1>1, <1>2, <1>5, <1>8
       DEF AddTags, LibraryTypes, CachesInv, fileVars
  <1>9. ASSUME hydrusBundle PROVE LibraryTypes' /\ CachesInv'
    <2> DEFINE in(s) == F \cap current[s]
    <2>1. /\ storageCache' = [s \in CacheServices |->
               [storageCache[s] EXCEPT
                 !["current"] = @ \cup (in(s) \X {t}),
                 !["pending"] = @ \ (in(s) \X {t})]]
          /\ displayCache' = [s \in CacheServices |->
               [displayCache[s] EXCEPT
                 !["current"] = @ \cup (in(s) \X Implied(t)),
                 !["pending"] = @ \ (in(s) \X Implied(t))]]
      BY <1>9 DEF AddTags, SetSpecificCurrentTagCaches
    <2>2. SetSpecificCurrentTagCaches(F, t)
      BY <1>9 DEF AddTags
    <2>3. ASSUME NEW s \in CacheServices
          PROVE  /\ storageCache'[s] \in [CachedStatuses -> SUBSET Pairs]
                 /\ displayCache'[s] \in [DisplayStatuses -> SUBSET Pairs]
                 /\ storageCache'[s]["current"]
                      = storageCache[s]["current"] \cup (in(s) \X {t})
                 /\ storageCache'[s]["pending"]
                      = storageCache[s]["pending"] \ (in(s) \X {t})
                 /\ storageCache'[s]["deleted"] = storageCache[s]["deleted"]
                 /\ displayCache'[s]["current"]
                      = displayCache[s]["current"] \cup (in(s) \X Implied(t))
                 /\ displayCache'[s]["pending"]
                      = displayCache[s]["pending"] \ (in(s) \X Implied(t))
      BY <2>2, CachesSet
    <2>4. LibraryTypes'
      <3>1. /\ storageCache' \in
                 [CacheServices -> [CachedStatuses -> SUBSET Pairs]]
            /\ displayCache' \in
                 [CacheServices -> [DisplayStatuses -> SUBSET Pairs]]
        BY <2>1, <2>3
      <3>2. QED
        BY <1>1, <1>2, <1>5, <3>1 DEF LibraryTypes, fileVars
    <2>5. ASSUME NEW s \in CacheServices, NEW f \in current[s] \ moved
          PROVE  CachesAgree(s, f)'
      <3>1. CachesAgree(s, f)
        BY <1>1, <1>9, <2>5 DEF CachesInv
      <3>2. f \in F <=> f \in in(s)
        BY <2>5
      <3>3. \A x : /\ x \in in(s) \X {t} <=>
                        \E g \in in(s) : x = <<g, t>>
                   /\ x \in F \X {t} <=> \E g \in F : x = <<g, t>>
        OBVIOUS
      <3>4. \A st \in {"current", "pending"} :
              RowsOf({f}, storageCache'[s][st]) = RowsOf({f}, mappings'[st])
        BY <1>4, <2>3, <3>1, <3>2 DEF CachesAgree, RowsOf, Statuses
      <3>5. RowsOf({f}, mappings'["deleted"])
              \subseteq RowsOf({f}, storageCache'[s]["deleted"])
        BY <1>4, <2>3, <3>1 DEF CachesAgree, RowsOf, Statuses
      <3>6. RowsOf({f}, displayCache'[s]["current"])
              = DisplayOf(RowsOf({f}, mappings'["current"]))
        <4> SUFFICES ASSUME NEW x
                     PROVE  x \in RowsOf({f}, displayCache'[s]["current"]) <=>
                            x \in DisplayOf(RowsOf({f}, mappings'["current"]))
          OBVIOUS
        <4>1. x \in RowsOf({f}, displayCache'[s]["current"]) <=>
                \/ x \in RowsOf({f}, displayCache[s]["current"])
                \/ f \in F /\ x \in {f} \X Implied(t)
          BY <2>3, <3>2 DEF RowsOf
        <4>2. RowsOf({f}, mappings'["current"])
                = IF f \in F
                  THEN RowsOf({f}, mappings["current"]) \cup {<<f, t>>}
                  ELSE RowsOf({f}, mappings["current"])
          BY <1>4, <3>3 DEF RowsOf
        <4>3. x \in DisplayOf(RowsOf({f}, mappings'["current"])) <=>
                \/ x \in DisplayOf(RowsOf({f}, mappings["current"]))
                \/ f \in F /\ x \in {f} \X Implied(t)
          <5>1. CASE f \in F
            BY <4>2, <5>1, DisplayGrows
          <5>2. CASE f \notin F
            BY <4>2, <5>2
          <5>3. QED
            BY <5>1, <5>2
        <4>4. QED
          BY <3>1, <4>1, <4>3 DEF CachesAgree
      <3>7. RowsOf({f}, displayCache'[s]["pending"])
              \subseteq DisplayOf(RowsOf({f}, mappings'["pending"]))
        <4> SUFFICES ASSUME NEW x \in RowsOf({f}, displayCache'[s]["pending"])
                     PROVE  x \in DisplayOf(RowsOf({f}, mappings'["pending"]))
          OBVIOUS
        <4>1. /\ x \in RowsOf({f}, displayCache[s]["pending"])
              /\ ~(f \in F /\ \E u \in Implied(t) : x = <<f, u>>)
          BY <2>3, <3>2 DEF RowsOf
        <4>2. x \in DisplayOf(RowsOf({f}, mappings["pending"]))
          BY <3>1, <4>1 DEF CachesAgree
        <4>3. PICK p \in RowsOf({f}, mappings["pending"]) :
                \E u \in Implied(p[2]) : x = <<p[1], u>>
          BY <4>2, InDisplay
        <4>4. p[1] = f /\ p \in mappings["pending"] /\ p \in Pairs
          BY <1>1, <4>3 DEF RowsOf, RowTypes, Statuses
        <4>5. p \notin F \X {t}
          BY <4>1, <4>3, <4>4
        <4>6. p \in RowsOf({f}, mappings'["pending"])
          BY <1>4, <4>4, <4>5 DEF RowsOf, Statuses
        <4>7. QED
          BY <4>3, <4>6, InDisplay
      <3>8. hydrusBundle' = hydrusBundle
        BY <1>5
      <3>9. QED
        BY <1>9, <3>4, <3>5, <3>6, <3>7, <3>8
           DEF CachesAgree, RowsOf, DisplayOf, Implied
    <2>6. QED
      BY <1>2, <1>5, <2>4, <2>5 DEF CachesInv, fileVars
  <1>10. QED
    BY <1>5, <1>6, <1>7, <1>8, <1>9 DEF LibraryStrongInv, LibraryInv

(* Every transaction under the write gate.                                 *)
LEMMA MutationStep ==
  ASSUME LibraryStrongInv, Mutation PROVE LibraryStrongInv'
  BY ImportStep, TrashStep, DetailSteps, AddTagsStep DEF Mutation

(* Reads change no row.                                                    *)
LEMMA RowsUnchanged ==
  ASSUME LibraryStrongInv,
         UNCHANGED <<hydrusBundle, fileVars, detailVars, tagVars, tables,
                     writes>>
  PROVE  LibraryInv'
  <1>1. LibraryInv
    BY DEF LibraryStrongInv
  <1>2. RowTypes' /\ MembershipInv' /\ StatusInv' /\ TablesInv'
    BY <1>1 DEF LibraryInv, RowTypes, MembershipInv, StatusInv, TablesInv,
                fileVars, detailVars, tagVars
  <1>3. CachesInv'
    <2> SUFFICES ASSUME hydrusBundle, NEW s \in CacheServices,
                        NEW f \in current[s] \ moved
                 PROVE  CachesAgree(s, f)'
      BY DEF CachesInv, fileVars
    <2>1. CachesAgree(s, f)
      BY <1>1 DEF LibraryInv, CachesInv
    <2>2. QED
      BY <2>1 DEF CachesAgree, RowsOf, DisplayOf, Implied, tagVars
  <1>4. QED
    BY <1>2, <1>3 DEF LibraryInv

(* Only the names of the bundle that reads them are cached.                *)
LEMMA NamesCached ==
  ASSUME LibraryTypes, NEW b \in {"metadata", "browse"},
         NEW t \in {"mappings", "notes"}, CacheNames(b, t)
  PROVE  /\ names' \in [{"metadata", "browse"} ->
                         [{"mappings", "notes"} ->
                           {"unread", "absent", "present"}]]
         /\ \A c \in {"metadata", "browse"} : c # b => names'[c] = names[c]
  <1>1. NamesOf(b, t) \in {"unread", "absent", "present"}
    BY DEF NamesOf, LibraryTypes
  <1>2. names' = [names EXCEPT ![b] = [names[b] EXCEPT ![t] = NamesOf(b, t)]]
    BY DEF CacheNames, LibraryTypes
  <1>3. [names[b] EXCEPT ![t] = NamesOf(b, t)]
          \in [{"mappings", "notes"} -> {"unread", "absent", "present"}]
    BY <1>1 DEF LibraryTypes
  <1>4. QED
    BY <1>2, <1>3 DEF LibraryTypes

(* The query of a search finds the files of the library with the tags.     *)
LEMMA SearchStep ==
  ASSUME LibraryStrongInv, SearchByTagsQuery PROVE LibraryStrongInv'
  <1>1. /\ RowTypes /\ MembershipInv /\ TablesInv /\ LibraryTypes
        /\ search \in Searches
    BY DEF LibraryStrongInv, LibraryInv, SearchByTagsQuery
  <1>2. /\ search' = [search EXCEPT !.step = "answered",
                                    !.found = Found(search.tags)]
        /\ UNCHANGED <<hydrusBundle, fileVars, detailVars, tagVars, tables,
                       writes, names>>
    BY DEF SearchByTagsQuery
  <1>3. /\ "combinedLocal" \in ServiceNames
        /\ current["combinedLocal"] = info \ deleted
    BY <1>1, ServicesAre DEF RowTypes, MembershipInv
  <1>4. Found(search.tags) \subseteq Files
    BY <1>1, <1>3 DEF Found, RecentBrowseTable, RowTypes
  <1>5. /\ search' \in Searches /\ search'.tags = search.tags
        /\ search'.found = Found(search.tags) /\ search'.calm = search.calm
    BY <1>1, <1>2, <1>4 DEF Searches
  <1>6. \A f \in Found(search.tags) :
          f \in info /\ \A t \in search.tags : <<f, t>> \in mappings["current"]
    BY <1>3 DEF Found, RecentBrowseTable
  <1>7. ~Stale("browse", "mappings") => Found(search.tags) =
          {f \in info \ deleted :
             \A t \in search.tags : <<f, t>> \in mappings["current"]}
    <2>1. CASE names["browse"]["mappings"] # "absent"
      BY <1>3, <2>1 DEF Found, RecentBrowseTable
    <2>2. CASE "mappings" \notin tables
      <3>1. mappings["current"] = {}
        BY <1>1, <2>2 DEF TablesInv, Statuses
      <3>2. search.tags \in (SUBSET Tags) \ {{}}
        BY <1>1 DEF Searches
      <3>3. PICK t : t \in search.tags
        BY <3>2
      <3>4. \A f : <<f, t>> \notin mappings["current"]
        BY <3>1
      <3>5. Found(search.tags) = {}
        BY <3>3, <3>4 DEF Found
      <3>6. {f \in info \ deleted :
               \A u \in search.tags : <<f, u>> \in mappings["current"]} = {}
        BY <3>3, <3>4
      <3>7. QED
        BY <3>5, <3>6
    <2>3. QED
      BY <2>1, <2>2 DEF Stale
  <1>8. UNCHANGED <<info, deleted, mappings, tables, names>>
    BY <1>2 DEF fileVars, tagVars
  <1>9. SearchFindsTagged'
    BY <1>5, <1>6, <1>7, <1>8 DEF SearchFindsTagged, Stale
  <1>10. LibraryInv' /\ LibraryTypes'
    BY <1>1, <1>2, RowsUnchanged DEF LibraryTypes, fileVars, tagVars
  <1>11. QED
    BY <1>5, <1>9, <1>10 DEF LibraryStrongInv

(* Every step of a metadata request or a search.                           *)
LEMMA ReadingStep ==
  ASSUME LibraryStrongInv, Reading PROVE LibraryStrongInv'
  <1>1. CASE SearchByTagsQuery
    BY <1>1, SearchStep
  <1>2. ASSUME NEW T \in (SUBSET Tags) \ {{}}, SearchByTagsBegins(T)
        PROVE  LibraryStrongInv'
    <2>1. /\ search' \in Searches /\ search'.step = "query"
          /\ CacheNames("browse", "mappings")
          /\ UNCHANGED <<hydrusBundle, fileVars, detailVars, tagVars, tables,
                         writes>>
      BY <1>2 DEF SearchByTagsBegins, Searches
    <2>2. LibraryTypes'
      BY <2>1, NamesCached DEF LibraryStrongInv, LibraryTypes, fileVars,
        tagVars
    <2>3. QED
      BY <2>1, <2>2, RowsUnchanged DEF LibraryStrongInv, SearchFindsTagged
  <1>3. CASE SearchByTagsReturns
    <2>1. /\ search' = [step |-> "idle"]
          /\ UNCHANGED <<hydrusBundle, fileVars, detailVars, tagVars, tables,
                         writes, names>>
      BY <1>3 DEF SearchByTagsReturns
    <2>2. QED
      BY <2>1, RowsUnchanged
         DEF LibraryStrongInv, LibraryTypes, SearchFindsTagged, fileVars,
             tagVars
  <1>4. ASSUME \/ \E F \in (SUBSET Files) \ {{}} : GetMetadataBegins(F)
               \/ GetMetadataQuery \/ GetMetadataReturns
        PROVE  LibraryStrongInv'
    <2>1. UNCHANGED <<hydrusBundle, fileVars, detailVars, tagVars, tables,
                      writes, search>>
      BY <1>4 DEF GetMetadataBegins, GetMetadataQuery, GetMetadataReturns
    <2>2. \/ CacheNames("metadata", "notes")
          \/ CacheNames("metadata", "mappings") \/ UNCHANGED names
      BY <1>4 DEF GetMetadataBegins, GetMetadataQuery, GetMetadataReturns
    <2>3. /\ names' \in [{"metadata", "browse"} ->
                          [{"mappings", "notes"} ->
                            {"unread", "absent", "present"}]]
          /\ names'["browse"] = names["browse"]
      BY <2>2, NamesCached DEF LibraryStrongInv, LibraryTypes
    <2>4. LibraryTypes'
      BY <2>1, <2>3 DEF LibraryStrongInv, LibraryTypes, fileVars, tagVars
    <2>5. SearchFindsTagged'
      BY <2>1, <2>3
         DEF LibraryStrongInv, SearchFindsTagged, Stale, fileVars, tagVars
    <2>6. QED
      BY <2>1, <2>4, <2>5, RowsUnchanged DEF LibraryStrongInv
  <1>5. QED
    BY <1>1, <1>2, <1>3, <1>4 DEF Reading

(* One file that was imported before, with one mapping or none.            *)
LEMMA LibraryInitial == LibraryInit => LibraryStrongInv
  <1> SUFFICES ASSUME LibraryInit PROVE LibraryStrongInv
    OBVIOUS
  <1> DEFINE old == CHOOSE f \in Files : TRUE
  <1>1. old \in Files
    BY LibraryAssumption
  <1>2. PICK t \in Tags, status \in Statuses \cup {"none"} :
          /\ ~hydrusBundle => status = "none"
          /\ hashes = {old} /\ info = {old}
          /\ current =
               [s \in ServiceNames |-> IF s = "trash" THEN {} ELSE {old}]
          /\ inbox = {old}
          /\ mappings = [st \in Statuses |->
               IF st = status \/ (st = "current" /\ status = "petitioned")
               THEN {<<old, t>>} ELSE {}]
          /\ times = [f \in Files |-> NoTime]
    BY DEF LibraryInit
  <1> HIDE DEF old
  <1>3. /\ hydrusBundle \in BOOLEAN
        /\ deleted = {} /\ urls = {} /\ notes = {} /\ moved = {} /\ writes = 0
        /\ storageCache = [s \in CacheServices |-> [st \in CachedStatuses |->
             IF hydrusBundle THEN CacheOf(s, mappings[st]) ELSE {}]]
        /\ displayCache = [s \in CacheServices |-> [st \in DisplayStatuses |->
             IF hydrusBundle THEN CacheOf(s, DisplayOf(mappings[st]))
             ELSE {}]]
        /\ tables = IF hydrusBundle THEN {"mappings", "notes"} ELSE {}
        /\ names = [b \in {"metadata", "browse"} |->
                     [x \in {"mappings", "notes"} |-> "unread"]]
        /\ search = [step |-> "idle"]
    BY DEF LibraryInit
  <1>4. \A st \in Statuses :
          /\ mappings[st] \subseteq Pairs
          /\ mappings[st] = {} \/ mappings[st] = {<<old, t>>}
          /\ mappings[st] # {} => hydrusBundle
    BY <1>1, <1>2 DEF Pairs, Statuses
  <1>5. \A st \in Statuses : RowsOf({old}, mappings[st]) = mappings[st]
    BY <1>4 DEF RowsOf
  <1>6. \A st \in Statuses :
          /\ DisplayOf(mappings[st]) \subseteq Pairs
          /\ RowsOf({old}, DisplayOf(mappings[st])) = DisplayOf(mappings[st])
    <2> SUFFICES ASSUME NEW st \in Statuses
                 PROVE  \A x \in DisplayOf(mappings[st]) :
                          x \in Pairs /\ x[1] = old
      BY DEF RowsOf
    <2>1. CASE mappings[st] = {}
      BY <2>1 DEF DisplayOf
    <2>2. CASE mappings[st] = {<<old, t>>}
      <3>1. Implied(t) \subseteq Tags
        BY LibraryAssumption DEF Implied
      <3>2. \A x : x \in DisplayOf({<<old, t>>}) =>
              x \in {old} \X Implied(t)
        BY DEF DisplayOf
      <3>3. QED
        BY <1>1, <2>2, <3>1, <3>2 DEF Pairs
    <2>3. QED
      BY <1>4, <2>1, <2>2
  <1>7. RowTypes
    <2>1. 0 \in 0..MaxWrites /\ 0 \in 0..2
      BY LibraryAssumption
    <2>2. NoTime \in [Domains -> 0..2]
      BY <2>1 DEF NoTime
    <2>3. mappings \in [Statuses -> SUBSET Pairs]
      BY <1>2, <1>4
    <2>4. QED
      BY <1>1, <1>2, <1>3, <2>1, <2>2, <2>3 DEF RowTypes
  <1>8. MembershipInv
    BY <1>2, <1>3 DEF MembershipInv
  <1>9. StatusInv
    BY <1>2 DEF StatusInv, Statuses
  <1>10. TablesInv
    BY <1>3, <1>4 DEF TablesInv
  <1>11. LibraryTypes
    <2>1. ASSUME NEW s \in CacheServices
          PROVE  /\ \A st \in CachedStatuses :
                      (IF hydrusBundle THEN CacheOf(s, mappings[st]) ELSE {})
                        \subseteq Pairs
                 /\ \A st \in DisplayStatuses :
                      (IF hydrusBundle THEN CacheOf(s, DisplayOf(mappings[st]))
                       ELSE {}) \subseteq Pairs
      BY <1>4, <1>6
         DEF CacheOf, RowsOf, CachedStatuses, DisplayStatuses, Statuses
    <2>2. /\ storageCache \in
               [CacheServices -> [CachedStatuses -> SUBSET Pairs]]
          /\ displayCache \in
               [CacheServices -> [DisplayStatuses -> SUBSET Pairs]]
      BY <1>3, <2>1
    <2>3. QED
      BY <1>3, <2>2 DEF LibraryTypes
  <1>12. CachesInv
    <2> SUFFICES ASSUME hydrusBundle, NEW s \in CacheServices,
                        NEW f \in current[s]
                 PROVE  CachesAgree(s, f)
      BY <1>3 DEF CachesInv
    <2>1. f = old /\ current[s] = {old}
      BY <1>2, ServicesAre
    <2>2. /\ \A st \in CachedStatuses :
               storageCache[s][st] = CacheOf(s, mappings[st])
          /\ \A st \in DisplayStatuses :
               displayCache[s][st] = CacheOf(s, DisplayOf(mappings[st]))
      BY <1>3
    <2>3. /\ \A st \in CachedStatuses : storageCache[s][st] = mappings[st]
          /\ \A st \in DisplayStatuses :
               displayCache[s][st] = DisplayOf(mappings[st])
      BY <1>5, <1>6, <2>1, <2>2
         DEF CacheOf, CachedStatuses, DisplayStatuses, Statuses
    <2>4. QED
      BY <1>5, <1>6, <2>1, <2>3
         DEF CachesAgree, CachedStatuses, DisplayStatuses, Statuses
  <1>13. QED
    BY <1>3, <1>7, <1>8, <1>9, <1>10, <1>11, <1>12
       DEF LibraryStrongInv, LibraryInv, SearchFindsTagged

(* LibraryStrongInv holds of every state, for any files and tags, siblings *)
(* and parents, and any number of mutations.                               *)
THEOREM LibraryInvariant == LibrarySpec => []LibraryStrongInv
  <1>1. LibraryStrongInv /\ UNCHANGED libraryVars => LibraryStrongInv'
    <2> SUFFICES ASSUME LibraryStrongInv, UNCHANGED libraryVars
                 PROVE  LibraryStrongInv'
      OBVIOUS
    <2>1. LibraryInv'
      BY RowsUnchanged DEF libraryVars
    <2>2. QED
      BY <2>1 DEF libraryVars, readVars, fileVars, tagVars, LibraryStrongInv,
                  LibraryTypes, SearchFindsTagged, Stale
  <1>2. LibraryStrongInv /\ [LibraryNext]_libraryVars => LibraryStrongInv'
    BY <1>1, MutationStep, ReadingStep DEF LibraryNext
  <1>3. QED
    BY LibraryInitial, <1>2, PTL DEF LibrarySpec

(* What the mutations of internal/db/hydrusdb keep of the rows of a        *)
(* bundle: memberships, statuses, optional tables, specific caches.        *)
THEOREM RowsAgree == LibrarySpec => []LibraryInv
  <1>1. LibraryStrongInv => LibraryInv
    BY DEF LibraryStrongInv
  <1>2. QED
    BY <1>1, LibraryInvariant, PTL

(* SearchByTags returns the files that have every tag asked for.           *)
THEOREM SearchesFindTagged == LibrarySpec => []SearchFindsTagged
  <1>1. LibraryStrongInv => SearchFindsTagged
    BY DEF LibraryStrongInv
  <1>2. QED
    BY <1>1, LibraryInvariant, PTL

(***************************************************************************)
(* Library: metadata reads, query by query.                                *)
(***************************************************************************)

(* The queries of a metadata request are all different.                    *)
LEMMA QueriesAre ==
  /\ DOMAIN Queries = 1..19 /\ Len(Queries) = 19 /\ Answered = 20
  /\ \A i, j \in 1..19 : Queries[i] = Queries[j] => i = j
  /\ Queries[1] = "hashes" /\ Queries[2] = "info" /\ Queries[3] = "inbox"
  /\ Queries[4] = "fileTime" /\ Queries[5] = "siteTime"
  /\ Queries[6] = "urls" /\ Queries[7] = "local" /\ Queries[8] = "storage"
  /\ Queries[9] = "combinedLocal" /\ Queries[10] = "deletedFrom"
  /\ Queries[11] = "combinedFile" /\ Queries[12] = "trash"
  /\ Queries[13] = "notes" /\ Queries[14] = "current"
  /\ Queries[15] = "deleted" /\ Queries[16] = "pending"
  /\ Queries[17] = "petitioned" /\ Queries[18] = "displayCurrent"
  /\ Queries[19] = "displayPending"
  <1>1. Len(Queries) = 19 /\ DOMAIN Queries = 1..19
    BY DEF Queries
  <1>2. Answered = 20
    BY <1>1 DEF Answered
  <1>3. /\ Queries[1] = "hashes" /\ Queries[2] = "info" /\ Queries[3] = "inbox"
        /\ Queries[4] = "fileTime" /\ Queries[5] = "siteTime"
        /\ Queries[6] = "urls" /\ Queries[7] = "local"
        /\ Queries[8] = "storage"
        /\ Queries[9] = "combinedLocal" /\ Queries[10] = "deletedFrom"
        /\ Queries[11] = "combinedFile" /\ Queries[12] = "trash"
        /\ Queries[13] = "notes" /\ Queries[14] = "current"
        /\ Queries[15] = "deleted" /\ Queries[16] = "pending"
        /\ Queries[17] = "petitioned" /\ Queries[18] = "displayCurrent"
        /\ Queries[19] = "displayPending"
    BY DEF Queries
  <1>4. \A i, j \in 1..19 : Queries[i] = Queries[j] => i = j
    BY <1>3
  <1>5. QED
    BY <1>1, <1>2, <1>3, <1>4

(* They were asked in that order.                                          *)
LEMMA AskedInOrder ==
  ASSUME ReadTypes, read.step # 0, NEW i \in 1..19
  PROVE  Asked(Queries[i]) <=> i < read.step
  <1>1. /\ read.step \in 1..20
        /\ DOMAIN read.row = {Queries[j] : j \in 1..(read.step - 1)}
    BY QueriesAre DEF ReadTypes
  <1>2. CASE i < read.step
    BY <1>1, <1>2 DEF Asked
  <1>3. CASE ~(i < read.step)
    <2>1. ASSUME NEW j \in 1..(read.step - 1), Queries[i] = Queries[j]
          PROVE  FALSE
      <3>1. j \in 1..19 /\ j # i
        BY <1>1, <1>3
      <3>2. QED
        BY <2>1, <3>1, QueriesAre
    <2>2. QED
      BY <1>1, <1>3, <2>1 DEF Asked
  <1>4. QED
    BY <1>2, <1>3

(* What a query adds to a read, and leaves as it is.                       *)
LEMMA QueryMade ==
  ASSUME ReadTypes, GetMetadataQuery, NEW q, q = Queries[read.step]
  PROVE  /\ read.step \in 1..19 /\ ~Asked(q) /\ Asked(q)'
         /\ ReadTypes' /\ read'.step # 0
         /\ read'.files = read.files /\ read'.calm = read.calm
         /\ read'.before = read.before
         /\ read'.row[q] = Answer(q, read.files, read.row)
         /\ \A k : k # q => (Asked(k)' <=> Asked(k))
         /\ \A k : Asked(k) => read'.row[k] = read.row[k]
  <1>1. read.step \in 1..19
    BY QueriesAre DEF GetMetadataQuery
  <1>2. ~Asked(q)
    BY <1>1, AskedInOrder
  <1>3. PICK row : row =
          [k \in DOMAIN read.row \cup {q} |->
             IF k = q THEN Answer(q, read.files, read.row) ELSE read.row[k]]
    OBVIOUS
  <1>4. read' = [step |-> read.step + 1, files |-> read.files, row |-> row,
                 calm |-> read.calm, before |-> read.before]
    <2>1. read = [step |-> read.step, files |-> read.files, row |-> read.row,
                  calm |-> read.calm, before |-> read.before]
      BY <1>1 DEF ReadTypes
    <2>2. read' = [read EXCEPT !.step = read.step + 1, !.row = row]
      BY <1>3 DEF GetMetadataQuery
    <2>3. QED
      BY <2>1, <2>2
  <1>5. /\ DOMAIN row = DOMAIN read.row \cup {q}
        /\ row[q] = Answer(q, read.files, read.row)
        /\ \A k \in DOMAIN read.row : k # q => row[k] = read.row[k]
    BY <1>3
  <1>6. /\ Asked(q)' /\ (\A k : k # q => (Asked(k)' <=> Asked(k)))
        /\ \A k : Asked(k) => read'.row[k] = read.row[k]
    BY <1>2, <1>4, <1>5 DEF Asked
  <1>7. ReadTypes'
    <2>1. /\ read.files \subseteq Files /\ read.calm \in BOOLEAN
          /\ DOMAIN read.row = {Queries[i] : i \in 1..(read.step - 1)}
      BY <1>1 DEF ReadTypes
    <2>2. DOMAIN row = {Queries[i] : i \in 1..read.step}
      BY <1>1, <1>5, <2>1
    <2>3. (read.step + 1) - 1 = read.step /\ read.step + 1 \in 1..20
      BY <1>1
    <2>4. QED
      BY <1>4, <2>1, <2>2, <2>3, QueriesAre DEF ReadTypes
  <1>8. QED
    BY <1>1, <1>2, <1>4, <1>5, <1>6, <1>7

(* Which lookup a query is.                                                *)
LEMMA AnswersAre ==
  ASSUME NEW F, NEW row
  PROVE  /\ Answer("hashes", F, row) = resolveHashes(F)
         /\ Answer("info", F, row) = lookupBasicRecords(F)
         /\ Answer("inbox", F, row) = lookupInbox(F)
         /\ Answer("fileTime", F, row) = lookupFileModifiedTimestamps(F)
         /\ Answer("siteTime", F, row) = lookupDomainModifiedTimestamps(F)
         /\ Answer("urls", F, row) = lookupKnownURLs(F)
         /\ Answer("deletedFrom", F, row) = lookupDeletedMemberships(F)
         /\ Answer("notes", F, row) = lookupFileNotes(F)
         /\ Answer("displayCurrent", F, row)
              = lookupDisplayTags(F, "current", row)
         /\ \A st \in Statuses : Answer(st, F, row)
              = lookupStorageTags(F, st, row)
         /\ \A s \in ServiceNames : Answer(s, F, row)
              = lookupCurrentMemberships(F, s)
  <1>1. ASSUME NEW st \in Statuses
        PROVE  Answer(st, F, row) = lookupStorageTags(F, st, row)
    BY DEF Answer, Statuses
  <1>2. ASSUME NEW s \in ServiceNames
        PROVE  Answer(s, F, row) = lookupCurrentMemberships(F, s)
    BY ServicesAre DEF Answer, Statuses
  <1>3. /\ Answer("hashes", F, row) = resolveHashes(F)
        /\ Answer("info", F, row) = lookupBasicRecords(F)
        /\ Answer("inbox", F, row) = lookupInbox(F)
        /\ Answer("fileTime", F, row) = lookupFileModifiedTimestamps(F)
        /\ Answer("siteTime", F, row) = lookupDomainModifiedTimestamps(F)
        /\ Answer("urls", F, row) = lookupKnownURLs(F)
    BY DEF Answer, Statuses
  <1>4. /\ Answer("deletedFrom", F, row) = lookupDeletedMemberships(F)
        /\ Answer("notes", F, row) = lookupFileNotes(F)
        /\ Answer("displayCurrent", F, row)
             = lookupDisplayTags(F, "current", row)
    BY DEF Answer, Statuses
  <1>5. QED
    BY <1>1, <1>2, <1>3, <1>4

(* groupHashIDsByTagCachedFileServiceID: whatever the sizes, one of the    *)
(* services is first.                                                      *)
LEMMA OneIsFirst ==
  ASSUME NEW in \in SUBSET (1..5), in # {}, NEW size \in [1..5 -> Nat]
  PROVE  \E i \in in : \A j \in in \ {i} :
           size[i] > size[j] \/ (size[i] = size[j] /\ i < j)
  <1> DEFINE Before(i, j) ==
        size[i] > size[j] \/ (size[i] = size[j] /\ i < j)
  <1> DEFINE First(n) == (in \cap (1..n) # {}) =>
        \E i \in in \cap (1..n) :
          \A j \in (in \cap (1..n)) \ {i} : Before(i, j)
  <1>1. ASSUME NEW n \in 0..4, First(n) PROVE First(n + 1)
    <2>1. CASE n + 1 \notin in
      <3>1. in \cap (1..(n + 1)) = in \cap (1..n)
        BY <2>1
      <3>2. QED
        BY <1>1, <3>1
    <2>2. CASE n + 1 \in in /\ in \cap (1..n) = {}
      <3>1. in \cap (1..(n + 1)) = {n + 1}
        BY <2>2
      <3>2. QED
        BY <3>1
    <2>3. CASE n + 1 \in in /\ in \cap (1..n) # {}
      <3>1. PICK i \in in \cap (1..n) :
              \A j \in (in \cap (1..n)) \ {i} : Before(i, j)
        BY <1>1, <2>3
      <3>2. in \cap (1..(n + 1)) = (in \cap (1..n)) \cup {n + 1}
        BY <2>3
      <3>3. /\ \A k \in in : size[k] \in Nat
            /\ i \in 1..n /\ n + 1 \in 1..5 /\ i # n + 1
        BY <3>1
      <3>4. CASE size[i] >= size[n + 1]
        <4>1. Before(i, n + 1)
          BY <2>2, <2>3, <3>3, <3>4
        <4>2. \A j \in (in \cap (1..(n + 1))) \ {i} : Before(i, j)
          BY <3>1, <3>2, <4>1
        <4>3. QED
          BY <3>2, <4>2
      <3>5. CASE size[n + 1] > size[i]
        <4>1. \A j \in (in \cap (1..(n + 1))) \ {n + 1} : Before(n + 1, j)
          BY <3>1, <3>2, <3>3, <3>5
        <4>2. QED
          BY <2>3, <3>2, <4>1
      <3>6. QED
        BY <2>3, <3>3, <3>4, <3>5
    <2>4. QED
      BY <2>1, <2>2, <2>3
  <1>2. First(0)
    OBVIOUS
  <1> HIDE DEF First
  <1>3. First(1)
    BY <1>1, <1>2
  <1>4. First(2)
    BY <1>1, <1>3
  <1>5. First(3)
    BY <1>1, <1>4
  <1>6. First(4)
    BY <1>1, <1>5
  <1>7. First(5)
    BY <1>1, <1>6
  <1>8. in \cap (1..5) = in
    OBVIOUS
  <1>9. QED
    BY <1>7, <1>8 DEF First

(* A file is read from a service it was seen in, if any has a cache.       *)
LEMMA GroupHoldsFile ==
  ASSUME NEW F \in SUBSET Files, NEW m,
         \A s \in ServiceNames : m[s] \subseteq F,
         NEW f
  PROVE  \/ GroupServiceOf(f, m) = "combinedFile"
         \/ /\ GroupServiceOf(f, m) \in CacheServices
            /\ f \in m[GroupServiceOf(f, m)]
  <1> DEFINE in == {i \in DOMAIN FileServices :
               /\ SupportsSpecificMappingCache(FileServices[i])
               /\ f \in m[FileServices[i]]}
             size(i) == Cardinality(m[FileServices[i]])
             Before(i, j) == size(i) > size(j) \/ (size(i) = size(j) /\ i < j)
             first == CHOOSE i \in in : \A j \in in \ {i} : Before(i, j)
  <1>1. DOMAIN FileServices = 1..5
    BY DEF FileServices
  <1>2. GroupServiceOf(f, m) =
          IF in = {} THEN "combinedFile" ELSE FileServices[first]
    BY DEF GroupServiceOf
  <1>3. CASE in = {}
    BY <1>2, <1>3
  <1>4. CASE in # {}
    <2>1. PICK sizes : sizes = [i \in 1..5 |-> size(i)]
      OBVIOUS
    <2>2. sizes \in [1..5 -> Nat]
      <3>1. ASSUME NEW i \in 1..5 PROVE size(i) \in Nat
        <4>1. FileServices[i] \in ServiceNames
          BY <1>1 DEF ServiceNames
        <4>2. IsFiniteSet(m[FileServices[i]])
          BY <4>1, FS_Subset, LibraryAssumption
        <4>3. QED
          BY <4>2, FS_CardinalityType
      <3>2. QED
        BY <2>1, <3>1
    <2>3. in \in SUBSET (1..5)
      BY <1>1
    <2>4. \E i \in in : \A j \in in \ {i} :
            sizes[i] > sizes[j] \/ (sizes[i] = sizes[j] /\ i < j)
      BY <1>4, <2>2, <2>3, OneIsFirst
    <2>5. \E i \in in : \A j \in in \ {i} : Before(i, j)
      BY <2>1, <2>3, <2>4
    <2>6. first \in in
      BY <2>5
    <2>7. /\ FileServices[first] \in ServiceNames
          /\ SupportsSpecificMappingCache(FileServices[first])
          /\ f \in m[FileServices[first]]
      BY <2>6 DEF ServiceNames
    <2>8. QED
      BY <1>2, <1>4, <2>7 DEF CacheServices
  <1>5. QED
    BY <1>3, <1>4

(* More rows have more display rows.                                       *)
LEMMA DisplayMonotone ==
  ASSUME NEW P, NEW Q, P \subseteq Q
  PROVE  DisplayOf(P) \subseteq DisplayOf(Q)
  <1>1. ASSUME NEW x \in DisplayOf(P) PROVE x \in DisplayOf(Q)
    BY InDisplay
  <1>2. QED
    BY <1>1

(* The display rows of a union, by its files.                              *)
LEMMA DisplayByFile ==
  ASSUME NEW F, NEW P, NEW Q,
         \A f \in F : DisplayOf(RowsOf({f}, P)) \subseteq Q
  PROVE  DisplayOf(RowsOf(F, P)) \subseteq Q
  <1>1. ASSUME NEW x \in DisplayOf(RowsOf(F, P)) PROVE x \in Q
    <2>1. PICK p \in RowsOf(F, P) : \E u \in Implied(p[2]) : x = <<p[1], u>>
      BY InDisplay
    <2>2. p \in RowsOf({p[1]}, P) /\ p[1] \in F
      BY <2>1 DEF RowsOf
    <2>3. x \in DisplayOf(RowsOf({p[1]}, P))
      BY <2>1, <2>2, InDisplay
    <2>4. QED
      BY <2>2, <2>3
  <1>2. QED
    BY <1>1

(* The display rows of one file are of that file.                          *)
LEMMA DisplayOfFile ==
  ASSUME NEW f, NEW P
  PROVE  RowsOf({f}, DisplayOf(P)) = DisplayOf(RowsOf({f}, P))
  <1>1. ASSUME NEW x \in RowsOf({f}, DisplayOf(P))
        PROVE  x \in DisplayOf(RowsOf({f}, P))
    <2>1. x \in DisplayOf(P) /\ x[1] = f
      BY DEF RowsOf
    <2>2. PICK p \in P : \E u \in Implied(p[2]) : x = <<p[1], u>>
      BY <2>1, InDisplay
    <2>3. p \in RowsOf({f}, P)
      BY <2>1, <2>2 DEF RowsOf
    <2>4. QED
      BY <2>2, <2>3, InDisplay
  <1>2. ASSUME NEW x \in DisplayOf(RowsOf({f}, P))
        PROVE  x \in RowsOf({f}, DisplayOf(P))
    <2>1. PICK p \in RowsOf({f}, P) : \E u \in Implied(p[2]) : x = <<p[1], u>>
      BY <1>2, InDisplay
    <2>2. p \in P /\ p[1] = f
      BY <2>1 DEF RowsOf
    <2>3. QED
      BY <2>1, <2>2, InDisplay DEF RowsOf
  <1>3. QED
    BY <1>1, <1>2

(* Without its table a status has no rows, and if the name of the table is *)
(* neither unread nor stale, its absence is what the tables say.           *)
LEMMA NoTableNoRows ==
  ASSUME LibraryStrongInv, ~Stale("metadata", "mappings"),
         names["metadata"]["mappings"] # "unread",
         names["metadata"]["mappings"] # "present", NEW st \in Statuses
  PROVE  mappings[st] = {}
  <1>1. names["metadata"]["mappings"] = "absent"
    BY DEF LibraryStrongInv, LibraryTypes
  <1>2. "mappings" \notin tables
    BY <1>1 DEF Stale
  <1>3. QED
    BY <1>2 DEF LibraryStrongInv, LibraryInv, TablesInv

(* The storage rows of one file, from the caches or from the tables.       *)
LEMMA StorageRead ==
  ASSUME LibraryStrongInv, CacheSound, NEW F \in SUBSET Files, NEW m,
         \A s \in ServiceNames :
           m[s] \subseteq F /\ m[s] \subseteq current[s] \cup moved,
         NEW f \in F, names["metadata"]["mappings"] # "unread"
  PROVE  /\ StorageRows(f, "current", m)
              \subseteq RowsOf({f}, mappings["current"])
         /\ ~Stale("metadata", "mappings") /\ ~(hydrusBundle /\ f \in moved) =>
              /\ \A st \in {"current", "pending", "petitioned"} :
                   StorageRows(f, st, m) = RowsOf({f}, mappings[st])
              /\ RowsOf({f}, mappings["deleted"])
                   \subseteq StorageRows(f, "deleted", m)
  <1> DEFINE s == GroupServiceOf(f, m)
             table(st) == IF names["metadata"]["mappings"] = "present"
                          THEN mappings[st] ELSE {}
  <1>1. /\ \A st : StorageRows(f, st, m) =
             RowsOf({f}, IF hydrusBundle /\ s \in CacheServices
                            /\ st \in CachedStatuses
                         THEN storageCache[s][st] ELSE table(st))
        /\ s = "combinedFile" \/ (s \in CacheServices /\ f \in m[s])
    BY GroupHoldsFile DEF StorageRows
  <1> HIDE DEF s
  <1>2. \A st \in Statuses :
          /\ RowsOf({f}, table(st)) \subseteq RowsOf({f}, mappings[st])
          /\ ~Stale("metadata", "mappings") => table(st) = mappings[st]
    BY NoTableNoRows DEF RowsOf
  <1> HIDE DEF table
  <1>3. /\ "combinedFile" \notin CacheServices
        /\ CacheServices \subseteq ServiceNames
    BY ServicesAre
  <1>4. {"current", "pending", "petitioned", "deleted"} \subseteq Statuses
    BY DEF Statuses
  <1>5. CASE ~(hydrusBundle /\ s \in CacheServices)
    <2>1. \A st : StorageRows(f, st, m) = RowsOf({f}, table(st))
      BY <1>1, <1>5
    <2>2. QED
      BY <1>2, <1>4, <2>1
  <1>6. CASE hydrusBundle /\ s \in CacheServices
    <2>1. /\ f \in m[s]
          /\ storageCache[s]["current"] \subseteq mappings["current"]
      BY <1>1, <1>3, <1>6 DEF CacheSound
    <2>2. /\ \A st \in CachedStatuses :
               StorageRows(f, st, m) = RowsOf({f}, storageCache[s][st])
          /\ StorageRows(f, "petitioned", m) = RowsOf({f}, table("petitioned"))
      BY <1>1, <1>6 DEF CachedStatuses
    <2>3. StorageRows(f, "current", m)
            \subseteq RowsOf({f}, mappings["current"])
      BY <2>1, <2>2 DEF RowsOf, CachedStatuses
    <2>4. ASSUME ~Stale("metadata", "mappings"), f \notin moved
          PROVE  /\ \A st \in {"current", "pending", "petitioned"} :
                      StorageRows(f, st, m) = RowsOf({f}, mappings[st])
                 /\ RowsOf({f}, mappings["deleted"])
                      \subseteq StorageRows(f, "deleted", m)
      <3>1. f \in current[s] \ moved
        BY <1>3, <1>6, <2>1, <2>4
      <3>2. CachesAgree(s, f)
        BY <1>6, <3>1 DEF LibraryStrongInv, LibraryInv, CachesInv
      <3>3. QED
        BY <1>2, <1>4, <2>2, <2>4, <3>2 DEF CachesAgree, CachedStatuses
    <2>5. QED
      BY <1>6, <2>3, <2>4
  <1>7. QED
    BY <1>5, <1>6

(* The display rows of one file: from the caches, or what the storage rows *)
(* read before imply.                                                      *)
LEMMA DisplayRead ==
  ASSUME LibraryStrongInv, CacheSound, NEW F \in SUBSET Files, NEW m,
         \A s \in ServiceNames :
           m[s] \subseteq F /\ m[s] \subseteq current[s] \cup moved,
         NEW f \in F, NEW storage,
         storage \subseteq mappings["current"]
  PROVE  /\ DisplayRows(f, "current", m, storage)
              \subseteq DisplayOf(RowsOf({f}, mappings["current"]))
         /\ ~(hydrusBundle /\ f \in moved) =>
              DisplayOf(RowsOf({f}, storage))
                \subseteq DisplayRows(f, "current", m, storage)
  <1> DEFINE s == GroupServiceOf(f, m)
  <1>1. /\ DisplayRows(f, "current", m, storage) =
             (IF hydrusBundle /\ s \in CacheServices
              THEN RowsOf({f}, displayCache[s]["current"])
              ELSE DisplayOf(RowsOf({f}, storage)))
        /\ s = "combinedFile" \/ (s \in CacheServices /\ f \in m[s])
    BY GroupHoldsFile DEF DisplayRows
  <1> HIDE DEF s
  <1>2. /\ "combinedFile" \notin CacheServices
        /\ CacheServices \subseteq ServiceNames
    BY ServicesAre
  <1>3. RowsOf({f}, storage) \subseteq RowsOf({f}, mappings["current"])
    BY DEF RowsOf
  <1>4. DisplayOf(RowsOf({f}, storage))
          \subseteq DisplayOf(RowsOf({f}, mappings["current"]))
    BY <1>3, DisplayMonotone
  <1>5. CASE ~(hydrusBundle /\ s \in CacheServices)
    BY <1>1, <1>4, <1>5
  <1>6. CASE hydrusBundle /\ s \in CacheServices
    <2>1. /\ f \in m[s]
          /\ displayCache[s]["current"]
               \subseteq DisplayOf(mappings["current"])
      BY <1>1, <1>2, <1>6 DEF CacheSound
    <2>2. RowsOf({f}, displayCache[s]["current"])
            \subseteq RowsOf({f}, DisplayOf(mappings["current"]))
      BY <2>1 DEF RowsOf
    <2>3. RowsOf({f}, displayCache[s]["current"])
            \subseteq DisplayOf(RowsOf({f}, mappings["current"]))
      BY <2>2, DisplayOfFile
    <2>4. ASSUME f \notin moved
          PROVE  DisplayOf(RowsOf({f}, storage))
                   \subseteq RowsOf({f}, displayCache[s]["current"])
      <3>1. f \in current[s] \ moved
        BY <1>2, <1>6, <2>1, <2>4
      <3>2. CachesAgree(s, f)
        BY <1>6, <3>1 DEF LibraryStrongInv, LibraryInv, CachesInv
      <3>3. QED
        BY <1>4, <3>2 DEF CachesAgree
    <2>5. QED
      BY <1>1, <1>6, <2>3, <2>4
  <1>7. QED
    BY <1>5, <1>6

(* Every mutation leaves in the caches only what is in a table.            *)
LEMMA CacheSoundKept ==
  ASSUME LibraryStrongInv, CacheSound, Mutation PROVE CacheSound'
  <1>1. ASSUME Commit, UNCHANGED tagVars PROVE CacheSound'
    BY <1>1 DEF CacheSound, Commit, tagVars, DisplayOf, Implied
  <1>2. ASSUME NEW F \in Targets, NEW t \in Tags, AddTags(F, t)
        PROVE  CacheSound'
    <2> SUFFICES ASSUME hydrusBundle, NEW s \in CacheServices
                 PROVE
          /\ storageCache'[s]["current"] \subseteq mappings'["current"]
          /\ displayCache'[s]["current"]
               \subseteq DisplayOf(mappings'["current"])
      <3>1. hydrusBundle' = hydrusBundle
        BY <1>2 DEF AddTags, Commit
      <3>2. QED
        BY <3>1 DEF CacheSound, DisplayOf, Implied
    <2>1. SetSpecificCurrentTagCaches(F, t)
      BY <1>2 DEF AddTags
    <2>2. mappings'["current"] = mappings["current"] \cup (F \X {t})
      BY <1>2 DEF AddTags, SetCurrentTagMapping, Statuses
    <2>3. PICK in : in = F \cap current[s]
      OBVIOUS
    <2>4. /\ storageCache'[s]["current"]
               = storageCache[s]["current"] \cup (in \X {t})
          /\ displayCache'[s]["current"]
               = displayCache[s]["current"] \cup (in \X Implied(t))
      BY <2>1, <2>3, CachesSet
    <2>5. /\ storageCache[s]["current"] \subseteq mappings["current"]
          /\ displayCache[s]["current"]
               \subseteq DisplayOf(mappings["current"])
      BY DEF CacheSound
    <2>6. storageCache'[s]["current"] \subseteq mappings'["current"]
      BY <2>2, <2>3, <2>4, <2>5
    <2>7. DisplayOf(mappings["current"])
            \subseteq DisplayOf(mappings'["current"])
      BY <2>2, DisplayMonotone
    <2>8. ASSUME NEW f \in in, NEW u \in Implied(t)
          PROVE  <<f, u>> \in DisplayOf(mappings'["current"])
      <3>1. <<f, t>> \in mappings'["current"]
        BY <2>2, <2>3
      <3>2. QED
        BY <3>1, InDisplay
    <2>9. displayCache'[s]["current"] \subseteq DisplayOf(mappings'["current"])
      BY <2>4, <2>5, <2>7, <2>8
    <2>10. QED
      BY <2>6, <2>9
  <1>3. ASSUME NEW f \in Files,
               RecordImport(f, 1) \/ TrashFile(f) \/ SetNotes(f)
        PROVE  Commit /\ UNCHANGED tagVars
    BY <1>3 DEF RecordImport, TrashFile, SetNotes
  <1>4. ASSUME NEW F \in SUBSET Files, EnsureHashIDs(F)
        PROVE  Commit /\ UNCHANGED tagVars
    BY <1>4 DEF EnsureHashIDs
  <1>5. ASSUME NEW F \in Targets,
               \/ AssociateURLs(F) \/ \E d \in Domains : SetTime(F, d, 2)
        PROVE  Commit /\ UNCHANGED tagVars
    BY <1>5 DEF AssociateURLs, SetTime
  <1>6. QED
    BY <1>1, <1>2, <1>3, <1>4, <1>5 DEF Mutation

(* What no mutation takes back.                                            *)
Grows ==
  /\ hashes \subseteq hashes' /\ info \subseteq info'
  /\ inbox \subseteq inbox' /\ urls \subseteq urls'
  /\ notes \subseteq notes' /\ deleted \subseteq deleted'
  /\ moved \subseteq moved' /\ tables \subseteq tables'
  /\ mappings["current"] \subseteq mappings'["current"]
  /\ \A s \in ServiceNames : current[s] \subseteq current'[s] \cup moved'

(* Every mutation is a commit that takes nothing of this back.             *)
LEMMA MutationsGrow ==
  ASSUME LibraryStrongInv, Mutation PROVE Commit /\ Grows
  <1>1. ASSUME NEW f \in Files, RecordImport(f, 1) PROVE Commit /\ Grows
    <2>1. /\ Commit
          /\ hashes' = hashes \cup {f} /\ info' = info \cup {f}
          /\ inbox' = inbox \cup {f} /\ moved' = moved \cup {f}
          /\ UNCHANGED <<deleted, urls, notes, mappings, tables>>
      BY <1>1 DEF RecordImport, tagVars
    <2>2. \A s \in ServiceNames : current[s] \subseteq current'[s]
      BY <1>1 DEF RecordImport
    <2>3. QED
      BY <2>1, <2>2 DEF Grows
  <1>2. ASSUME NEW f \in Files, TrashFile(f) PROVE Commit /\ Grows
    <2>1. /\ Commit /\ deleted' = deleted \cup {f}
          /\ moved' = moved \cup {f}
          /\ UNCHANGED <<hashes, info, inbox, urls, notes, mappings, tables>>
      BY <1>2 DEF TrashFile, tagVars, detailVars
    <2>2. \A s \in ServiceNames : current[s] \subseteq current'[s] \cup {f}
      BY <1>2 DEF TrashFile
    <2>3. QED
      BY <2>1, <2>2 DEF Grows
  <1>3. ASSUME NEW F \in Targets, NEW t \in Tags, AddTags(F, t)
        PROVE  Commit /\ Grows
    <2>1. mappings'["current"] = mappings["current"] \cup (F \X {t})
      BY <1>3 DEF AddTags, SetCurrentTagMapping, Statuses
    <2>2. /\ Commit /\ tables' = tables \cup {"mappings"}
          /\ UNCHANGED <<hashes, info, inbox, urls, notes, deleted, moved,
                         current>>
      BY <1>3 DEF AddTags, fileVars, detailVars
    <2>3. QED
      BY <2>1, <2>2 DEF Grows
  <1>4. ASSUME NEW f \in Files, SetNotes(f) PROVE Commit /\ Grows
    BY <1>4 DEF SetNotes, Grows, fileVars, tagVars
  <1>5. ASSUME NEW F \in SUBSET Files, EnsureHashIDs(F) PROVE Commit /\ Grows
    BY <1>5 DEF EnsureHashIDs, Grows, detailVars, tagVars
  <1>6. ASSUME NEW F \in Targets,
               \/ AssociateURLs(F) \/ \E d \in Domains : SetTime(F, d, 2)
        PROVE  Commit /\ Grows
    BY <1>6 DEF AssociateURLs, SetTime, Grows, fileVars, tagVars
  <1>7. QED
    BY <1>1, <1>2, <1>3, <1>4, <1>5, <1>6 DEF Mutation

(* A mutation beside a read: what the read has gathered stays true, and it *)
(* is no longer calm.                                                      *)
LEMMA ReadDisturbed ==
  ASSUME LibraryStrongInv, ReadInv, Mutation PROVE ReadInv'
  <1>1. CacheSound' /\ Commit /\ Grows
    BY CacheSoundKept, MutationsGrow DEF ReadInv
  <1>2. UNCHANGED <<hydrusBundle, names>>
    BY <1>1 DEF Commit
  <1>3. CASE read.step = 0
    BY <1>1, <1>3 DEF Commit, ReadInv, ReadTypes
  <1>4. CASE read.step # 0
    <2>1. read' = [step |-> read.step, files |-> read.files,
                   row |-> read.row, calm |-> FALSE, before |-> read.before]
      <3>1. read = [step |-> read.step, files |-> read.files,
                    row |-> read.row, calm |-> read.calm,
                    before |-> read.before]
        BY <1>4 DEF ReadInv, ReadTypes
      <3>2. read' = [read EXCEPT !.calm = FALSE]
        BY <1>1, <1>4 DEF Commit
      <3>3. QED
        BY <3>1, <3>2
    <2>2. /\ read'.step = read.step /\ read'.files = read.files
          /\ read'.row = read.row /\ read'.before = read.before
          /\ ~read'.calm /\ \A q : Asked(q)' <=> Asked(q)
      BY <2>1 DEF Asked
    <2>3. ReadTypes'
      BY <1>4, <2>1, <2>2 DEF ReadInv, ReadTypes
    <2>4. \A q \in {"hashes", "info", "inbox", "urls", "notes"} :
            Facts(read.files)[q] \subseteq Facts(read.files)'[q]
      BY <1>1, <2>2 DEF Grows, Facts
    <2>5. RowsOf(read.files, mappings["current"])
            \subseteq RowsOf(read.files, mappings'["current"])
      BY <1>1 DEF Grows, RowsOf
    <2>6. /\ Facts(read.files).tags["current"]
               = RowsOf(read.files, mappings["current"])
          /\ Facts(read.files)'.tags["current"]
               = RowsOf(read.files, mappings'["current"])
      BY <2>2 DEF Facts, Statuses
    <2>7. BeforeInv'
      BY <1>4, <2>2, <2>4, <2>5, <2>6 DEF ReadInv, BeforeInv
    <2>8. \A t : Stale("metadata", t) => Stale("metadata", t)'
      BY <1>1, <1>2 DEF Stale, Grows
    <2>9. LookupsInv'
      BY <1>2, <1>4, <2>2, <2>4, <2>8 DEF ReadInv, LookupsInv
    <2>10. PlacesInv'
      BY <1>1, <1>4, <2>2 DEF ReadInv, PlacesInv, Grows
    <2>11. TagsInv'
      <3>1. TagsInv
        BY <1>4 DEF ReadInv
      <3>2. PICK owed, owing :
              /\ owed = ReadBack(read.before.tags["current"])
              /\ owing = ReadBack(read.before.tags["current"])'
        OBVIOUS
      <3>3. owing \subseteq owed
        BY <1>1, <1>2, <2>2, <2>8, <3>2
           DEF ReadBack, Cacheless, RowsOf, Grows
      <3>4. DisplayOf(owing) \subseteq DisplayOf(owed)
        BY <3>3, DisplayMonotone
      <3>5. DisplayOf(RowsOf(read.files, mappings["current"]))
              \subseteq DisplayOf(RowsOf(read.files, mappings'["current"]))
        BY <2>5, DisplayMonotone
      <3>6. \A P : DisplayOf(P)' = DisplayOf(P)
        BY <1>2 DEF DisplayOf, Implied
      <3>7. QED
        BY <2>2, <2>5, <3>1, <3>2, <3>3, <3>4, <3>5, <3>6 DEF TagsInv
    <2>12. CalmInv'
      BY <2>2 DEF CalmInv
    <2>13. QED
      BY <1>1, <2>3, <2>7, <2>9, <2>10, <2>11, <2>12 DEF ReadInv
  <1>5. QED
    BY <1>3, <1>4

(* A read begins with the hashes of the request and what is recorded then. *)
LEMMA ReadBegins ==
  ASSUME LibraryStrongInv, ReadInv, NEW F \in (SUBSET Files) \ {{}},
         GetMetadataBegins(F)
  PROVE  ReadInv'
  <1>1. /\ read' = [step |-> 1, files |-> F, row |-> <<>>, calm |-> TRUE,
                    before |-> Facts(F)]
        /\ UNCHANGED <<hydrusBundle, fileVars, detailVars, tagVars>>
    BY DEF GetMetadataBegins
  <1>2. /\ read'.step = 1 /\ read'.files = F /\ read'.calm
        /\ read'.before = Facts(F) /\ DOMAIN read'.row = {}
    BY <1>1
  <1>3. \A q : ~Asked(q)'
    BY <1>2 DEF Asked
  <1>4. ReadTypes'
    BY <1>1, <1>2, QueriesAre DEF ReadTypes
  <1>5. CacheSound'
    BY <1>1 DEF ReadInv, CacheSound, DisplayOf, Implied, tagVars
  <1>6. Facts(read.files)' = Facts(F)
    BY <1>1, <1>2 DEF Facts, fileVars, detailVars, tagVars
  <1>7. BeforeInv'
    BY <1>2, <1>6 DEF BeforeInv
  <1>8. LookupsInv' /\ PlacesInv' /\ TagsInv' /\ CalmInv'
    BY <1>3 DEF LookupsInv, PlacesInv, TagsInv, CalmInv
  <1>9. QED
    BY <1>4, <1>5, <1>7, <1>8 DEF ReadInv

(* What a query leaves as it is, and the table names it caches.            *)
LEMMA QueryContext ==
  ASSUME LibraryStrongInv, ReadInv, GetMetadataQuery, NEW q,
         q = Queries[read.step]
  PROVE  /\ UNCHANGED <<hydrusBundle, fileVars, detailVars, tagVars, tables>>
         /\ Facts(read.files)' = Facts(read.files)
         /\ \A t \in {"mappings", "notes"} :
              /\ Stale("metadata", t)' <=> Stale("metadata", t)
              /\ names["metadata"][t] # "unread" =>
                   names'["metadata"][t] = names["metadata"][t]
         /\ q = "local" => names'["metadata"]["notes"] # "unread"
         /\ q = "notes" => names'["metadata"]["mappings"] # "unread"
         /\ \A P : DisplayOf(P)' = DisplayOf(P)
         /\ \A P : ReadBack(P)' = ReadBack(P)
  <1>1. /\ UNCHANGED <<hydrusBundle, fileVars, detailVars, tagVars, tables>>
        /\ read.step # 0 /\ ReadTypes
    BY DEF GetMetadataQuery, ReadInv
  <1>2. read'.files = read.files
    BY <1>1, QueryMade
  <1>3. Facts(read.files)' = Facts(read.files)
    BY <1>1, <1>2 DEF Facts, fileVars, detailVars, tagVars
  <1>4. \/ q = "local" /\ CacheNames("metadata", "notes")
        \/ q = "notes" /\ CacheNames("metadata", "mappings")
        \/ q \notin {"local", "notes"} /\ UNCHANGED names
    BY DEF GetMetadataQuery
  <1>5. names \in [{"metadata", "browse"} ->
                    [{"mappings", "notes"} -> {"unread", "absent", "present"}]]
    BY DEF LibraryStrongInv, LibraryTypes
  <1>6. ASSUME NEW t \in {"mappings", "notes"}, CacheNames("metadata", t)
        PROVE  /\ names'["metadata"][t] = NamesOf("metadata", t)
               /\ \A u \in {"mappings", "notes"} \ {t} :
                    names'["metadata"][u] = names["metadata"][u]
    BY <1>5, <1>6 DEF CacheNames
  <1>7. \A t \in {"mappings", "notes"} :
          /\ NamesOf("metadata", t) # "unread"
          /\ names["metadata"][t] # "unread" =>
               NamesOf("metadata", t) = names["metadata"][t]
          /\ NamesOf("metadata", t) = "absent" /\ t \in tables =>
               names["metadata"][t] = "absent"
    BY DEF NamesOf
  <1>8. /\ \A t \in {"mappings", "notes"} :
             \/ names'["metadata"][t] = names["metadata"][t]
             \/ names'["metadata"][t] = NamesOf("metadata", t)
        /\ q = "local" => names'["metadata"]["notes"] # "unread"
        /\ q = "notes" => names'["metadata"]["mappings"] # "unread"
    BY <1>4, <1>6, <1>7
  <1>9. \A t \in {"mappings", "notes"} :
          /\ Stale("metadata", t)' <=> Stale("metadata", t)
          /\ names["metadata"][t] # "unread" =>
               names'["metadata"][t] = names["metadata"][t]
    BY <1>1, <1>7, <1>8 DEF Stale
  <1>10. \A P : DisplayOf(P)' = DisplayOf(P)
    BY <1>1 DEF DisplayOf, Implied
  <1>11. \A P : ReadBack(P)' = ReadBack(P)
    BY <1>1, <1>2, <1>9 DEF ReadBack, Cacheless, RowsOf, fileVars
  <1>12. QED
    BY <1>1, <1>3, <1>8, <1>9, <1>10, <1>11

(* The lookups of hashes, rows, inbox, URLs and notes.                     *)
LEMMA LookupQueries ==
  ASSUME LibraryStrongInv, ReadInv, GetMetadataQuery
  PROVE  BeforeInv' /\ LookupsInv'
  <1> DEFINE F == read.files
  <1>1. PICK q : q = Queries[read.step]
    OBVIOUS
  <1>2. /\ ReadTypes /\ BeforeInv /\ LookupsInv /\ read.step # 0
    BY DEF ReadInv, GetMetadataQuery
  <1>3. /\ Asked(q)' /\ read'.files = F /\ read'.before = read.before
        /\ read'.row[q] = Answer(q, F, read.row)
        /\ \A k : k # q => (Asked(k)' <=> Asked(k))
        /\ \A k : Asked(k) => read'.row[k] = read.row[k]
        /\ ~Asked(q)
    BY <1>1, <1>2, QueryMade
  <1>4. /\ Facts(F)' = Facts(F)
        /\ \A t \in {"mappings", "notes"} :
              /\ Stale("metadata", t)' <=> Stale("metadata", t)
              /\ names["metadata"][t] # "unread" =>
                   names'["metadata"][t] = names["metadata"][t]
        /\ q = "local" => names'["metadata"]["notes"] # "unread"
        /\ q = "notes" => names'["metadata"]["mappings"] # "unread"
    BY <1>1, QueryContext
  <1>5. BeforeInv'
    BY <1>2, <1>3, <1>4 DEF BeforeInv
  <1>6. ASSUME NEW k \in {"hashes", "info", "inbox", "urls"}, Asked(k)'
        PROVE  /\ read.before[k] \subseteq read'.row[k]
               /\ read'.row[k] \subseteq Facts(F)[k]
    <2>1. CASE k = q
      <3>1. Answer(k, F, read.row) = Facts(F)[k]
        <4>1. /\ Answer("hashes", F, read.row) = F \cap hashes
              /\ Answer("info", F, read.row) = F \cap info
              /\ Answer("inbox", F, read.row) = F \cap inbox
              /\ Answer("urls", F, read.row) = F \cap urls
          BY AnswersAre
             DEF resolveHashes, lookupBasicRecords, lookupInbox,
                 lookupKnownURLs
        <4>2. /\ Facts(F)["hashes"] = F \cap hashes
              /\ Facts(F)["info"] = F \cap info
              /\ Facts(F)["inbox"] = F \cap inbox
              /\ Facts(F)["urls"] = F \cap urls
          BY DEF Facts
        <4>3. QED
          BY <4>1, <4>2
      <3>2. read.before[k] \subseteq Facts(F)[k]
        BY <1>2 DEF BeforeInv
      <3>3. QED
        BY <1>3, <2>1, <3>1, <3>2
    <2>2. CASE k # q
      BY <1>2, <1>3, <1>6, <2>2 DEF LookupsInv
    <2>3. QED
      BY <2>1, <2>2
  <1>7. Asked("local")' => names'["metadata"]["notes"] # "unread"
    BY <1>2, <1>3, <1>4 DEF LookupsInv
  <1>8. ASSUME Asked("notes")'
        PROVE  /\ names'["metadata"]["mappings"] # "unread"
               /\ read'.row["notes"] \subseteq Facts(F).notes
               /\ \/ Stale("metadata", "notes")
                  \/ read.before.notes \subseteq read'.row["notes"]
    <2>1. CASE q = "notes"
      <3>1. read.step \in 1..19 /\ Queries[read.step] = Queries[13]
        BY <1>1, <2>1, QueriesAre DEF GetMetadataQuery
      <3>2. Asked("local")
        <4>1. read.step = 13
          BY <3>1, QueriesAre
        <4>2. QED
          BY <1>2, <4>1, AskedInOrder, QueriesAre
      <3>3. /\ names["metadata"]["notes"] # "unread"
            /\ names["metadata"]["notes"] \in {"unread", "absent", "present"}
        BY <1>2, <3>2 DEF LookupsInv, LibraryStrongInv, LibraryTypes
      <3>4. read'.row["notes"] =
              IF names["metadata"]["notes"] = "present"
              THEN F \cap notes ELSE {}
        BY <1>3, <2>1, <3>3, AnswersAre DEF lookupFileNotes, NamesOf
      <3>5. /\ Facts(F).notes = F \cap notes
            /\ read.before.notes \subseteq Facts(F).notes
        BY <1>2 DEF Facts, BeforeInv
      <3>6. CASE names["metadata"]["notes"] = "present"
        BY <1>4, <2>1, <3>4, <3>5, <3>6
      <3>7. CASE names["metadata"]["notes"] = "absent"
        <4>1. Stale("metadata", "notes") \/ notes = {}
          BY <3>7 DEF Stale, LibraryStrongInv, LibraryInv, TablesInv
        <4>2. QED
          BY <1>4, <2>1, <3>4, <3>5, <3>7, <4>1
      <3>8. QED
        BY <3>3, <3>6, <3>7
    <2>2. CASE q # "notes"
      BY <1>2, <1>3, <1>4, <1>8, <2>2 DEF LookupsInv
    <2>3. QED
      BY <2>1, <2>2
  <1>9. QED
    BY <1>3, <1>4, <1>5, <1>6, <1>7, <1>8 DEF LookupsInv

(* The lookups of memberships: storage before the trash.                   *)
LEMMA PlaceQueries ==
  ASSUME LibraryStrongInv, ReadInv, GetMetadataQuery
  PROVE  PlacesInv'
  <1> DEFINE F == read.files
  <1>1. PICK q : q = Queries[read.step]
    OBVIOUS
  <1>2. /\ ReadTypes /\ LookupsInv /\ PlacesInv /\ read.step # 0
        /\ read.step \in 1..19
    BY QueriesAre DEF ReadInv, GetMetadataQuery
  <1>3. /\ Asked(q)' /\ read'.files = F
        /\ read'.row[q] = Answer(q, F, read.row)
        /\ \A k : k # q => (Asked(k)' <=> Asked(k))
        /\ \A k : Asked(k) => read'.row[k] = read.row[k]
        /\ ~Asked(q)
    BY <1>1, <1>2, QueryMade
  <1>4. UNCHANGED <<deleted, current, moved>>
    BY DEF GetMetadataQuery, fileVars
  <1>5. \A f \in info, s \in ServiceNames :
          f \in current[s] <=> (f \in deleted <=> s = "trash")
    BY DEF LibraryStrongInv, LibraryInv, MembershipInv
  <1>6. ASSUME NEW s \in ServiceNames, q = s
        PROVE  read'.row[s] = F \cap current[s]
    <2>1. Answer(s, F, read.row) = lookupCurrentMemberships(F, s)
      BY AnswersAre
    <2>2. QED
      BY <1>3, <1>6, <2>1 DEF lookupCurrentMemberships
  <1>7. /\ q = "storage" => Asked("info")
        /\ q = "trash" => Asked("info") /\ Asked("storage")
        /\ Asked("storage") => Asked("info") /\ q # "info"
        /\ Asked("trash") => Asked("info") /\ Asked("storage")
    BY <1>1, <1>2, AskedInOrder, QueriesAre
  <1>8. Asked("info") => read.row["info"] \subseteq F \cap info
    BY <1>2 DEF LookupsInv, Facts
  <1>9. {"storage", "trash"} \subseteq ServiceNames
    BY ServicesAre
  <1>10. ASSUME NEW s \in ServiceNames, Asked(s)'
         PROVE  /\ read'.row[s] \subseteq F
                /\ read'.row[s] \subseteq current[s] \cup moved
    <2>1. CASE s = q
      BY <1>6, <2>1
    <2>2. CASE s # q
      BY <1>2, <1>3, <1>10, <2>2 DEF PlacesInv
    <2>3. QED
      BY <2>1, <2>2
  <1>11. ASSUME Asked("storage")'
         PROVE  read'.row["info"] \ read'.row["storage"] \subseteq deleted
    <2>1. CASE q = "storage"
      BY <1>3, <1>5, <1>6, <1>7, <1>8, <1>9, <2>1
    <2>2. CASE q # "storage"
      BY <1>2, <1>3, <1>7, <1>11, <2>2 DEF PlacesInv
    <2>3. QED
      BY <2>1, <2>2
  <1>12. ASSUME Asked("trash")'
         PROVE  read'.row["info"]
                  \subseteq read'.row["storage"] \cup read'.row["trash"]
    <2>1. CASE q = "trash"
      <3>1. read.row["info"] \ read.row["storage"] \subseteq deleted
        BY <1>2, <1>7, <2>1 DEF PlacesInv
      <3>2. QED
        BY <1>3, <1>5, <1>6, <1>7, <1>8, <1>9, <2>1, <3>1
    <2>2. CASE q # "trash"
      BY <1>2, <1>3, <1>7, <1>12, <2>2 DEF PlacesInv
    <2>3. QED
      BY <2>1, <2>2
  <1>13. QED
    BY <1>3, <1>4, <1>10, <1>11, <1>12 DEF PlacesInv

(* The memberships a tag query goes by, and what it reads of one file.     *)
LEMMA TagQuery ==
  ASSUME LibraryStrongInv, ReadInv, read.step \in 14..19, NEW f \in read.files
  PROVE  LET m == Memberships(read.row) IN
         /\ StorageRows(f, "current", m)
              \subseteq RowsOf({f}, mappings["current"])
         /\ ~Stale("metadata", "mappings") /\ f \in Cacheless =>
              /\ \A st \in {"current", "pending", "petitioned"} :
                   StorageRows(f, st, m) = RowsOf({f}, mappings[st])
              /\ RowsOf({f}, mappings["deleted"])
                   \subseteq StorageRows(f, "deleted", m)
         /\ \A storage : storage \subseteq mappings["current"] =>
              /\ DisplayRows(f, "current", m, storage)
                   \subseteq DisplayOf(RowsOf({f}, mappings["current"]))
              /\ f \in Cacheless =>
                   DisplayOf(RowsOf({f}, storage))
                     \subseteq DisplayRows(f, "current", m, storage)
  <1>1. ReadTypes /\ LookupsInv /\ PlacesInv /\ CacheSound /\ read.step # 0
    BY DEF ReadInv
  <1>2. PICK m : m = Memberships(read.row)
    OBVIOUS
  <1>3. /\ Asked("local") /\ Asked("storage") /\ Asked("combinedLocal")
        /\ Asked("combinedFile") /\ Asked("trash") /\ Asked("notes")
    BY <1>1, AskedInOrder, QueriesAre
  <1>4. /\ read.files \in SUBSET Files
        /\ names["metadata"]["mappings"] # "unread"
    BY <1>1, <1>3 DEF ReadTypes, LookupsInv
  <1>5. \A s \in ServiceNames :
          m[s] \subseteq read.files /\ m[s] \subseteq current[s] \cup moved
    BY <1>1, <1>2, <1>3, ServicesAre DEF PlacesInv, Memberships
  <1>6. f \in Cacheless <=> ~(hydrusBundle /\ f \in moved)
    BY DEF Cacheless
  <1>7. /\ StorageRows(f, "current", m)
             \subseteq RowsOf({f}, mappings["current"])
        /\ ~Stale("metadata", "mappings") /\ ~(hydrusBundle /\ f \in moved) =>
             /\ \A st \in {"current", "pending", "petitioned"} :
                  StorageRows(f, st, m) = RowsOf({f}, mappings[st])
             /\ RowsOf({f}, mappings["deleted"])
                  \subseteq StorageRows(f, "deleted", m)
    BY <1>1, <1>4, <1>5, StorageRead
  <1>8. ASSUME NEW storage, storage \subseteq mappings["current"]
        PROVE  /\ DisplayRows(f, "current", m, storage)
                    \subseteq DisplayOf(RowsOf({f}, mappings["current"]))
               /\ ~(hydrusBundle /\ f \in moved) =>
                    DisplayOf(RowsOf({f}, storage))
                      \subseteq DisplayRows(f, "current", m, storage)
    BY <1>1, <1>4, <1>5, <1>8, DisplayRead
  <1>9. QED
    BY <1>2, <1>6, <1>7, <1>8

(* The storage rows of one file are of that file.                          *)
LEMMA StorageOfFile ==
  ASSUME NEW f, NEW st, NEW m, NEW p \in StorageRows(f, st, m)
  PROVE  p[1] = f
  BY DEF StorageRows, RowsOf

(* The lookup of a status: what it owes, and nothing else.                 *)
LEMMA StorageQueries ==
  ASSUME LibraryStrongInv, ReadInv, read.step \in 14..19, NEW rows, NEW st,
         rows = lookupStorageTags(read.files, st, read.row)
  PROVE  /\ st = "current" =>
              /\ ReadBack(mappings["current"]) \subseteq rows
              /\ rows \subseteq RowsOf(read.files, mappings["current"])
         /\ st \in {"pending", "petitioned"} =>
              ReadBack(mappings[st]) = ReadBack(rows)
         /\ st = "deleted" => ReadBack(mappings["deleted"]) \subseteq rows
  <1>1. PICK m : m = Memberships(read.row)
    OBVIOUS
  <1>2. rows = UNION {StorageRows(f, st, m) : f \in read.files}
    BY <1>1 DEF lookupStorageTags
  <1>3. ASSUME st = "current", NEW p \in rows
        PROVE  p \in RowsOf(read.files, mappings["current"])
    <2>1. PICK f \in read.files : p \in StorageRows(f, "current", m)
      BY <1>2, <1>3
    <2>2. p \in RowsOf({f}, mappings["current"])
      BY <1>1, <2>1, TagQuery
    <2>3. QED
      BY <2>2 DEF RowsOf
  <1>4. ASSUME NEW p,
               st \in {"current", "pending", "petitioned", "deleted"},
               p \in ReadBack(mappings[st])
        PROVE  p \in rows
    <2>1. /\ ~Stale("metadata", "mappings") /\ p[1] \in Cacheless
          /\ p[1] \in read.files /\ p \in RowsOf({p[1]}, mappings[st])
      BY <1>4 DEF ReadBack, RowsOf, Cacheless
    <2>2. p \in StorageRows(p[1], st, m)
      BY <1>1, <1>4, <2>1, TagQuery
    <2>3. QED
      BY <1>2, <2>1, <2>2
  <1>5. ASSUME NEW p, st \in {"pending", "petitioned"}, p \in ReadBack(rows)
        PROVE  p \in ReadBack(mappings[st])
    <2>1. /\ ~Stale("metadata", "mappings") /\ p \in rows
          /\ p[1] \in Cacheless
      BY <1>5 DEF ReadBack, RowsOf
    <2>2. PICK f \in read.files : p \in StorageRows(f, st, m)
      BY <1>2, <2>1
    <2>3. p[1] = f
      BY <2>2, StorageOfFile
    <2>4. p \in RowsOf({f}, mappings[st])
      BY <1>1, <1>5, <2>1, <2>2, <2>3, TagQuery
    <2>5. QED
      BY <2>1, <2>4 DEF ReadBack, RowsOf
  <1>6. ASSUME NEW p, st \in {"pending", "petitioned"},
               p \in ReadBack(mappings[st])
        PROVE  p \in ReadBack(rows)
    <2>1. p \in rows
      BY <1>4, <1>6
    <2>2. QED
      BY <1>6, <2>1 DEF ReadBack, RowsOf
  <1>7. ReadBack(mappings["current"]) \subseteq rows \/ st # "current"
    BY <1>4
  <1>8. ReadBack(mappings["deleted"]) \subseteq rows \/ st # "deleted"
    BY <1>4
  <1>9. st \in {"pending", "petitioned"} =>
          ReadBack(mappings[st]) = ReadBack(rows)
    <2>1. SUFFICES ASSUME st \in {"pending", "petitioned"}
                   PROVE  /\ ReadBack(mappings[st]) \subseteq ReadBack(rows)
                          /\ ReadBack(rows) \subseteq ReadBack(mappings[st])
      OBVIOUS
    <2>2. QED
      BY <1>5, <1>6, <2>1
  <1>10. QED
    BY <1>3, <1>7, <1>8, <1>9

(* The lookups of tags: nothing owed is missing, nothing else is there.    *)
LEMMA TagQueries ==
  ASSUME LibraryStrongInv, ReadInv, GetMetadataQuery
  PROVE  TagsInv'
  <1> DEFINE F == read.files
  <1>1. PICK q : q = Queries[read.step]
    OBVIOUS
  <1>2. /\ ReadTypes /\ BeforeInv /\ TagsInv /\ CacheSound /\ read.step # 0
        /\ read.step \in 1..19
    BY QueriesAre DEF ReadInv, GetMetadataQuery
  <1>3. /\ Asked(q)' /\ read'.files = F /\ read'.before = read.before
        /\ read'.row[q] = Answer(q, F, read.row)
        /\ \A k : k # q => (Asked(k)' <=> Asked(k))
        /\ \A k : Asked(k) => read'.row[k] = read.row[k]
    BY <1>1, <1>2, QueryMade
  <1>4. /\ mappings' = mappings
        /\ \A P : DisplayOf(P)' = DisplayOf(P)
        /\ \A P : ReadBack(P)' = ReadBack(P)
    BY <1>1, QueryContext DEF tagVars
  <1>5. PICK recorded, owed, now :
          /\ recorded = read.before.tags["current"]
          /\ owed = ReadBack(recorded)
          /\ now = RowsOf(F, mappings["current"])
    OBVIOUS
  <1>6. recorded \subseteq now
    BY <1>2, <1>5 DEF BeforeInv, Facts, Statuses
  <1>7. /\ now \subseteq mappings["current"]
        /\ owed \subseteq ReadBack(mappings["current"])
    BY <1>5, <1>6 DEF ReadBack, RowsOf
  <1>8. /\ q \in {"current", "displayCurrent"} => read.step \in 14..19
        /\ q = "displayCurrent" => Asked("current")
    <2>1. Queries[14] = "current" /\ Queries[18] = "displayCurrent"
      BY QueriesAre
    <2>2. \A i \in 1..19 : Queries[i] = q => i = read.step
      BY <1>1, <1>2, QueriesAre
    <2>3. /\ q = "current" => read.step = 14
          /\ q = "displayCurrent" => read.step = 18
      BY <2>1, <2>2
    <2>4. Asked(Queries[14]) <=> 14 < read.step
      BY <1>2, AskedInOrder
    <2>5. QED
      BY <2>1, <2>3, <2>4
  <1>9. ASSUME Asked("current")'
        PROVE  /\ owed \subseteq read'.row["current"]
               /\ read'.row["current"] \subseteq now
    <2>1. CASE q = "current"
      <3>1. read'.row["current"] = lookupStorageTags(F, "current", read.row)
        <4>1. Answer("current", F, read.row)
                = lookupStorageTags(F, "current", read.row)
          BY AnswersAre DEF Statuses
        <4>2. QED
          BY <1>3, <2>1, <4>1
      <3>2. /\ ReadBack(mappings["current"]) \subseteq read'.row["current"]
            /\ read'.row["current"] \subseteq RowsOf(F, mappings["current"])
        <4>1. PICK rows : rows = lookupStorageTags(F, "current", read.row)
          OBVIOUS
        <4>2. /\ ReadBack(mappings["current"]) \subseteq rows
              /\ rows \subseteq RowsOf(F, mappings["current"])
          BY <1>8, <2>1, <4>1, StorageQueries
        <4>3. QED
          BY <3>1, <4>1, <4>2
      <3>3. QED
        BY <1>5, <1>7, <3>2
    <2>2. CASE q # "current"
      BY <1>2, <1>3, <1>5, <1>9, <2>2 DEF TagsInv
    <2>3. QED
      BY <2>1, <2>2
  <1>10. ASSUME Asked("displayCurrent")'
         PROVE  /\ DisplayOf(owed) \subseteq read'.row["displayCurrent"]
                /\ read'.row["displayCurrent"] \subseteq DisplayOf(now)
    <2>1. CASE q = "displayCurrent"
      <3>1. PICK storage, m : /\ storage = read.row["current"]
                              /\ m = Memberships(read.row)
        OBVIOUS
      <3>2. read'.row["displayCurrent"] =
              UNION {DisplayRows(f, "current", m, storage) : f \in F}
        <4>1. Answer("displayCurrent", F, read.row)
                = lookupDisplayTags(F, "current", read.row)
          BY AnswersAre
        <4>2. QED
          BY <1>3, <2>1, <3>1, <4>1 DEF lookupDisplayTags
      <3>3. owed \subseteq storage /\ storage \subseteq now
        BY <1>2, <1>5, <1>8, <2>1, <3>1 DEF TagsInv
      <3>4. storage \subseteq mappings["current"]
        BY <1>7, <3>3
      <3>5. ASSUME NEW f \in F
            PROVE  /\ DisplayRows(f, "current", m, storage)
                        \subseteq DisplayOf(RowsOf({f}, mappings["current"]))
                   /\ f \in Cacheless =>
                        DisplayOf(RowsOf({f}, storage))
                          \subseteq DisplayRows(f, "current", m, storage)
        BY <1>8, <2>1, <3>1, <3>4, TagQuery
      <3>6. read'.row["displayCurrent"] \subseteq DisplayOf(now)
        <4>1. ASSUME NEW f \in F
              PROVE  DisplayRows(f, "current", m, storage)
                       \subseteq DisplayOf(now)
          <5>1. RowsOf({f}, mappings["current"]) \subseteq now
            BY <1>5 DEF RowsOf
          <5>2. DisplayOf(RowsOf({f}, mappings["current"]))
                  \subseteq DisplayOf(now)
            BY <5>1, DisplayMonotone
          <5>3. QED
            BY <3>5, <5>2
        <4>2. QED
          BY <3>2, <4>1
      <3>7. DisplayOf(owed) \subseteq read'.row["displayCurrent"]
        <4>1. CASE Stale("metadata", "mappings")
          BY <1>5, <4>1 DEF ReadBack, DisplayOf
        <4>2. CASE ~Stale("metadata", "mappings")
          <5>1. owed = RowsOf(Cacheless, recorded)
            BY <1>5, <4>2 DEF ReadBack
          <5>2. ASSUME NEW f \in Cacheless
                PROVE  DisplayOf(RowsOf({f}, recorded))
                         \subseteq read'.row["displayCurrent"]
            <6>1. f \in F
              BY DEF Cacheless
            <6>2. RowsOf({f}, recorded) \subseteq RowsOf({f}, storage)
              BY <3>3, <5>1 DEF RowsOf
            <6>3. DisplayOf(RowsOf({f}, recorded))
                    \subseteq DisplayOf(RowsOf({f}, storage))
              BY <6>2, DisplayMonotone
            <6>4. QED
              BY <3>2, <3>5, <6>1, <6>3
          <5>3. QED
            BY <5>1, <5>2, DisplayByFile
        <4>3. QED
          BY <4>1, <4>2
      <3>8. QED
        BY <3>6, <3>7
    <2>2. CASE q # "displayCurrent"
      BY <1>2, <1>3, <1>5, <1>10, <2>2 DEF TagsInv
    <2>3. QED
      BY <2>1, <2>2
  <1>11. QED
    BY <1>3, <1>4, <1>5, <1>9, <1>10 DEF TagsInv

(* Every lookup of a read nobody disturbed tells what is recorded.         *)
LEMMA CalmQueries ==
  ASSUME LibraryStrongInv, ReadInv, GetMetadataQuery
  PROVE  CalmInv'
  <1> DEFINE F == read.files
  <1>1. PICK q : q = Queries[read.step]
    OBVIOUS
  <1>2. ReadTypes /\ CalmInv /\ read.step # 0 /\ read.step \in 1..19
    BY QueriesAre DEF ReadInv, GetMetadataQuery
  <1>3. /\ Asked(q)' /\ read'.files = F /\ read'.calm = read.calm
        /\ read'.row[q] = Answer(q, F, read.row)
        /\ \A k : k # q => (Asked(k)' <=> Asked(k))
        /\ \A k : Asked(k) => read'.row[k] = read.row[k]
    BY <1>1, <1>2, QueryMade
  <1>4. /\ UNCHANGED <<deleted, times, mappings>>
        /\ Facts(F)' = Facts(F)
        /\ \A P : ReadBack(P)' = ReadBack(P)
    BY <1>1, QueryContext DEF fileVars, detailVars, tagVars
  <1>5. /\ \A s \in ServiceNames : Facts(F).services[s] = F \cap current[s]
        /\ \A st \in Statuses : Facts(F).tags[st] = RowsOf(F, mappings[st])
    BY DEF Facts
  <1>6. \A st \in Statuses :
          ReadBack(Facts(F).tags[st]) = ReadBack(mappings[st])
    BY <1>5 DEF ReadBack, RowsOf, Cacheless
  <1>7. q \in Statuses => read.step \in 14..19
    BY <1>1, <1>2, QueriesAre DEF Statuses
  <1> SUFFICES ASSUME read.calm PROVE CalmInv'
    BY <1>3 DEF CalmInv
  <1>8. ASSUME NEW s \in ServiceNames, Asked(s)'
        PROVE  read'.row[s] = Facts(F).services[s]
    <2>1. CASE q = s
      <3>1. Answer(s, F, read.row) = lookupCurrentMemberships(F, s)
        BY AnswersAre
      <3>2. QED
        BY <1>3, <1>5, <2>1, <3>1 DEF lookupCurrentMemberships
    <2>2. CASE q # s
      BY <1>2, <1>3, <1>8, <2>2 DEF CalmInv
    <2>3. QED
      BY <2>1, <2>2
  <1>9. ASSUME Asked("deletedFrom")'
        PROVE  read'.row["deletedFrom"] = F \cap deleted
    <2>1. Answer("deletedFrom", F, read.row) = F \cap deleted
      BY AnswersAre DEF lookupDeletedMemberships
    <2>2. QED
      BY <1>2, <1>3, <1>9, <2>1 DEF CalmInv
  <1>10. ASSUME Asked("fileTime")'
         PROVE  read'.row["fileTime"] = [f \in F |-> times[f]["file"]]
    <2>1. Answer("fileTime", F, read.row) = [f \in F |-> times[f]["file"]]
      BY AnswersAre DEF lookupFileModifiedTimestamps
    <2>2. QED
      BY <1>2, <1>3, <1>10, <2>1 DEF CalmInv
  <1>11. ASSUME Asked("siteTime")'
         PROVE  read'.row["siteTime"] = [f \in F |-> times[f]["site"]]
    <2>1. Answer("siteTime", F, read.row) = [f \in F |-> times[f]["site"]]
      BY AnswersAre DEF lookupDomainModifiedTimestamps
    <2>2. QED
      BY <1>2, <1>3, <1>11, <2>1 DEF CalmInv
  <1>12. ASSUME NEW st \in {"pending", "petitioned"}, Asked(st)'
         PROVE  ReadBack(Facts(F).tags[st]) = ReadBack(read'.row[st])
    <2>1. CASE q = st
      <3>1. st \in Statuses
        BY DEF Statuses
      <3>2. PICK rows : rows = lookupStorageTags(F, st, read.row)
        OBVIOUS
      <3>3. read'.row[st] = rows
        <4>1. Answer(st, F, read.row) = lookupStorageTags(F, st, read.row)
          BY <3>1, AnswersAre
        <4>2. QED
          BY <1>3, <2>1, <3>2, <4>1
      <3>4. ReadBack(mappings[st]) = ReadBack(rows)
        BY <1>7, <2>1, <3>1, <3>2, StorageQueries
      <3>5. QED
        BY <1>6, <3>1, <3>3, <3>4
    <2>2. CASE q # st
      BY <1>2, <1>3, <1>12, <2>2 DEF CalmInv
    <2>3. QED
      BY <2>1, <2>2
  <1>13. ASSUME Asked("deleted")'
         PROVE  ReadBack(Facts(F).tags["deleted"])
                  \subseteq read'.row["deleted"]
    <2>1. CASE q = "deleted"
      <3>1. "deleted" \in Statuses
        BY DEF Statuses
      <3>2. PICK rows : rows = lookupStorageTags(F, "deleted", read.row)
        OBVIOUS
      <3>3. read'.row["deleted"] = rows
        <4>1. Answer("deleted", F, read.row)
                = lookupStorageTags(F, "deleted", read.row)
          BY <3>1, AnswersAre
        <4>2. QED
          BY <1>3, <2>1, <3>2, <4>1
      <3>4. ReadBack(mappings["deleted"]) \subseteq rows
        BY <1>7, <2>1, <3>1, <3>2, StorageQueries
      <3>5. QED
        BY <1>6, <3>1, <3>3, <3>4
    <2>2. CASE q # "deleted"
      BY <1>2, <1>3, <1>13, <2>2 DEF CalmInv
    <2>3. QED
      BY <2>1, <2>2
  <1>14. QED
    BY <1>3, <1>4, <1>8, <1>9, <1>10, <1>11, <1>12, <1>13 DEF CalmInv

(* ReadInv holds before the first read, and every step keeps it.           *)
LEMMA ReadInitial == LibraryInit => ReadInv
  <1> SUFFICES ASSUME LibraryInit PROVE ReadInv
    OBVIOUS
  <1>1. read = [step |-> 0]
    BY DEF LibraryInit
  <1>2. CacheSound
    <2> SUFFICES ASSUME hydrusBundle, NEW s \in CacheServices
                 PROVE
          /\ storageCache[s]["current"] \subseteq mappings["current"]
          /\ displayCache[s]["current"]
               \subseteq DisplayOf(mappings["current"])
      BY DEF CacheSound
    <2>1. /\ storageCache[s]["current"] = CacheOf(s, mappings["current"])
          /\ displayCache[s]["current"]
               = CacheOf(s, DisplayOf(mappings["current"]))
      BY DEF LibraryInit, CachedStatuses, DisplayStatuses
    <2>2. QED
      BY <2>1 DEF CacheOf, RowsOf
  <1>3. QED
    BY <1>1, <1>2 DEF ReadInv, ReadTypes

(* A step beside which the tables and the read stay as they are.           *)
LEMMA ReadUntouched ==
  ASSUME ReadInv,
         UNCHANGED <<hydrusBundle, fileVars, detailVars, tagVars, tables,
                     names, read>>
  PROVE  ReadInv'
  <1>1. Facts(read.files)' = Facts(read.files)
    BY DEF Facts, fileVars, detailVars, tagVars
  <1>2. /\ \A q : Asked(q)' <=> Asked(q)
        /\ \A P : DisplayOf(P)' = DisplayOf(P)
        /\ \A P : ReadBack(P)' = ReadBack(P)
        /\ \A t : Stale("metadata", t)' <=> Stale("metadata", t)
    BY DEF Asked, DisplayOf, Implied, ReadBack, Cacheless, RowsOf, Stale,
           fileVars
  <1>3. CacheSound' /\ ReadTypes'
    BY <1>2 DEF ReadInv, CacheSound, ReadTypes, tagVars
  <1>4. ASSUME read.step # 0
        PROVE  BeforeInv' /\ LookupsInv' /\ PlacesInv' /\ TagsInv'
    BY <1>1, <1>2, <1>4
       DEF ReadInv, BeforeInv, LookupsInv, PlacesInv, TagsInv, fileVars,
           tagVars
  <1>5. ASSUME read.step # 0 PROVE CalmInv'
    BY <1>1, <1>2, <1>5 DEF ReadInv, CalmInv, fileVars, detailVars
  <1>6. QED
    BY <1>3, <1>4, <1>5 DEF ReadInv

(* No read is under way, before and after.                                 *)
LEMMA NoRead ==
  ASSUME ReadInv, read'.step = 0, ReadTypes',
         UNCHANGED <<hydrusBundle, tagVars>>
  PROVE  ReadInv'
  BY DEF ReadInv, CacheSound, DisplayOf, Implied, tagVars

(* The invariant of reads is kept by every step of the library.            *)
LEMMA ReadKept ==
  LibraryStrongInv /\ ReadInv /\ [LibraryNext]_libraryVars => ReadInv'
  <1> SUFFICES ASSUME LibraryStrongInv, ReadInv, [LibraryNext]_libraryVars
               PROVE  ReadInv'
    OBVIOUS
  <1>1. CASE Mutation
    BY <1>1, ReadDisturbed
  <1>2. CASE GetMetadataQuery
    <2>1. ReadTypes' /\ read'.step # 0
      BY <1>2, QueryMade DEF ReadInv
    <2>2. CacheSound'
      BY <1>2 DEF GetMetadataQuery, ReadInv, CacheSound, DisplayOf, Implied,
                  tagVars
    <2>3. QED
      BY <1>2, <2>1, <2>2, LookupQueries, PlaceQueries, TagQueries,
         CalmQueries DEF ReadInv
  <1>3. ASSUME NEW F \in (SUBSET Files) \ {{}}, GetMetadataBegins(F)
        PROVE  ReadInv'
    BY <1>3, ReadBegins
  <1>4. CASE \/ GetMetadataReturns
             \/ \E T \in (SUBSET Tags) \ {{}} : SearchByTagsBegins(T)
    <2>1. UNCHANGED <<hydrusBundle, tagVars>>
      BY <1>4 DEF GetMetadataReturns, SearchByTagsBegins
    <2>2. read' = [step |-> 0]
      BY <1>4 DEF GetMetadataReturns, SearchByTagsBegins, ReadInv, ReadTypes
    <2>3. QED
      BY <2>1, <2>2, NoRead DEF ReadTypes
  <1>5. CASE SearchByTagsQuery \/ SearchByTagsReturns \/ UNCHANGED libraryVars
    <2>1. UNCHANGED <<hydrusBundle, fileVars, detailVars, tagVars, tables,
                      names, read>>
      BY <1>5 DEF SearchByTagsQuery, SearchByTagsReturns, libraryVars, readVars
    <2>2. QED
      BY <2>1, ReadUntouched
  <1>6. QED
    BY <1>1, <1>2, <1>3, <1>4, <1>5 DEF LibraryNext, Reading

(* aggregateModifiedTimestamp is no later than any time there is.          *)
LEMMA EarliestTime ==
  ASSUME NEW a \in Nat, NEW b \in Nat, NEW n \in {a, b}, n # 0
  PROVE  aggregateModifiedTimestamp({a, b}) \in 1..n
  <1> DEFINE stamps == {a, b}
             earliest(t) == \A u \in stamps \ {0} : t <= u
  <1>1. \E t \in stamps \ {0} : earliest(t)
    OBVIOUS
  <1>2. aggregateModifiedTimestamp(stamps)
          = CHOOSE t \in stamps \ {0} : earliest(t)
    BY DEF aggregateModifiedTimestamp
  <1>3. PICK t \in stamps \ {0} :
          earliest(t) /\ aggregateModifiedTimestamp(stamps) = t
    BY <1>1, <1>2
  <1>4. t \in Nat /\ t # 0 /\ t <= n
    BY <1>3
  <1>5. QED
    BY <1>3, <1>4

(* A row whose queries are all answered is faithful.                       *)
LEMMA RowsFollow ==
  ASSUME LibraryStrongInv, ReadInv PROVE RowsFaithful
  <1> SUFFICES ASSUME read.step = Answered PROVE RowsFaithful
    BY DEF RowsFaithful
  <1> DEFINE F == read.files
             row == read.row
             before == read.before
             now == Facts(F)
  <1>1. read.step = 20 /\ read.step # 0
    BY QueriesAre
  <1>2. /\ ReadTypes /\ BeforeInv /\ LookupsInv /\ PlacesInv /\ TagsInv
        /\ CalmInv
    BY <1>1 DEF ReadInv
  <1>3. \A i \in 1..19 : Asked(Queries[i])
    BY <1>1, <1>2, AskedInOrder
  <1>4. /\ Asked("hashes") /\ Asked("info") /\ Asked("inbox")
        /\ Asked("fileTime") /\ Asked("siteTime") /\ Asked("urls")
        /\ Asked("local") /\ Asked("storage") /\ Asked("combinedLocal")
        /\ Asked("deletedFrom") /\ Asked("combinedFile") /\ Asked("trash")
        /\ Asked("notes") /\ Asked("current") /\ Asked("deleted")
        /\ Asked("pending") /\ Asked("petitioned")
        /\ Asked("displayCurrent")
    BY <1>3, QueriesAre
  <1>5. \A q \in {"hashes", "info", "inbox", "urls"} :
          before[q] \subseteq row[q] /\ row[q] \subseteq now[q]
    BY <1>2, <1>4 DEF LookupsInv
  <1>6. /\ row["notes"] \subseteq now.notes
        /\ Stale("metadata", "notes") \/ before.notes \subseteq row["notes"]
    BY <1>2, <1>4 DEF LookupsInv
  <1>7. /\ now.tags["current"] = RowsOf(F, mappings["current"])
        /\ \A s \in ServiceNames : now.services[s] = F \cap current[s]
        /\ \A f \in F : now.time[f] = times[f]
        /\ now.info = F \cap info
    BY DEF Facts, Statuses
  <1>8. /\ ReadBack(before.tags["current"]) \subseteq row["current"]
        /\ row["current"] \subseteq now.tags["current"]
        /\ DisplayOf(ReadBack(before.tags["current"]))
             \subseteq row["displayCurrent"]
        /\ row["displayCurrent"] \subseteq DisplayOf(now.tags["current"])
    BY <1>2, <1>4, <1>7 DEF TagsInv
  <1>9. ASSUME NEW f \in row["info"]
        PROVE  LET built == buildFullMetadataRow(f, row) IN
               /\ built.is_local \/ (built.is_trashed /\ built.is_deleted)
               /\ read.calm =>
                    /\ built.is_deleted = (f \in now.services["trash"])
                    /\ \A d \in Domains : now.time[f][d] # 0 =>
                         built.time_modified \in 1..now.time[f][d]
    <2> DEFINE built == buildFullMetadataRow(f, row)
    <2>1. /\ built.is_local = (f \in row["storage"])
          /\ built.is_trashed = (f \in row["trash"])
          /\ built.is_deleted = (f \in row["trash"] \cup row["deletedFrom"])
          /\ built.time_modified = aggregateModifiedTimestamp(
               {row["fileTime"][f], row["siteTime"][f]})
      BY DEF buildFullMetadataRow
    <2>2. f \in F /\ f \in info
      BY <1>5, <1>7
    <2>3. built.is_local \/ (built.is_trashed /\ built.is_deleted)
      BY <1>2, <1>4, <2>1 DEF PlacesInv
    <2>4. ASSUME read.calm
          PROVE  built.is_deleted = (f \in now.services["trash"])
      <3>1. "trash" \in ServiceNames
        BY ServicesAre
      <3>2. /\ row["trash"] = F \cap current["trash"]
            /\ row["deletedFrom"] = F \cap deleted
        BY <1>2, <1>4, <1>7, <2>4, <3>1 DEF CalmInv
      <3>3. f \in current["trash"] <=> f \in deleted
        BY <2>2, <3>1 DEF LibraryStrongInv, LibraryInv, MembershipInv
      <3>4. QED
        BY <1>7, <2>1, <2>2, <3>1, <3>2, <3>3
    <2>5. ASSUME read.calm, NEW d \in Domains, now.time[f][d] # 0
          PROVE  built.time_modified \in 1..now.time[f][d]
      <3>1. /\ row["fileTime"][f] = times[f]["file"]
            /\ row["siteTime"][f] = times[f]["site"]
        BY <1>2, <1>4, <2>2, <2>5 DEF CalmInv
      <3>2. times[f] \in [Domains -> 0..2]
        BY <1>2, <2>2 DEF ReadTypes, LibraryStrongInv, LibraryInv, RowTypes
      <3>3. /\ times[f]["file"] \in Nat /\ times[f]["site"] \in Nat
            /\ times[f][d] \in {times[f]["file"], times[f]["site"]}
        BY <3>2 DEF Domains
      <3>4. QED
        BY <1>7, <2>1, <2>2, <2>5, <3>1, <3>3, EarliestTime
    <2>6. QED
      BY <2>3, <2>4, <2>5
  <1>10. ASSUME read.calm
         PROVE  /\ \A s \in ServiceNames : row[s] = now.services[s]
                /\ ReadBack(now.tags["pending"]) = ReadBack(row["pending"])
                /\ ReadBack(now.tags["petitioned"])
                     = ReadBack(row["petitioned"])
                /\ ReadBack(now.tags["deleted"]) \subseteq row["deleted"]
    <2>1. \A s \in ServiceNames : row[s] = now.services[s]
      BY <1>2, <1>4, <1>10, ServicesAre DEF CalmInv
    <2>2. QED
      BY <1>2, <1>4, <1>10, <2>1 DEF CalmInv
  <1>11. QED
    BY <1>5, <1>6, <1>8, <1>9, <1>10 DEF RowsFaithful

(* ReadInv holds of every state, for any files, tags, siblings and parents *)
(* and any number of mutations and reads.                                  *)
THEOREM ReadInvariant == LibrarySpec => []ReadInv
  <1>1. QED
    BY ReadInitial, ReadKept, LibraryInvariant, PTL DEF LibrarySpec

(* What GetMetadata answers is faithful to the tables, although each of    *)
(* its queries sees a moment of its own.                                   *)
THEOREM RowsAreFaithful == LibrarySpec => []RowsFaithful
  <1>1. LibraryStrongInv /\ ReadInv => RowsFaithful
    BY RowsFollow
  <1>2. QED
    BY <1>1, ReadInvariant, LibraryInvariant, PTL
=============================================================================
